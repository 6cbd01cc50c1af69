------------------------ MODULE MissionRuntime_proofs ------------------------
(***************************************************************************)
(* What holds of a mission for any plan, any number of presses of Run and  *)
(* any limits: the human's approvals are neither spent twice nor left      *)
(* open, one task has one repair, a completed mission stays done, and no   *)
(* task is ahead of what it depends on.  The last part is about the        *)
(* mission loop: CrewInv gives that its ledger counts straight, that       *)
(* evidence is spent once, and that praise holds.                          *)
(***************************************************************************)
EXTENDS MissionRuntime, MissionLoop, FiniteSetTheorems, SequenceTheorems, WellFoundedInduction, TLAPS

(* How the two handlers end that look at what a task depends on.           *)
Postpones(l) == At(l, "enter") /\ ~DependenciesMet(Job(l)) /\ Postpone(l)
Asks(l) == At(l, "enter") /\ DependenciesMet(Job(l)) /\ Job(l) \in Gated /\ Ask(l)
Begins(l) ==
  /\ At(l, "enter") /\ DependenciesMet(Job(l)) /\ Job(l) \notin Gated
  /\ Start(l)
  /\ UNCHANGED <<status, watchVars, graphVars, askVars, pageVars>>
Delegated(l) == Approved(l) /\ DependenciesMet(Job(l))
InVain(l) == Approved(l) /\ ~DependenciesMet(Job(l))

LEMMA Outcomes ==
  ASSUME NEW l
  PROVE  /\ ExecuteTask(l) => Postpones(l) \/ Asks(l) \/ Begins(l)
         /\ Approved(l) => Delegated(l) \/ InVain(l)
<1>1. ExecuteTask(l) => Postpones(l) \/ Asks(l) \/ Begins(l)
  BY DEF ExecuteTask, Postpones, Asks, Begins
<1>2. Approved(l) => Delegated(l) \/ InVain(l)
  BY DEF Delegated, InVain
<1> QED BY <1>1, <1>2

(* The first of some tasks is one of them.                                 *)
LEMMA MinOf ==
  ASSUME NEW S \in SUBSET Task, S # {}
  PROVE  Min(S) \in S
<1>1. S \subseteq Nat
  BY MissionAssumption
<1>2. IsWellFoundedOn(OpToRel(<, Nat), Nat)
  BY NatLessThanWellFounded
<1>3. PICK m \in S : \A y \in S : ~ (<<y, m>> \in OpToRel(<, Nat))
  BY <1>1, <1>2, WFMin
<1>4. ASSUME NEW y \in S PROVE m <= y
  <2>1. m \in Nat /\ y \in Nat
    BY <1>1
  <2>2. ~ (y < m)
    BY <1>3, <2>1 DEF OpToRel
  <2> QED BY <2>1, <2>2
<1> QED BY <1>4 DEF Min

-----------------------------------------------------------------------------
(* Where a loop goes.                                                      *)

Working == {"enter", "gate", "work", "repair"}

LoopInv ==
  /\ \A l \in Loop : loop[l].pc \in Working => loop[l].job \in Task
  /\ \A l \in Loop : loop[l].repairing => loop[l].pc \in Working
  /\ \A l \in Loop : Live(l) => planned
  /\ OneRepairPerTask

(* What every step makes of its loop.  A loop that starts a repair is not  *)
(* the one that has the task in repair already, nor is another.            *)
Sane(l, s) ==
  /\ Live(l) /\ s \in LoopState
  /\ s.pc \in Working => s.job \in Task
  /\ s.repairing => /\ s.pc \in Working
                    /\ \/ loop[l].repairing /\ s.job = loop[l].job
                       \/ s.job \notin InFlight
  /\ s.pc = "gate" => loop[l].pc = "enter" /\ loop[l].job \in Gated
  /\ s.pc = "work" => s.job = loop[l].job /\ DependenciesMet(loop[l].job)

Moves(l) == \E s \in LoopState : Become(l, s) /\ Sane(l, s)

LEMMA MovesTo ==
  ASSUME NEW l \in Loop, NEW s \in LoopState, Become(l, s), Sane(l, s)
  PROVE  Moves(l)
BY DEF Moves

LEMMA Stops ==
  ASSUME NEW l \in Loop, Live(l), Over(l) \/ Dies(l)
  PROVE  Moves(l)
<1>1. ASSUME NEW where \in {"over", "dead"}, Become(l, [Idle EXCEPT !.pc = where])
      PROVE  Moves(l)
  <2> DEFINE s == [Idle EXCEPT !.pc = where]
  <2>1. 0 \in 0 .. MaxTurns
    BY MissionAssumption
  <2>2. Idle \in LoopState /\ ~Idle.repairing
    BY <2>1 DEF Idle, LoopState
  <2>3. s \in LoopState /\ s.pc = where /\ ~s.repairing
    BY <2>2 DEF LoopState
  <2> HIDE DEF s
  <2>4. Sane(l, s)
    BY <2>3 DEF Sane, Working
  <2> QED BY <1>1, <2>3, <2>4, MovesTo DEF s
<1> QED BY <1>1 DEF Over, Dies

LEMMA Transits ==
  ASSUME TypeOK, NEW l \in Loop, NEW to \in Status, NEW next \in LoopState,
         Transition(l, to, next), Sane(l, next)
  PROVE  Moves(l) /\ status' \in {status, to}
<1>1. Live(l)
  BY DEF Sane
<1>2. CASE Legal(to)
  BY <1>2 DEF Transition, Moves
<1>3. CASE ~Legal(to)
  BY <1>1, <1>3, Stops DEF Transition
<1> QED BY <1>2, <1>3

LEMMA LoopTyped ==
  ASSUME TypeOK, NEW l \in Loop
  PROVE  loop[l] \in LoopState
BY DEF TypeOK

(* A step that changes no more than where its loop is, and what is left    *)
(* for it to do.                                                           *)
Keeps(st, s) == s \in LoopState /\ s.job = st.job /\ s.repairing = st.repairing

LEMMA Goes ==
  ASSUME NEW st \in LoopState, NEW where \in Sync \union {"turn", "gate", "work", "drain"}
  PROVE  /\ Keeps(st, [st EXCEPT !.pc = where])
         /\ [st EXCEPT !.pc = where].pc = where
         /\ Keeps(st, [st EXCEPT !.pc = where, !.pausing = FALSE])
         /\ [st EXCEPT !.pc = where, !.pausing = FALSE].pc = where
<1>1. where \in Sync \union {"idle", "turn", "gate", "work", "drain", "over", "dead"}
  OBVIOUS
<1>2. [st EXCEPT !.pc = where] \in LoopState
  BY <1>1 DEF LoopState
<1>3. [st EXCEPT !.pc = where, !.pausing = FALSE] \in LoopState
  BY <1>1 DEF LoopState
<1> QED BY <1>2, <1>3 DEF LoopState, Keeps

Between == {"top", "turn", "rec", "decide", "drain", "wave", "finish"}

LEMMA StaysSane ==
  ASSUME TypeOK, LoopInv, NEW l \in Loop, loop[l].pc \in Between,
         NEW s, Keeps(loop[l], s), s.pc \notin Working
  PROVE  s \in LoopState /\ Sane(l, s)
<1>1. loop[l] \in LoopState
  BY LoopTyped
<1>2. ~loop[l].repairing
  BY <1>1 DEF LoopInv, Between, Working, LoopState
<1> QED BY <1>1, <1>2 DEF Keeps, Sane, Live, Between, Working, LoopState

LEMMA LoopsMove ==
  ASSUME TypeOK, LoopInv, NEW l \in Loop
  PROVE  /\ Top(l) => Moves(l)
         /\ OverBudget(l) => Moves(l)
         /\ Supervise(l) => Moves(l)
         /\ Recommended(l) => Moves(l)
         /\ AllRecommended(l) => Moves(l)
<1> DEFINE st == loop[l]
<1>1. st \in LoopState
  BY LoopTyped
<1>2. st.repairing => st.pc \in Working
  BY DEF LoopInv
<1>3. ASSUME st.pc \in Between, NEW s, Keeps(st, s), s.pc \notin Working
      PROVE  s \in LoopState /\ Sane(l, s)
  BY <1>3, StaysSane
<1>4. ASSUME st.pc \in Between, NEW s, Keeps(st, s), s.pc \notin Working, Become(l, s)
      PROVE  Moves(l)
  BY <1>3, <1>4, MovesTo
<1>5. ASSUME Top(l) PROVE Moves(l)
  <2>1. st.pc = "top"
    BY <1>5 DEF Top, At
  <2>2. CASE st.turn = MaxTurns
    <3>1. /\ Keeps(st, [st EXCEPT !.pc = "finish"])
          /\ [st EXCEPT !.pc = "finish"].pc = "finish"
      BY <1>1, Goes DEF Sync
    <3>2. Become(l, [st EXCEPT !.pc = "finish"])
      BY <1>5, <2>2 DEF Top, Goto, Become, TypeOK
    <3> QED BY <1>4, <2>1, <3>1, <3>2 DEF Working, Between
  <2>3. CASE st.turn # MaxTurns
    <3> DEFINE s == [st EXCEPT !.pc = "turn", !.turn = @ + 1]
    <3>1. st.turn + 1 \in 0 .. MaxTurns
      BY <1>1, <2>3, MissionAssumption DEF LoopState
    <3>2. Keeps(st, s) /\ s.pc = "turn"
      BY <1>1, <3>1 DEF Keeps, LoopState, Sync
    <3>3. Become(l, s)
      BY <1>5, <2>3 DEF Top
    <3> HIDE DEF s
    <3> QED BY <1>4, <2>1, <3>2, <3>3 DEF Working, Between
  <2> QED BY <2>2, <2>3
<1>6. ASSUME OverBudget(l) PROVE Moves(l)
  <2> DEFINE s == [st EXCEPT !.pc = "finish"]
  <2>1. st.pc = "turn"
    BY <1>6 DEF OverBudget, At
  <2>2. Keeps(st, s) /\ s.pc = "finish"
    BY <1>1, Goes DEF Sync
  <2>3. Transition(l, "BLOCKED", s)
    BY <1>6 DEF OverBudget
  <2> HIDE DEF s
  <2>4. s \in LoopState /\ Sane(l, s)
    BY <1>3, <2>1, <2>2 DEF Working, Between
  <2> QED BY <2>3, <2>4, Transits DEF Status
<1>7. ASSUME Supervise(l) PROVE Moves(l)
  <2>1. PICK stall \in BOOLEAN :
          Become(l, [loop[l] EXCEPT !.pc = "rec", !.recs = Repeated, !.pausing = stall])
    BY <1>7 DEF Supervise
  <2> DEFINE s == [st EXCEPT !.pc = "rec", !.recs = Repeated, !.pausing = stall]
  <2>2. st.pc = "turn" /\ Repeated \in SUBSET Task
    BY <1>7 DEF Supervise, At, Repeated, In
  <2>3. Keeps(st, s) /\ s.pc = "rec"
    BY <1>1, <2>2 DEF Keeps, LoopState, Sync
  <2>4. Become(l, s)
    BY <2>1
  <2> HIDE DEF s
  <2> QED BY <1>4, <2>2, <2>3, <2>4 DEF Working, Between
<1>8. ASSUME Recommended(l) PROVE Moves(l)
  <2> DEFINE t == Min(st.recs)
             s == [st EXCEPT !.pc = "repair", !.recs = @ \ {t}, !.job = t, !.from = "rec"]
  <2>1. st.pc = "rec" /\ st.recs # {} /\ Become(l, s)
    BY <1>8 DEF Recommended, At
  <2>2. t \in Task
    BY <1>1, <2>1, MinOf DEF LoopState
  <2> HIDE DEF t
  <2>3. s \in LoopState /\ s.pc = "repair" /\ s.job = t /\ s.repairing = st.repairing
    BY <1>1, <2>2 DEF LoopState, Sync
  <2>4. ~st.repairing
    BY <1>2, <2>1 DEF Working
  <2> HIDE DEF s
  <2>5. Sane(l, s)
    BY <2>1, <2>2, <2>3, <2>4 DEF Sane, Live, Working
  <2> QED BY <2>1, <2>3, <2>5, MovesTo
<1>9. ASSUME AllRecommended(l) PROVE Moves(l)
  <2> DEFINE s == [st EXCEPT !.pc = "decide", !.pausing = FALSE]
  <2>1. st.pc = "rec"
    BY <1>9 DEF AllRecommended, At
  <2>2. Keeps(st, s) /\ s.pc = "decide"
    BY <1>1, Goes DEF Sync
  <2>3. Transition(l, "PAUSED", s) \/ Become(l, s)
    BY <1>9 DEF AllRecommended
  <2> HIDE DEF s
  <2>4. s \in LoopState /\ Sane(l, s)
    BY <1>3, <2>1, <2>2 DEF Working, Between
  <2> QED BY <2>3, <2>4, Transits, MovesTo DEF Status
<1> QED BY <1>5, <1>6, <1>7, <1>8, <1>9

LEMMA DecisionsMove ==
  ASSUME TypeOK, LoopInv, NEW l \in Loop
  PROVE  /\ Dispatch(l) => Moves(l)
         /\ Reorganize(l) => Moves(l)
         /\ CannotReorganize(l) \/ GiveUp(l) => Moves(l)
         /\ Await(l) => Moves(l)
         /\ NothingLeft(l) => Moves(l)
         /\ Drained(l) => Moves(l)
<1> DEFINE st == loop[l]
<1>1. st \in LoopState
  BY LoopTyped
<1>2. ASSUME st.pc \in Between, NEW s, Keeps(st, s), s.pc \notin Working, Become(l, s)
      PROVE  Moves(l)
  BY <1>2, StaysSane, MovesTo
<1>3. ASSUME st.pc \in Between, NEW s, Keeps(st, s), s.pc \notin Working,
             NEW to \in Status, Transition(l, to, s)
      PROVE  Moves(l)
  BY <1>3, StaysSane, Transits
<1>4. ASSUME Dispatch(l) PROVE Moves(l)
  <2> DEFINE s == [st EXCEPT !.pc = "wave", !.wave = DispatchableWave]
  <2>1. st.pc = "decide" /\ DispatchableWave \in SUBSET Task
    BY <1>4 DEF Dispatch, At, DispatchableWave, In
  <2>2. Keeps(st, s) /\ s.pc = "wave"
    BY <1>1, <2>1 DEF Keeps, LoopState, Sync
  <2>3. Become(l, s)
    BY <1>4 DEF Dispatch
  <2> HIDE DEF s
  <2> QED BY <1>2, <2>1, <2>2, <2>3 DEF Working, Between
<1>5. ASSUME Reorganize(l) PROVE Moves(l)
  <2> DEFINE s == [st EXCEPT !.pc = "top"]
  <2>1. st.pc = "decide"
    BY <1>5 DEF Reorganize, Exhausted, Stuck, At
  <2>2. Keeps(st, s) /\ s.pc = "top"
    BY <1>1, Goes DEF Sync
  <2>3. Become(l, s)
    BY <1>5 DEF Reorganize, Goto, Become, TypeOK
  <2> HIDE DEF s
  <2> QED BY <1>2, <2>1, <2>2, <2>3 DEF Working, Between
<1>6. ASSUME CannotReorganize(l) \/ GiveUp(l) PROVE Moves(l)
  <2>1. st.pc = "decide"
    BY <1>6 DEF CannotReorganize, GiveUp, Exhausted, Stuck, At
  <2>2. PICK where \in {"top", "finish"} : Transition(l, "BLOCKED", [st EXCEPT !.pc = where])
    BY <1>6 DEF CannotReorganize, GiveUp
  <2> DEFINE s == [st EXCEPT !.pc = where]
  <2>3. Keeps(st, s) /\ s.pc = where
    BY <1>1, Goes DEF Sync
  <2>4. Transition(l, "BLOCKED", s)
    BY <2>2
  <2> HIDE DEF s
  <2> QED BY <1>3, <2>1, <2>3, <2>4 DEF Working, Between, Status
<1>7. ASSUME Await(l) PROVE Moves(l)
  <2> DEFINE s == [st EXCEPT !.pc = "drain", !.draining = Pending]
  <2>1. st.pc = "decide" /\ Pending \in SUBSET Loop
    BY <1>7 DEF Await, Stuck, At, Pending
  <2>2. Keeps(st, s) /\ s.pc = "drain"
    BY <1>1, <2>1 DEF Keeps, LoopState, Sync
  <2>3. Transition(l, "BLOCKED", s)
    BY <1>7 DEF Await
  <2> HIDE DEF s
  <2> QED BY <1>3, <2>1, <2>2, <2>3 DEF Working, Between, Status
<1>8. ASSUME NothingLeft(l) PROVE Moves(l)
  <2> DEFINE s == [st EXCEPT !.pc = "finish"]
  <2>1. st.pc = "decide"
    BY <1>8 DEF NothingLeft, At
  <2>2. Keeps(st, s) /\ s.pc = "finish"
    BY <1>1, Goes DEF Sync
  <2>3. Become(l, s)
    BY <1>8 DEF NothingLeft, Goto, Become, TypeOK
  <2> HIDE DEF s
  <2> QED BY <1>2, <2>1, <2>2, <2>3 DEF Working, Between
<1>9. ASSUME Drained(l) PROVE Moves(l)
  <2> DEFINE s == [st EXCEPT !.pc = "top"]
  <2>1. st.pc = "drain"
    BY <1>9 DEF Drained, At
  <2>2. Keeps(st, s) /\ s.pc = "top"
    BY <1>1, Goes DEF Sync
  <2>3. Transition(l, "RUNNING", s)
    BY <1>9 DEF Drained
  <2> HIDE DEF s
  <2> QED BY <1>3, <2>1, <2>2, <2>3 DEF Working, Between, Status
<1> QED BY <1>4, <1>5, <1>6, <1>7, <1>8, <1>9

LEMMA WavesMove ==
  ASSUME TypeOK, LoopInv, NEW l \in Loop
  PROVE  /\ NextTask(l) => Moves(l)
         /\ WaveDone(l) => Moves(l)
         /\ Finish(l) => Moves(l)
<1> DEFINE st == loop[l]
<1>1. st \in LoopState
  BY LoopTyped
<1>2. ASSUME NextTask(l) PROVE Moves(l)
  <2> DEFINE t == Min(st.wave)
             rest == [st EXCEPT !.wave = @ \ {t}]
             s == [rest EXCEPT !.pc = "enter", !.job = t, !.from = "wave"]
  <2>1. st.pc = "wave" /\ st.wave # {} /\ Become(l, IF task[t] = "DONE" THEN rest ELSE s)
    BY <1>2 DEF NextTask, At
  <2>2. t \in Task
    BY <1>1, <2>1, MinOf DEF LoopState
  <2>3. ~st.repairing
    BY <1>1, <2>1 DEF LoopInv, Working
  <2> HIDE DEF t
  <2>4. rest \in LoopState /\ rest.pc = st.pc /\ rest.job = st.job /\ rest.repairing = st.repairing
    BY <1>1 DEF LoopState
  <2> HIDE DEF rest
  <2>5. s \in LoopState /\ s.pc = "enter" /\ s.job = t /\ s.repairing = rest.repairing
    BY <2>2, <2>4 DEF LoopState, Sync
  <2> HIDE DEF s
  <2>6. Sane(l, rest) /\ Sane(l, s)
    BY <2>1, <2>2, <2>3, <2>4, <2>5 DEF Sane, Live, Working
  <2> QED BY <2>1, <2>4, <2>5, <2>6, MovesTo
<1>3. ASSUME WaveDone(l) PROVE Moves(l)
  <2> DEFINE s == [st EXCEPT !.pc = "top"]
  <2>1. st.pc = "wave"
    BY <1>3 DEF WaveDone, At
  <2>2. Keeps(st, s) /\ s.pc = "top"
    BY <1>1, Goes DEF Sync
  <2>3. Become(l, s)
    BY <1>3 DEF WaveDone, Goto, Become, TypeOK
  <2> HIDE DEF s
  <2> QED BY <2>1, <2>2, <2>3, StaysSane, MovesTo DEF Working, Between
<1>4. ASSUME Finish(l) PROVE Moves(l)
  <2>1. Live(l)
    BY <1>4 DEF Finish, At, Live
  <2>2. Over(l) \/ Dies(l)
    BY <1>4 DEF Finish, Transition, Over
  <2> QED BY <2>1, <2>2, Stops
<1> QED BY <1>2, <1>3, <1>4

LEMMA ReturnMoves ==
  ASSUME TypeOK, NEW l \in Loop, loop[l].pc \in Working, Return(l)
  PROVE  Moves(l)
<1> DEFINE s == [loop[l] EXCEPT !.pc = loop[l].from, !.job = 0, !.repairing = FALSE]
<1>1. loop[l] \in LoopState
  BY LoopTyped
<1>2. loop[l].from \in {"wave", "rec"}
  BY <1>1 DEF LoopState
<1>3. s \in LoopState /\ s.pc \in {"wave", "rec"} /\ ~s.repairing
  BY <1>1, <1>2 DEF LoopState, Sync
<1>4. Become(l, s)
  BY DEF Return
<1> HIDE DEF s
<1>5. Sane(l, s)
  BY <1>3 DEF Sane, Live, Working
<1> QED BY <1>3, <1>4, <1>5, MovesTo

LEMMA TasksMove ==
  ASSUME TypeOK, LoopInv, NEW l \in Loop
  PROVE  /\ Begins(l) \/ Delegated(l) => Moves(l)
         /\ Asks(l) => Moves(l)
         /\ Refused(l) \/ Delivered(l) \/ Postpones(l) => Moves(l)
         /\ InVain(l) => Moves(l)
         /\ Failed(l) => Moves(l)
<1> DEFINE st == loop[l]
<1>1. st \in LoopState
  BY LoopTyped
<1>2. ASSUME st.pc \in Working, NEW where \in Working,
             where = "gate" => st.pc = "enter" /\ st.job \in Gated,
             where = "work" => DependenciesMet(st.job),
             Goto(l, where) \/ Become(l, [st EXCEPT !.pc = where])
      PROVE  Moves(l)
  <2> DEFINE s == [st EXCEPT !.pc = where]
  <2>1. Keeps(st, s) /\ s.pc = where
    BY <1>1, Goes DEF Sync, Working
  <2>2. Become(l, s)
    BY <1>2 DEF Goto, Become, TypeOK
  <2>3. st.job \in Task
    BY <1>2 DEF LoopInv
  <2> HIDE DEF s
  <2>4. Sane(l, s)
    BY <1>2, <2>1, <2>3 DEF Sane, Keeps, Live, Working
  <2> QED BY <2>1, <2>2, <2>4, MovesTo DEF Keeps
<1>3. ASSUME Begins(l) \/ Delegated(l) PROVE Moves(l)
  <2>1. st.pc \in Working /\ Become(l, [st EXCEPT !.pc = "work"]) /\ DependenciesMet(st.job)
    BY <1>3 DEF Begins, Delegated, Approved, Answered, Start, At, Job, Working
  <2> QED BY <1>2, <2>1 DEF Working
<1>4. ASSUME Asks(l) PROVE Moves(l)
  BY <1>2, <1>4 DEF Asks, Ask, At, Job, Working
<1>5. ASSUME Refused(l) \/ Delivered(l) \/ Postpones(l) PROVE Moves(l)
  BY <1>5, ReturnMoves DEF Refused, Answered, Delivered, Postpones, Postpone, At, Working
<1>6. ASSUME Failed(l) PROVE Moves(l)
  BY <1>2, <1>6 DEF Failed, At, Working
<1>7. ASSUME InVain(l) PROVE Moves(l)
  BY <1>7, Stops DEF InVain, Approved, Answered, At, Live
<1> QED BY <1>3, <1>4, <1>5, <1>6, <1>7

LEMMA RepairsMove ==
  ASSUME TypeOK, LoopInv, NEW l \in Loop
  PROVE  /\ NoRepair(l) \/ NoOtherHarness(l) => Moves(l)
         /\ LastRepair(l) => Moves(l)
         /\ RepairThrows(l) => Moves(l)
         /\ RepairWorks(l) => Moves(l)
<1> DEFINE st == loop[l]
<1>1. st \in LoopState
  BY LoopTyped
<1>2. ASSUME st.pc = "repair" PROVE st.pc \in Working /\ st.job \in Task /\ Live(l)
  BY <1>2 DEF LoopInv, Working, Live
<1>3. ASSUME NoRepair(l) \/ NoOtherHarness(l) PROVE Moves(l)
  BY <1>2, <1>3, ReturnMoves DEF NoRepair, NoOtherHarness, Repairs, Counts, At
<1>4. ASSUME Counts(l) PROVE st.pc = "repair" /\ st.job \notin InFlight /\ ~st.repairing
  BY <1>4 DEF Counts, Refuses, Job, InFlight, At
<1>5. ASSUME LastRepair(l) PROVE Moves(l)
  <2> DEFINE s == [st EXCEPT !.pc = st.from, !.job = 0]
  <2>1. Transition(l, "BLOCKED", s) /\ Counts(l)
    BY <1>5 DEF LastRepair
  <2>2. st.from \in {"wave", "rec"}
    BY <1>1 DEF LoopState
  <2>3. s \in LoopState /\ s.pc \in {"wave", "rec"} /\ s.repairing = st.repairing
    BY <1>1, <2>2 DEF LoopState, Sync
  <2> HIDE DEF s
  <2>4. Sane(l, s)
    BY <1>2, <1>4, <2>1, <2>3 DEF Sane, Working
  <2> QED BY <2>1, <2>3, <2>4, Transits DEF Status
<1>6. ASSUME RepairThrows(l) PROVE Moves(l)
  BY <1>2, <1>4, <1>6, Stops DEF RepairThrows, Repairs
<1>7. ASSUME RepairWorks(l) PROVE Moves(l)
  <2> DEFINE s == [st EXCEPT !.pc = "enter", !.repairing = TRUE]
  <2>0. Counts(l) /\ (Become(l, s) \/ Return(l))
    BY <1>7 DEF RepairWorks, Repairs
  <2> SUFFICES ASSUME Become(l, s) PROVE Moves(l)
    BY <1>2, <1>4, <2>0, ReturnMoves
  <2>1. Become(l, s) /\ Counts(l)
    BY <2>0
  <2>2. s \in LoopState /\ s.pc = "enter" /\ s.job = st.job /\ s.repairing
    BY <1>1 DEF LoopState, Sync
  <2> HIDE DEF s
  <2>3. Sane(l, s)
    BY <1>2, <1>4, <2>1, <2>2 DEF Sane, Working
  <2> QED BY <2>1, <2>2, <2>3, MovesTo
<1> QED BY <1>3, <1>5, <1>6, <1>7

LEMMA StepMoves ==
  ASSUME TypeOK, LoopInv, NEW l \in Loop, Step(l), ~TimeOut(l)
  PROVE  Moves(l)
BY LoopsMove, DecisionsMove, WavesMove, TasksMove, RepairsMove, Outcomes DEF Step

(* A loop has one job, and at most one loop has it in repair.              *)
LEMMA MovesLoopInv ==
  ASSUME TypeOK, LoopInv, NEW l \in Loop, Moves(l), UNCHANGED planned
  PROVE  LoopInv' /\ loop' \in [Loop -> LoopState]
<1>1. PICK s \in LoopState : Become(l, s) /\ Sane(l, s)
  BY DEF Moves
<1>2. loop' \in [Loop -> LoopState] /\ loop'[l] = s /\ \A k \in Loop : k # l => loop'[k] = loop[k]
  BY <1>1 DEF Become, TypeOK
<1>3. \A k \in Loop : loop'[k].pc \in Working => loop'[k].job \in Task
  BY <1>1, <1>2 DEF LoopInv, Sane
<1>4. \A k \in Loop : loop'[k].repairing => loop'[k].pc \in Working
  BY <1>1, <1>2 DEF LoopInv, Sane
<1>5. \A k \in Loop : Live(k)' => planned'
  BY <1>1, <1>2 DEF LoopInv, Sane, Live
<1>6. OneRepairPerTask'
  <2>1. \A k \in Loop : k # l /\ loop[k].repairing /\ s.repairing => loop[k].job # s.job
    BY <1>1 DEF LoopInv, OneRepairPerTask, Sane, InFlight, Job
  <2> QED BY <1>2, <2>1 DEF LoopInv, OneRepairPerTask, Job
<1> QED BY <1>2, <1>3, <1>4, <1>5, <1>6 DEF LoopInv

(* Someone is answered: nothing but what drainApprovals waits for changes. *)
LEMMA SettleLoopInv ==
  ASSUME TypeOK, LoopInv, NEW k \in Loop, NEW answer, Settle(k, answer), UNCHANGED planned
  PROVE  /\ LoopInv' /\ loop' \in [Loop -> LoopState]
         /\ \A l \in Loop : /\ loop'[l].pc = loop[l].pc /\ loop'[l].job = loop[l].job
                            /\ loop'[l].from = loop[l].from /\ loop'[l].recs = loop[l].recs
<1>1. \A l \in Loop : loop'[l] = [loop[l] EXCEPT !.draining = @ \ {k}]
  BY DEF Settle
<1>2. \A l \in Loop : /\ loop'[l] \in LoopState
                      /\ loop'[l].pc = loop[l].pc /\ loop'[l].job = loop[l].job
                      /\ loop'[l].repairing = loop[l].repairing
                      /\ loop'[l].from = loop[l].from /\ loop'[l].recs = loop[l].recs
  <2> SUFFICES ASSUME NEW l \in Loop
               PROVE  /\ loop'[l] \in LoopState
                      /\ loop'[l].pc = loop[l].pc /\ loop'[l].job = loop[l].job
                      /\ loop'[l].repairing = loop[l].repairing
                      /\ loop'[l].from = loop[l].from /\ loop'[l].recs = loop[l].recs
    OBVIOUS
  <2> DEFINE st == loop[l]
  <2>1. st \in LoopState
    BY LoopTyped
  <2>2. loop'[l] = [st EXCEPT !.draining = @ \ {k}]
    BY <1>1
  <2> HIDE DEF st
  <2>3. st.draining \ {k} \in SUBSET Loop
    BY <2>1 DEF LoopState
  <2>4. loop'[l] \in LoopState
    BY <2>1, <2>2, <2>3 DEF LoopState
  <2>5. /\ loop'[l].pc = st.pc /\ loop'[l].job = st.job /\ loop'[l].repairing = st.repairing
        /\ loop'[l].from = st.from /\ loop'[l].recs = st.recs
    BY <2>1, <2>2 DEF LoopState
  <2> QED BY <2>4, <2>5 DEF st
<1>3. loop' \in [Loop -> LoopState]
  BY <1>2 DEF Settle
<1>4. LoopInv'
  BY <1>2 DEF LoopInv, OneRepairPerTask, Job, Live
<1> QED BY <1>2, <1>3, <1>4

-----------------------------------------------------------------------------
(* The types.                                                              *)

LEMMA TakeTyped ==
  ASSUME TypeOK, NEW snapshot \in Checkpoint, Take(snapshot)
  PROVE  checkpoints' \in Seq(Checkpoint)
<1>1. checkpoints \in Seq(Checkpoint) /\ MaxBack \in Nat
  BY MissionAssumption DEF TypeOK
<1> DEFINE list == Append(checkpoints, snapshot)
<1>2. list \in Seq(Checkpoint)
  BY <1>1
<1> HIDE DEF list
<1>3. Newest(list) \in Seq(Checkpoint)
  <2> DEFINE m == IF Len(list) > MaxBack THEN Len(list) - MaxBack + 1 ELSE 1
  <2>1. Len(list) \in Nat
    BY <1>2
  <2>2. m \in 1 .. Len(list) + 1 /\ Len(list) \in m - 1 .. Len(list)
    BY <1>1, <2>1
  <2>3. Newest(list) = SubSeq(list, m, Len(list))
    BY DEF Newest
  <2> HIDE DEF m
  <2> QED BY <1>2, <2>2, <2>3, SubSeqProperties
<1> QED BY <1>1, <1>3 DEF Take, list

LEMMA SnapshotTyped ==
  ASSUME TypeOK
  PROVE  Snapshot \in Checkpoint
BY DEF Snapshot, Checkpoint, TypeOK

(* Which variables a step may change, apart from its loop.                 *)
LEMMA StepFrame ==
  ASSUME NEW l \in Loop, Step(l)
  PROVE  /\ UNCHANGED <<planned, paused, raced, rollbacks>>
         /\ UNCHANGED <<over, advised, stalled>> \/ OverBudget(l) \/ Supervise(l)
         /\ \/ UNCHANGED <<request, consents>>
            \/ Asks(l) \/ Delegated(l) \/ InVain(l) \/ Refused(l) \/ TimeOut(l)
         /\ UNCHANGED version \/ Reorganize(l)
BY DEF Step, ExecuteTask, pageVars, watchVars, askVars, graphVars, Top, OverBudget, Supervise,
       Recommended, AllRecommended, Dispatch, Reorganize, CannotReorganize, Await, GiveUp,
       NothingLeft, Drained, NextTask, WaveDone, Begins, Asks, Ask, Postpones, Postpone,
       Delegated, Approved, InVain, Refused, TimeOut, Delivered, Failed, NoRepair, LastRepair,
       RepairThrows, RepairWorks, NoOtherHarness, Finish

LEMMA StepStatus ==
  ASSUME NEW l \in Loop, Step(l)
  PROVE  status' \in {status, "RUNNING", "PAUSED", "BLOCKED"} \/ Finish(l)
BY DEF Step, ExecuteTask, Transition, Top, OverBudget, Supervise, Recommended, AllRecommended, Dispatch,
       Reorganize, CannotReorganize, Await, GiveUp, NothingLeft, Drained, NextTask, WaveDone,
       Begins, Asks, Ask, Postpones, Postpone, Delegated, Approved, InVain, Refused, TimeOut,
       Delivered, Failed, NoRepair, LastRepair, RepairThrows, RepairWorks, NoOtherHarness

LEMMA StepTasks ==
  ASSUME NEW l \in Loop, Step(l)
  PROVE  /\ \/ UNCHANGED task \/ Reorganize(l)
            \/ \E s \in {"PENDING", "RUNNING", "BLOCKED", "DONE", "FAILED"} :
                 task' = [task EXCEPT ![Job(l)] = s]
         /\ UNCHANGED attempts \/ Failed(l)
         /\ UNCHANGED repairs \/ Counts(l)
         /\ UNCHANGED unverified \/ Delivered(l) \/ Failed(l)
BY DEF Step, ExecuteTask, Start, taskVars, Repairs, Top, OverBudget, Supervise, Recommended,
       AllRecommended, Dispatch, Reorganize, CannotReorganize, Await, GiveUp, NothingLeft,
       Drained, NextTask, WaveDone, Begins, Asks, Ask, Postpones, Postpone, Delegated, Approved,
       InVain, Refused, TimeOut, Delivered, Failed, NoRepair, LastRepair, RepairThrows,
       RepairWorks, NoOtherHarness, Finish

LEMMA StepCheckpoints ==
  ASSUME NEW l \in Loop, Step(l)
  PROVE  UNCHANGED checkpoints \/ Take(Snapshot) \/ Reorganize(l)
BY DEF Step, ExecuteTask, graphVars, Repairs, Top, OverBudget, Supervise, Recommended, AllRecommended,
       Dispatch, Reorganize, CannotReorganize, Await, GiveUp, NothingLeft, Drained, NextTask,
       WaveDone, Begins, Asks, Ask, Postpones, Postpone, Delegated, Approved, InVain, Refused,
       TimeOut, Delivered, Failed, NoRepair, LastRepair, RepairThrows, RepairWorks,
       NoOtherHarness, Finish

LEMMA StepTypes ==
  ASSUME TypeOK, LoopInv, NEW l \in Loop, Step(l)
  PROVE  TypeOK'
<1>1. loop' \in [Loop -> LoopState]
  <2>1. UNCHANGED planned
    BY StepFrame
  <2>2. CASE TimeOut(l)
    BY <2>1, <2>2, SettleLoopInv DEF TimeOut, Pending
  <2>3. CASE ~TimeOut(l)
    BY <2>1, <2>3, StepMoves, MovesLoopInv
  <2> QED BY <2>2, <2>3
<1>2. /\ planned' \in BOOLEAN /\ paused' \in BOOLEAN /\ raced' \in BOOLEAN
      /\ rollbacks' \in 0 .. MaxRollbacks
  BY StepFrame DEF TypeOK
<1>3. status' \in Status
  BY StepStatus DEF TypeOK, Status, Finish, Transition
<1>4. over' \in BOOLEAN /\ advised' \subseteq Task /\ stalled' \in BOOLEAN
  <2>1. CASE UNCHANGED <<over, advised, stalled>>
    BY <2>1 DEF TypeOK
  <2>2. CASE OverBudget(l)
    BY <2>2 DEF OverBudget, TypeOK
  <2>3. CASE Supervise(l)
    <3>1. Repeated \subseteq Task
      BY DEF Repeated, In
    <3> QED BY <2>3, <3>1 DEF Supervise, TypeOK
  <2> QED BY <2>1, <2>2, <2>3, StepFrame
<1>5. task' \in [Task -> TaskState]
  <2>1. CASE Reorganize(l)
    <3>1. task' = [t \in Task |-> IF t \in Added /\ task[t] = "NONE" THEN "PENDING" ELSE task[t]]
      BY <2>1 DEF Reorganize
    <3> QED BY <3>1 DEF TypeOK, TaskState
  <2>2. ASSUME NEW s \in {"PENDING", "RUNNING", "BLOCKED", "DONE", "FAILED"},
               task' = [task EXCEPT ![Job(l)] = s]
        PROVE  task' \in [Task -> TaskState]
    BY <2>2 DEF TypeOK, TaskState
  <2> QED BY <2>1, <2>2, StepTasks DEF TypeOK
<1>6. attempts' \in [Task -> Nat]
  <2>1. CASE Failed(l)
    <3>1. attempts' = [attempts EXCEPT ![Job(l)] = Another(@)]
      BY <2>1 DEF Failed
    <3>2. \A n \in Nat : Another(n) \in Nat
      BY DEF Another
    <3> QED BY <3>1, <3>2 DEF TypeOK
  <2> QED BY <2>1, StepTasks DEF TypeOK
<1>7. repairs' \in [Task -> 0 .. MaxRetries + 1]
  <2>1. CASE Counts(l)
    <3>1. /\ repairs' = [repairs EXCEPT ![Job(l)] = @ + 1]
          /\ ~ (repairs[Job(l)] > MaxRetries) /\ Job(l) \in Task
      BY <2>1 DEF Counts, Refuses, LoopInv, Job, At, Working
    <3>2. repairs[Job(l)] \in 0 .. MaxRetries + 1
      BY <3>1 DEF TypeOK
    <3> DEFINE n == repairs[Job(l)]
    <3> HIDE DEF n
    <3>3. MaxRetries \in Nat
      BY MissionAssumption
    <3>4. n \in 0 .. MaxRetries + 1 /\ ~ (n > MaxRetries)
      BY <3>1, <3>2 DEF n
    <3>5. n + 1 \in 0 .. MaxRetries + 1
      BY <3>3, <3>4
    <3>6. repairs' = [repairs EXCEPT ![Job(l)] = n + 1]
      BY <3>1 DEF n
    <3> QED BY <3>5, <3>6 DEF TypeOK
  <2> QED BY <2>1, StepTasks DEF TypeOK
<1>8. unverified' \in BOOLEAN
  BY StepTasks DEF Delivered, Failed, TypeOK
<1>9. version' \in Nat
  <2>1. UNCHANGED version \/ Reorganize(l)
    BY StepFrame
  <2>2. UNCHANGED version \/ version' = version + 1
    BY <2>1 DEF Reorganize
  <2> QED BY <2>2 DEF TypeOK
<1>10. checkpoints' \in Seq(Checkpoint)
  <2>1. CASE Reorganize(l)
    <3>1. [task |-> task', version |-> version'] \in Checkpoint
      BY <1>5, <1>9 DEF Checkpoint
    <3>2. Take([task |-> task', version |-> version'])
      BY <2>1 DEF Reorganize
    <3> QED BY <3>1, <3>2, TakeTyped
  <2> QED BY <2>1, StepCheckpoints, TakeTyped, SnapshotTyped DEF TypeOK
<1>11. request' \in [Loop -> Request] /\ consents' \in [Gated -> Int]
  <2>1. CASE Asks(l)
    <3>1. /\ request' = [request EXCEPT ![l] = [task |-> Job(l), status |-> "PENDING"]]
          /\ Job(l) \in Gated /\ UNCHANGED consents
      BY <2>1 DEF Asks, Ask
    <3>2. [task |-> Job(l), status |-> "PENDING"] \in Request
      BY <3>1 DEF Request
    <3> QED BY <3>1, <3>2 DEF TypeOK
  <2>2. CASE Delegated(l) \/ InVain(l) \/ Refused(l)
    <3>1. request' = [request EXCEPT ![l] = NoRequest] /\ NoRequest \in Request
      BY <2>2 DEF Delegated, Approved, InVain, Refused, Answered, NoRequest, Request
    <3>2. consents' = consents \/ consents' = [consents EXCEPT ![Job(l)] = @ - 1]
      BY <2>2 DEF Delegated, Approved, InVain, Refused
    <3> QED BY <3>1, <3>2 DEF TypeOK
  <2>3. CASE TimeOut(l)
    <3>1. PICK k \in Pending : request' = [request EXCEPT ![k].status = "REFUSED"]
      BY <2>3 DEF TimeOut, Settle
    <3>2. k \in Loop /\ request[k] \in Request
      BY DEF Pending, TypeOK
    <3>3. [request[k] EXCEPT !.status = "REFUSED"] \in Request
      BY <3>2 DEF Request
    <3> QED BY <2>3, <3>1, <3>2, <3>3 DEF TimeOut, TypeOK
  <2> QED BY <2>1, <2>2, <2>3, StepFrame DEF TypeOK
<1> QED BY <1>1, <1>2, <1>3, <1>4, <1>5, <1>6, <1>7, <1>8, <1>9, <1>10, <1>11 DEF TypeOK

LEMMA InitTypes == Init => TypeOK /\ LoopInv
<1> SUFFICES ASSUME Init PROVE TypeOK /\ LoopInv
  OBVIOUS
<1>1. MaxTurns \in Nat /\ MaxRetries \in Nat /\ MaxRollbacks \in Nat
  BY MissionAssumption
<1>2. Idle \in LoopState /\ Idle.pc = "idle" /\ ~Idle.repairing
  BY <1>1 DEF Idle, LoopState
<1>3. \A l \in Loop : loop[l] = Idle
  BY DEF Init
<1>4. loop \in [Loop -> LoopState]
  BY <1>2, <1>3 DEF Init
<1>5. LoopInv
  BY <1>2, <1>3 DEF LoopInv, OneRepairPerTask, Live, Working
<1>6. NoRequest \in Request
  BY DEF NoRequest, Request
<1>7. /\ task \in [Task -> TaskState] /\ attempts \in [Task -> Nat]
      /\ repairs \in [Task -> 0 .. MaxRetries + 1]
      /\ request \in [Loop -> Request] /\ checkpoints \in Seq(Checkpoint)
      /\ consents \in [Gated -> Int]
  BY <1>1, <1>6 DEF Init, TaskState
<1>8. rollbacks \in 0 .. MaxRollbacks
  BY <1>1 DEF Init
<1>9. TypeOK
  BY <1>4, <1>7, <1>8 DEF Init, TypeOK, Status
<1> QED BY <1>5, <1>9

(* The buttons.                                                            *)
LEMMA PageTypes ==
  ASSUME TypeOK, LoopInv, Prepare \/ Pause \/ Unpause
  PROVE  TypeOK' /\ LoopInv'
<1>1. UNCHANGED <<loop, request, consents, advised, stalled, over, attempts, repairs, unverified,
                  raced, rollbacks>>
  BY DEF Prepare, Pause, Unpause, watchVars, askVars, taskVars, graphVars
<1>2. LoopInv'
  BY <1>1 DEF LoopInv, OneRepairPerTask, Job, Live, Prepare, Pause, Unpause
<1>3. CASE Pause \/ Unpause
  <2>1. UNCHANGED <<task, version, checkpoints, planned>>
    BY <1>3 DEF Pause, Unpause, taskVars, graphVars
  <2>2. status' \in Status /\ paused' \in BOOLEAN
    BY <1>3 DEF Pause, Unpause, TypeOK, Status
  <2> QED BY <1>1, <1>2, <2>1, <2>2 DEF TypeOK
<1>4. CASE Prepare
  <2>1. [task |-> task, version |-> 1] \in Checkpoint
    BY DEF Checkpoint, TypeOK
  <2>2. checkpoints' \in Seq(Checkpoint)
    BY <1>4, <2>1, TakeTyped DEF Prepare
  <2>3. task' \in [Task -> TaskState]
    BY <1>4 DEF Prepare, TaskState
  <2>4. status' \in Status /\ planned' \in BOOLEAN /\ version' \in Nat /\ UNCHANGED paused
    BY <1>4 DEF Prepare, Status
  <2> QED BY <1>1, <1>2, <2>2, <2>3, <2>4 DEF TypeOK
<1> QED BY <1>2, <1>3, <1>4

LEMMA AnswerTypes ==
  ASSUME TypeOK, LoopInv, Approve \/ Reject
  PROVE  TypeOK' /\ LoopInv'
<1>1. /\ UNCHANGED <<status, taskVars, watchVars, graphVars, pageVars>>
      /\ \E k \in Pending, answer \in {"APPROVED", "REFUSED"} :
           /\ Settle(k, answer)
           /\ consents' = consents \/ consents' = [consents EXCEPT ![request[k].task] = @ + 1]
  BY DEF Approve, Reject
<1>2. PICK k \in Pending, answer \in {"APPROVED", "REFUSED"} :
           /\ Settle(k, answer)
           /\ consents' = consents \/ consents' = [consents EXCEPT ![request[k].task] = @ + 1]
  BY <1>1
<1>3. k \in Loop /\ UNCHANGED planned
  BY <1>1 DEF Pending, pageVars
<1>4. LoopInv' /\ loop' \in [Loop -> LoopState]
  BY <1>2, <1>3, SettleLoopInv
<1>5. request' \in [Loop -> Request]
  <2>1. request[k] \in Request /\ request' = [request EXCEPT ![k].status = answer]
    BY <1>2, <1>3 DEF TypeOK, Settle
  <2>2. [request[k] EXCEPT !.status = answer] \in Request
    BY <2>1 DEF Request
  <2> QED BY <1>3, <2>1, <2>2 DEF TypeOK
<1>6. consents' \in [Gated -> Int]
  BY <1>2 DEF TypeOK
<1> QED BY <1>1, <1>4, <1>5, <1>6 DEF TypeOK, taskVars, watchVars, graphVars, pageVars

LEMMA RunTypes ==
  ASSUME TypeOK, LoopInv, NEW l \in Loop, Run(l)
  PROVE  /\ TypeOK' /\ LoopInv'
         /\ planned => loop'[l].pc = "top"
         /\ ~planned => ~Live(l)'
         /\ \A k \in Loop : k # l => loop'[k] = loop[k]
<1> DEFINE st == loop[l]
<1>1. st \in LoopState /\ st.pc = "idle" /\ ~st.repairing
  BY LoopTyped DEF Run, At, LoopInv, Working
<1>2. PICK s \in LoopState :
        /\ loop' = [loop EXCEPT ![l] = s] /\ ~s.repairing
        /\ IF planned THEN s.pc = "top" ELSE s.pc = "dead"
  <2>1. CASE planned
    <3> DEFINE s == [st EXCEPT !.pc = "top"]
    <3>1. Keeps(st, s) /\ s.pc = "top"
      BY <1>1, Goes DEF Sync
    <3>2. loop' = [loop EXCEPT ![l] = s]
      BY <2>1 DEF Run, Goto, TypeOK
    <3> HIDE DEF s
    <3> QED BY <1>1, <2>1, <3>1, <3>2 DEF Keeps
  <2>2. CASE ~planned
    <3> DEFINE s == [Idle EXCEPT !.pc = "dead"]
    <3>1. Idle \in LoopState /\ ~Idle.repairing
      BY MissionAssumption DEF Idle, LoopState
    <3>2. s \in LoopState /\ s.pc = "dead" /\ ~s.repairing
      BY <3>1 DEF LoopState
    <3>3. loop' = [loop EXCEPT ![l] = s]
      BY <2>2 DEF Run, Dies, Become
    <3> HIDE DEF s
    <3> QED BY <2>2, <3>2, <3>3
  <2> QED BY <2>1, <2>2
<1>3. loop' \in [Loop -> LoopState] /\ loop'[l] = s /\ \A k \in Loop : k # l => loop'[k] = loop[k]
  BY <1>2 DEF TypeOK
<1>4. UNCHANGED <<planned, paused, task, attempts, repairs, unverified, advised, stalled, over,
                  version, checkpoints, rollbacks, request, consents>>
  BY DEF Run, taskVars, watchVars, graphVars, askVars
<1>5. status' \in Status /\ raced' \in BOOLEAN
  BY DEF Run, TypeOK, Status
<1>6. TypeOK'
  BY <1>3, <1>4, <1>5 DEF TypeOK
<1>7. LoopInv'
  BY <1>2, <1>3, <1>4 DEF LoopInv, OneRepairPerTask, Job, Live, Working
<1>8. planned => loop'[l].pc = "top"
  BY <1>2, <1>3
<1>9. ~planned => ~Live(l)'
  BY <1>2, <1>3 DEF Live
<1> QED BY <1>3, <1>6, <1>7, <1>8, <1>9

(* Going back leaves what is done, and what was not yet created, alone.    *)
LEMMA RollbackTypes ==
  ASSUME TypeOK, LoopInv, Rollback
  PROVE  /\ TypeOK' /\ LoopInv'
         /\ \A t \in Task : task[t] \in {"NONE", "DONE"} => task'[t] = task[t]
<1>1. PICK c \in DOMAIN checkpoints :
       /\ task' = [t \in Task |-> RolledBack(c, t)]
       /\ attempts' = [t \in Task |->
            IF task[t] \in {"FAILED", "BLOCKED", "RUNNING"} /\ checkpoints[c].task[t] = "FAILED"
            THEN Another(attempts[t]) ELSE attempts[t]]
       /\ version' = checkpoints[c].version
       /\ checkpoints' = IF rollbacks' < MaxRollbacks THEN SubSeq(checkpoints, 1, c) ELSE <<>>
  BY DEF Rollback
<1>2. checkpoints \in Seq(Checkpoint) /\ c \in 1 .. Len(checkpoints)
  BY DEF TypeOK
<1>3. checkpoints[c] \in Checkpoint
  BY <1>2
<1>4. checkpoints[c].task \in [Task -> TaskState] /\ checkpoints[c].version \in Nat
  BY <1>3 DEF Checkpoint
<1>5. task' \in [Task -> TaskState]
  BY <1>1, <1>4 DEF RolledBack, TypeOK, TaskState
<1>6. attempts' \in [Task -> Nat]
  BY <1>1 DEF TypeOK, Another
<1>7. checkpoints' \in Seq(Checkpoint)
  <2>1. SubSeq(checkpoints, 1, c) \in Seq(Checkpoint)
    <3>1. Len(checkpoints) \in Nat /\ 1 \in 1 .. Len(checkpoints) + 1
      BY <1>2
    <3>2. c \in 1 - 1 .. Len(checkpoints)
      BY <1>2
    <3> QED BY <1>2, <3>1, <3>2, SubSeqProperties
  <2> QED BY <1>1, <2>1
<1>8. rollbacks' \in 0 .. MaxRollbacks
  BY MissionAssumption DEF Rollback, TypeOK
<1>9. UNCHANGED <<status, loop, repairs, unverified, advised, stalled, over, request, consents,
                  planned, paused, raced>>
  BY DEF Rollback, watchVars, askVars, pageVars
<1>10. TypeOK'
  BY <1>1, <1>4, <1>5, <1>6, <1>7, <1>8, <1>9 DEF TypeOK
<1>11. LoopInv'
  BY <1>9 DEF LoopInv, OneRepairPerTask, Job, Live
<1>12. \A t \in Task : task[t] \in {"NONE", "DONE"} => task'[t] = task[t]
  BY <1>1 DEF RolledBack
<1> QED BY <1>10, <1>11, <1>12

LEMMA RestartTypes ==
  ASSUME TypeOK, LoopInv, Restart
  PROVE  /\ TypeOK' /\ LoopInv'
         /\ \A l \in Loop : ~Live(l)'
<1> DEFINE dead == [Idle EXCEPT !.pc = "dead"]
<1>1. dead \in LoopState /\ dead.pc = "dead" /\ ~dead.repairing
  <2>1. Idle \in LoopState /\ ~Idle.repairing
    BY MissionAssumption DEF Idle, LoopState
  <2> QED BY <2>1 DEF LoopState
<1>2. loop' = [l \in Loop |-> IF Live(l) THEN dead ELSE loop[l]]
  BY DEF Restart
<1> HIDE DEF dead
<1>3. loop' \in [Loop -> LoopState]
  BY <1>1, <1>2 DEF TypeOK
<1>4. \A l \in Loop : loop'[l].pc \in {"idle", "over", "dead"} /\ ~loop'[l].repairing
  BY <1>1, <1>2 DEF LoopInv, Live, Working
<1>5. LoopInv' /\ \A l \in Loop : ~Live(l)'
  BY <1>4 DEF LoopInv, OneRepairPerTask, Live, Working
<1>6. UNCHANGED <<status, task, attempts, unverified, over, raced, version, checkpoints, rollbacks,
                  request, consents>>
  BY DEF Restart, graphVars, askVars
<1>7. /\ repairs' \in [Task -> 0 .. MaxRetries + 1] /\ planned' \in BOOLEAN /\ paused' \in BOOLEAN
      /\ advised' \subseteq Task /\ stalled' \in BOOLEAN
  <2>1. 0 \in 0 .. MaxRetries + 1
    BY MissionAssumption
  <2> QED BY <2>1 DEF Restart
<1> QED BY <1>3, <1>5, <1>6, <1>7 DEF TypeOK

LEMMA CheckpointTypes ==
  ASSUME TypeOK, LoopInv, TakeCheckpoint
  PROVE  TypeOK' /\ LoopInv'
<1>1. UNCHANGED <<status, loop, task, attempts, repairs, unverified, advised, stalled, over,
                  version, rollbacks, request, consents, planned, paused, raced>>
  BY DEF TakeCheckpoint, taskVars, watchVars, askVars, pageVars
<1>2. checkpoints' \in Seq(Checkpoint)
  BY TakeTyped, SnapshotTyped DEF TakeCheckpoint
<1>3. LoopInv'
  BY <1>1 DEF LoopInv, OneRepairPerTask, Job, Live
<1> QED BY <1>1, <1>2, <1>3 DEF TypeOK

-----------------------------------------------------------------------------
(* What is asked of the human, and what became of it.                      *)

(* A loop at the gate has a request for its job, and a mission that was    *)
(* not restored has no other.  Of the approvals of a task, those not spent *)
(* are the ones a loop is about to find.                                   *)
Granted(t) == {l \in Loop : request[l].task = t /\ request[l].status = "APPROVED"}

AskInv ==
  /\ \A l \in Loop : At(l, "gate") => /\ request[l].status # "NONE"
                                      /\ request[l].task = loop[l].job
  /\ \A l \in Loop : request[l].status # "NONE" => /\ request[l].task \in Gated
                                                   /\ planned => At(l, "gate")
  /\ \A t \in Gated : consents[t] = Cardinality(Granted(t))

(* Where no loop is asked, answered or takes its answer, all of it stays.  *)
LEMMA OthersAskNothing ==
  ASSUME AskInv, UNCHANGED <<request, consents>>, planned' => planned,
         \A l \in Loop : At(l, "gate")' <=> At(l, "gate"),
         \A l \in Loop : At(l, "gate") => loop'[l].job = loop[l].job
  PROVE  AskInv'
<1>1. \A t \in Gated : Granted(t)' = Granted(t)
  BY DEF Granted
<1> QED BY <1>1 DEF AskInv, Granted

(* Only a request leads to the gate, and only an answer away from it.      *)
LEMMA MovesPastGate ==
  ASSUME TypeOK, LoopInv, NEW l \in Loop, Step(l),
         ~Asks(l), ~Delegated(l), ~InVain(l), ~Refused(l), ~TimeOut(l)
  PROVE  /\ \A k \in Loop : At(k, "gate")' <=> At(k, "gate")
         /\ \A k \in Loop : At(k, "gate") => loop'[k].job = loop[k].job
<1>1. PICK s \in LoopState : Become(l, s) /\ Sane(l, s)
  BY StepMoves DEF Moves
<1>2. loop'[l] = s /\ \A k \in Loop : k # l => loop'[k] = loop[k]
  BY <1>1 DEF Become, TypeOK
<1>3. loop[l].pc # "gate"
  BY DEF Step, ExecuteTask, Asks, Delegated, InVain, At, Top, OverBudget, Supervise, Recommended,
         AllRecommended, Dispatch, Reorganize, Exhausted, Stuck, CannotReorganize, Await, GiveUp,
         NothingLeft, Drained, NextTask, WaveDone, Postpones, Postpone, Begins, Delivered, Failed,
         NoRepair, LastRepair, Counts, Repairs, RepairThrows, RepairWorks, NoOtherHarness, Finish
<1>4. s.pc # "gate"
  <2>1. CASE Postpones(l)
    <3> DEFINE r == [loop[l] EXCEPT !.pc = loop[l].from, !.job = 0, !.repairing = FALSE]
    <3>1. loop[l] \in LoopState /\ loop[l].from \in {"wave", "rec"}
      BY LoopTyped DEF LoopState
    <3>2. r.pc # "gate" /\ loop'[l] = r
      BY <2>1, <3>1 DEF Postpones, Postpone, Return, Become, TypeOK, LoopState
    <3> HIDE DEF r
    <3> QED BY <1>2, <3>2
  <2>2. SUFFICES ASSUME ~Postpones(l), loop[l].pc = "enter", loop[l].job \in Gated PROVE FALSE
    BY <1>1, <2>1 DEF Sane
  <2> QED BY <2>2 DEF Step, ExecuteTask, Postpones, Asks, Delegated, InVain, At, Job, Top, OverBudget,
                      Supervise, Recommended, AllRecommended, Dispatch, Reorganize, Exhausted,
                      Stuck, CannotReorganize, Await, GiveUp, NothingLeft, Drained, NextTask,
                      WaveDone, Begins, Delivered, Failed, NoRepair, LastRepair, Counts, Repairs,
                      RepairThrows, RepairWorks, NoOtherHarness, Finish
<1> QED BY <1>2, <1>3, <1>4 DEF At

(* One request changes; the approvals not yet spent are what they were,    *)
(* but for the change itself.                                              *)
LEMMA OneRequest ==
  ASSUME TypeOK, AskInv, NEW l \in Loop, NEW r \in Request,
         request' = [request EXCEPT ![l] = r], consents' \in [Gated -> Int],
         r.status # "NONE" => r.task \in Gated,
         \A t \in Gated :
           consents'[t] = consents[t]
                          + (IF r.status = "APPROVED" /\ r.task = t THEN 1 ELSE 0)
                          - (IF request[l].status = "APPROVED" /\ request[l].task = t THEN 1 ELSE 0)
  PROVE  /\ \A k \in Loop : k # l => request'[k] = request[k]
         /\ request'[l] = r
         /\ \A t \in Gated : consents'[t] = Cardinality(Granted(t))'
<1>1. request'[l] = r /\ \A k \in Loop : k # l => request'[k] = request[k]
  BY DEF TypeOK
<1>2. ASSUME NEW t \in Gated
      PROVE  consents'[t] = Cardinality(Granted(t)')
  <2> DEFINE G == Granted(t)
             rest == G \ {l}
             had == request[l].status = "APPROVED" /\ request[l].task = t
             has == r.status = "APPROVED" /\ r.task = t
  <2>1. IsFiniteSet(G)
    <3>1. G \in SUBSET Loop /\ IsFiniteSet(Loop)
      BY MissionAssumption DEF Granted
    <3> QED BY <3>1, FS_Subset
  <2>2. l \in G <=> had
    BY DEF Granted
  <2>3. Granted(t)' = IF has THEN rest \union {l} ELSE rest
    BY <1>1 DEF Granted
  <2>4. consents[t] = Cardinality(G)
    BY DEF AskInv
  <2>5. consents'[t] = consents[t] + (IF has THEN 1 ELSE 0) - (IF had THEN 1 ELSE 0)
    OBVIOUS
  <2>6. l \notin rest
    OBVIOUS
  <2> HIDE DEF G, had, has
  <2>7. IsFiniteSet(rest) /\ Cardinality(rest) = IF l \in G THEN Cardinality(G) - 1 ELSE Cardinality(G)
    BY <2>1, FS_RemoveElement
  <2> HIDE DEF rest
  <2>8. Cardinality(rest \union {l}) = Cardinality(rest) + 1
    BY <2>6, <2>7, FS_AddElement
  <2>9. Cardinality(G) \in Nat /\ Cardinality(rest) \in Nat
    BY <2>1, <2>7, FS_CardinalityType
  <2> QED BY <2>2, <2>3, <2>4, <2>5, <2>7, <2>8, <2>9
<1> QED BY <1>1, <1>2

LEMMA AskAskInv ==
  ASSUME TypeOK, LoopInv, AskInv, NEW l \in Loop, Asks(l)
  PROVE  AskInv'
<1> DEFINE r == [task |-> Job(l), status |-> "PENDING"]
<1>1. /\ At(l, "enter") /\ Job(l) \in Gated /\ planned
      /\ request' = [request EXCEPT ![l] = r] /\ consents' = consents
      /\ loop' = [loop EXCEPT ![l].pc = "gate"]
  BY DEF Asks, Ask, Goto, LoopInv, At, Live
<1>2. request[l].status = "NONE"
  BY <1>1 DEF AskInv, At
<1>3. r \in Request /\ r.status = "PENDING" /\ r.task = loop[l].job
  BY <1>1 DEF Request, Job
<1>4. /\ \A k \in Loop : k # l => loop'[k] = loop[k]
      /\ loop'[l].pc = "gate" /\ loop'[l].job = loop[l].job
  BY <1>1, LoopTyped DEF TypeOK, LoopState
<1> HIDE DEF r
<1>5. \A t \in Gated :
           consents'[t] = consents[t]
                          + (IF r.status = "APPROVED" /\ r.task = t THEN 1 ELSE 0)
                          - (IF request[l].status = "APPROVED" /\ request[l].task = t THEN 1 ELSE 0)
  BY <1>1, <1>2, <1>3 DEF TypeOK
<1>6. /\ \A k \in Loop : k # l => request'[k] = request[k]
      /\ request'[l] = r
      /\ \A t \in Gated : consents'[t] = Cardinality(Granted(t))'
  BY <1>1, <1>3, <1>5, OneRequest DEF TypeOK, Job
<1>7. UNCHANGED planned
  BY DEF Asks, Ask, pageVars
<1> QED BY <1>1, <1>3, <1>4, <1>6, <1>7 DEF AskInv, At, Job

LEMMA AnsweredAskInv ==
  ASSUME TypeOK, LoopInv, AskInv, NEW l \in Loop,
         Delegated(l) \/ InVain(l) \/ Refused(l)
  PROVE  AskInv'
<1>1. /\ At(l, "gate") /\ request' = [request EXCEPT ![l] = NoRequest]
      /\ request[l].task = Job(l) /\ Job(l) \in Gated
  BY DEF Delegated, Approved, InVain, Refused, Answered, AskInv, Job
<1>2. NoRequest \in Request /\ NoRequest.status = "NONE"
  BY DEF NoRequest, Request
<1>3. consents' \in [Gated -> Int] /\ \A t \in Gated :
           consents'[t] = consents[t]
             - (IF request[l].status = "APPROVED" /\ request[l].task = t THEN 1 ELSE 0)
  <2>1. CASE Delegated(l) \/ InVain(l)
    <3>1. request[l].status = "APPROVED" /\ consents' = [consents EXCEPT ![Job(l)] = @ - 1]
      BY <2>1 DEF Delegated, Approved, InVain
    <3> QED BY <1>1, <3>1 DEF TypeOK
  <2>2. CASE Refused(l)
    <3>1. request[l].status # "APPROVED" /\ consents' = consents
      BY <2>2 DEF Refused
    <3> QED BY <3>1 DEF TypeOK
  <2> QED BY <2>1, <2>2
<1>4. /\ \A k \in Loop : k # l => request'[k] = request[k]
      /\ request'[l] = NoRequest
      /\ \A t \in Gated : consents'[t] = Cardinality(Granted(t))'
  <2> DEFINE r == NoRequest
  <2>1. r \in Request /\ r.status = "NONE" /\ request' = [request EXCEPT ![l] = r]
    BY <1>1, <1>2
  <2> HIDE DEF r
  <2>2. \A t \in Gated :
           consents'[t] = consents[t]
                          + (IF r.status = "APPROVED" /\ r.task = t THEN 1 ELSE 0)
                          - (IF request[l].status = "APPROVED" /\ request[l].task = t THEN 1 ELSE 0)
    BY <1>3, <2>1 DEF TypeOK
  <2>3. /\ \A k \in Loop : k # l => request'[k] = request[k]
        /\ request'[l] = r
        /\ \A t \in Gated : consents'[t] = Cardinality(Granted(t))'
    BY <1>3, <2>1, <2>2, OneRequest
  <2> QED BY <2>3 DEF r
<1>5. loop'[l].pc # "gate" /\ \A k \in Loop : k # l => loop'[k] = loop[k]
  <2>1. PICK s \in LoopState : Become(l, s) /\ s.pc # "gate"
    <3>1. CASE Delegated(l)
      <4> DEFINE s == [loop[l] EXCEPT !.pc = "work"]
      <4>1. Keeps(loop[l], s) /\ s.pc = "work" /\ Become(l, s)
        BY <3>1, LoopTyped, Goes DEF Delegated, Approved, Start
      <4> HIDE DEF s
      <4> QED BY <4>1 DEF Keeps
    <3>2. CASE Refused(l)
      <4> DEFINE s == [loop[l] EXCEPT !.pc = loop[l].from, !.job = 0, !.repairing = FALSE]
      <4>1. loop[l] \in LoopState /\ loop[l].from \in {"wave", "rec"}
        BY LoopTyped DEF LoopState
      <4>2. s \in LoopState /\ s.pc # "gate" /\ Become(l, s)
        BY <3>2, <4>1 DEF Refused, Return, LoopState, Sync
      <4> HIDE DEF s
      <4> QED BY <4>2
    <3>3. CASE InVain(l)
      <4> DEFINE s == [Idle EXCEPT !.pc = "dead"]
      <4>1. Idle \in LoopState
        BY MissionAssumption DEF Idle, LoopState
      <4>2. s \in LoopState /\ s.pc # "gate" /\ Become(l, s)
        BY <3>3, <4>1 DEF InVain, Approved, Dies, LoopState
      <4> HIDE DEF s
      <4> QED BY <4>2
    <3> QED BY <3>1, <3>2, <3>3
  <2> QED BY <2>1 DEF Become, TypeOK
<1>6. UNCHANGED planned
  BY DEF Delegated, Approved, InVain, Refused, pageVars
<1> QED BY <1>2, <1>4, <1>5, <1>6 DEF AskInv, At

LEMMA SettleAskInv ==
  ASSUME TypeOK, LoopInv, AskInv, NEW l \in Pending, NEW answer \in {"APPROVED", "REFUSED"},
         Settle(l, answer), UNCHANGED planned,
         consents' = IF answer = "APPROVED"
                     THEN [consents EXCEPT ![request[l].task] = @ + 1] ELSE consents
  PROVE  AskInv'
<1> DEFINE r == [request[l] EXCEPT !.status = answer]
<1>1. l \in Loop /\ request[l] \in Request /\ request[l].status = "PENDING" /\ request[l].task \in Gated
  BY DEF Pending, AskInv, TypeOK
<1>2. r \in Request /\ r.status = answer /\ r.task = request[l].task
  BY <1>1 DEF Request
<1>3. request' = [request EXCEPT ![l] = r]
  BY <1>1 DEF Settle, TypeOK
<1> HIDE DEF r
<1>4. consents' \in [Gated -> Int]
  <2>1. consents \in [Gated -> Int] /\ consents[request[l].task] + 1 \in Int
    BY <1>1 DEF TypeOK
  <2>2. [consents EXCEPT ![request[l].task] = @ + 1] \in [Gated -> Int]
    BY <1>1, <2>1
  <2> QED BY <2>1, <2>2
<1>5. \A t \in Gated :
           consents'[t] = consents[t]
                          + (IF r.status = "APPROVED" /\ r.task = t THEN 1 ELSE 0)
                          - (IF request[l].status = "APPROVED" /\ request[l].task = t THEN 1 ELSE 0)
  BY <1>1, <1>2 DEF TypeOK
<1>6. /\ \A k \in Loop : k # l => request'[k] = request[k]
      /\ request'[l] = r
      /\ \A t \in Gated : consents'[t] = Cardinality(Granted(t))'
  BY <1>1, <1>2, <1>3, <1>4, <1>5, OneRequest
<1>7. \A k \in Loop : loop'[k].pc = loop[k].pc /\ loop'[k].job = loop[k].job
  BY <1>1, SettleLoopInv
<1> QED BY <1>1, <1>2, <1>6, <1>7 DEF AskInv, At

LEMMA StepAskInv ==
  ASSUME TypeOK, LoopInv, AskInv, NEW l \in Loop, Step(l)
  PROVE  AskInv'
<1>1. UNCHANGED planned
  BY StepFrame
<1>2. CASE TimeOut(l)
  <2>1. PICK k \in Pending : Settle(k, "REFUSED")
    BY <1>2 DEF TimeOut
  <2>2. UNCHANGED consents
    BY <1>2 DEF TimeOut
  <2> QED BY <1>1, <2>1, <2>2, SettleAskInv
<1>3. CASE Asks(l)
  BY <1>3, AskAskInv
<1>4. CASE Delegated(l) \/ InVain(l) \/ Refused(l)
  BY <1>4, AnsweredAskInv
<1>5. CASE ~Asks(l) /\ ~Delegated(l) /\ ~InVain(l) /\ ~Refused(l) /\ ~TimeOut(l)
  BY <1>1, <1>5, StepFrame, MovesPastGate, OthersAskNothing
<1> QED BY <1>2, <1>3, <1>4, <1>5

-----------------------------------------------------------------------------
(* The status of the mission.                                              *)

StatusInv ==
  /\ status = "DRAFT" => ~planned /\ \A l \in Loop : request[l].status = "NONE"
  /\ ~raced => \A k, l \in Loop : Live(k) /\ Live(l) => k = l
  /\ ~raced /\ status = "COMPLETED" => IsDone /\ \A l \in Loop : ~Live(l)

LEMMA StepLives ==
  ASSUME TypeOK, LoopInv, NEW l \in Loop, Step(l)
  PROVE  \A k \in Loop : Live(k)' => Live(k)
<1>1. CASE TimeOut(l)
  <2>1. PICK i \in Loop : Settle(i, "REFUSED")
    BY <1>1 DEF TimeOut, Pending
  <2>2. \A k \in Loop : loop'[k].pc = loop[k].pc
    BY <2>1, SettleLoopInv, StepFrame
  <2> QED BY <2>2 DEF Live
<1>2. CASE ~TimeOut(l)
  <2>1. PICK s \in LoopState : Become(l, s) /\ Sane(l, s)
    BY <1>2, StepMoves DEF Moves
  <2>2. \A k \in Loop : k # l => loop'[k] = loop[k]
    BY <2>1 DEF Become, TypeOK
  <2> QED BY <2>1, <2>2 DEF Live, Sane
<1> QED BY <1>1, <1>2

LEMMA StepIsLive ==
  ASSUME TypeOK, LoopInv, NEW l \in Loop, Step(l)
  PROVE  Live(l) \/ TimeOut(l)
BY StepMoves DEF Moves, Sane

LEMMA TimeOutLives ==
  ASSUME NEW l \in Loop, TimeOut(l)
  PROVE  Live(l)
BY DEF TimeOut, Waits, At, Live

LEMMA FinishStatusInv ==
  ASSUME TypeOK, LoopInv, StatusInv, NEW l \in Loop, Finish(l)
  PROVE  StatusInv'
<1>1. Live(l) /\ planned
  BY DEF Finish, At, Live, LoopInv
<1>2. UNCHANGED <<planned, raced, request, task>>
  BY DEF Finish, askVars, pageVars, taskVars
<1>3. \A k \in Loop : Live(k)' => Live(k)
  BY StepLives, Outcomes DEF Step
<1>4. status # "DRAFT"
  BY <1>1 DEF StatusInv
<1>5. status' # "DRAFT"
  BY <1>4 DEF Finish, Transition
<1>6. ASSUME ~raced', status' = "COMPLETED"
      PROVE  IsDone /\ Over(l)
  <2>1. status # "COMPLETED"
    BY <1>1, <1>2, <1>6 DEF StatusInv
  <2> QED BY <1>6, <2>1 DEF Finish, Transition
<1>7. ASSUME Over(l) PROVE ~Live(l)'
  <2>1. Idle \in LoopState
    BY MissionAssumption DEF Idle, LoopState
  <2>2. [Idle EXCEPT !.pc = "over"].pc = "over"
    BY <2>1 DEF LoopState
  <2> QED BY <1>7, <2>2 DEF Over, Become, Live, TypeOK
<1>8. IsDone' <=> IsDone
  BY <1>2 DEF IsDone, Created, In
<1>9. ~raced' => \A k, i \in Loop : Live(k)' /\ Live(i)' => k = i
  BY <1>2, <1>3 DEF StatusInv
<1>10. ~raced' /\ status' = "COMPLETED" => \A k \in Loop : ~Live(k)'
  BY <1>1, <1>2, <1>3, <1>6, <1>7 DEF StatusInv
<1> QED BY <1>5, <1>6, <1>8, <1>9, <1>10 DEF StatusInv

LEMMA StepStatusInv ==
  ASSUME TypeOK, LoopInv, StatusInv, NEW l \in Loop, Step(l)
  PROVE  StatusInv'
<1>1. CASE Finish(l)
  BY <1>1, FinishStatusInv
<1>2. CASE ~Finish(l)
  <2>1. Live(l) /\ planned
    BY StepIsLive, TimeOutLives DEF LoopInv
  <2>2. UNCHANGED <<planned, raced>>
    BY StepFrame
  <2>3. \A k \in Loop : Live(k)' => Live(k)
    BY StepLives
  <2>4. status # "DRAFT" /\ (~raced => status # "COMPLETED")
    BY <2>1 DEF StatusInv
  <2>5. status' # "DRAFT" /\ (~raced => status' # "COMPLETED")
    BY <1>2, <2>4, StepStatus
  <2> QED BY <2>2, <2>3, <2>5 DEF StatusInv
<1> QED BY <1>1, <1>2

(* The human can neither start a mission over nor complete it.             *)
LEMMA ButtonStatus ==
  ASSUME status \in {"DRAFT", "COMPLETED"}
  PROVE  ~Legal("PAUSED") /\ ~Legal("RUNNING")
BY DEF Legal, CanTransition

-----------------------------------------------------------------------------
Inv == TypeOK /\ LoopInv /\ AskInv /\ StatusInv

LEMMA InitInv == Init => Inv
<1> SUFFICES ASSUME Init PROVE Inv
  OBVIOUS
<1>1. TypeOK /\ LoopInv
  BY InitTypes
<1>2. \A l \in Loop : request[l].status = "NONE" /\ loop[l].pc = "idle"
  BY DEF Init, NoRequest, Idle
<1>3. AskInv
  <2>1. \A t \in Gated : Granted(t) = {}
    BY <1>2 DEF Granted
  <2> QED BY <1>2, <2>1, FS_EmptySet DEF Init, AskInv, At
<1>4. StatusInv
  BY <1>2 DEF Init, StatusInv, Live
<1> QED BY <1>1, <1>3, <1>4 DEF Inv

LEMMA PageInv ==
  ASSUME Inv, Prepare \/ Pause \/ Unpause
  PROVE  Inv'
<1>1. TypeOK' /\ LoopInv'
  BY PageTypes DEF Inv
<1>2. UNCHANGED <<loop, request, consents, raced>>
  BY DEF Prepare, Pause, Unpause, askVars
<1>3. CASE Pause \/ Unpause
  <2>1. UNCHANGED <<planned, task>>
    BY <1>3 DEF Pause, Unpause, taskVars
  <2>2. AskInv'
    BY <1>2, <2>1, OthersAskNothing DEF Inv, At
  <2>3. status' = status \/ (status' \in {"PAUSED", "RUNNING"} /\ status \notin {"DRAFT", "COMPLETED"})
    BY <1>3, ButtonStatus DEF Pause, Unpause
  <2>4. IsDone' <=> IsDone
    BY <2>1 DEF IsDone, Created, In
  <2>5. StatusInv'
    BY <1>2, <2>1, <2>3, <2>4 DEF Inv, StatusInv, Live
  <2> QED BY <1>1, <2>2, <2>5 DEF Inv
<1>4. CASE Prepare
  <2>1. status = "DRAFT" /\ status' = "READY"
    BY <1>4 DEF Prepare
  <2>2. \A l \in Loop : request[l].status = "NONE" /\ ~Live(l)
    BY <2>1 DEF Inv, StatusInv, LoopInv
  <2>3. AskInv'
    <3>1. \A t \in Gated : Granted(t)' = Granted(t)
      BY <1>2 DEF Granted
    <3> QED BY <1>2, <2>2, <3>1 DEF Inv, AskInv, At, Granted
  <2>4. StatusInv'
    BY <1>2, <2>1, <2>2 DEF StatusInv, Live
  <2> QED BY <1>1, <2>3, <2>4 DEF Inv
<1> QED BY <1>3, <1>4

LEMMA AnswerInv ==
  ASSUME Inv, Approve \/ Reject
  PROVE  Inv'
<1>1. TypeOK' /\ LoopInv'
  BY AnswerTypes DEF Inv
<1>2. UNCHANGED <<status, planned, raced, task>>
  BY DEF Approve, Reject, pageVars, taskVars
<1>3. PICK k \in Pending, answer \in {"APPROVED", "REFUSED"} :
        /\ Settle(k, answer)
        /\ consents' = IF answer = "APPROVED"
                       THEN [consents EXCEPT ![request[k].task] = @ + 1] ELSE consents
  BY DEF Approve, Reject
<1>4. AskInv'
  BY <1>2, <1>3, SettleAskInv DEF Inv
<1>5. k \in Loop /\ request[k].status = "PENDING"
  BY DEF Pending
<1>6. \A l \in Loop : loop'[l].pc = loop[l].pc
  BY <1>2, <1>3, <1>5, SettleLoopInv DEF Inv
<1>7. IsDone' <=> IsDone
  BY <1>2 DEF IsDone, Created, In
<1>8. StatusInv'
  BY <1>2, <1>5, <1>6, <1>7 DEF Inv, StatusInv, Live
<1> QED BY <1>1, <1>4, <1>8 DEF Inv

LEMMA RunInv ==
  ASSUME Inv, NEW l \in Loop, Run(l)
  PROVE  Inv'
<1>1. /\ TypeOK' /\ LoopInv'
      /\ planned => loop'[l].pc = "top"
      /\ ~planned => ~Live(l)'
      /\ \A k \in Loop : k # l => loop'[k] = loop[k]
  BY RunTypes DEF Inv
<1>2. /\ UNCHANGED <<planned, request, consents, task>> /\ At(l, "idle")
      /\ raced' = (raced \/ \E k \in Loop : Live(k))
      /\ status' \notin {"DRAFT", "COMPLETED"}
  BY DEF Run, askVars, taskVars
<1>3. ~At(l, "gate") /\ ~At(l, "gate")'
  BY <1>1, <1>2 DEF At, Live
<1>4. AskInv'
  BY <1>1, <1>2, <1>3, OthersAskNothing DEF Inv, At
<1>5. ~raced' => \A k \in Loop : Live(k)' => k = l
  BY <1>1, <1>2 DEF Live
<1>6. StatusInv'
  BY <1>2, <1>5 DEF StatusInv
<1> QED BY <1>1, <1>4, <1>6 DEF Inv

LEMMA RollbackInv ==
  ASSUME Inv, Rollback \/ TakeCheckpoint
  PROVE  Inv'
<1>1. TypeOK' /\ LoopInv'
  BY RollbackTypes, CheckpointTypes DEF Inv
<1>2. UNCHANGED <<status, loop, request, consents, planned, raced>>
  BY DEF Rollback, TakeCheckpoint, askVars, pageVars
<1>3. AskInv'
  BY <1>2, OthersAskNothing DEF Inv, At
<1>4. IsDone => IsDone'
  <2>1. \A t \in Task : task[t] \in {"NONE", "DONE"} => task'[t] = task[t]
    BY RollbackTypes DEF Inv, TakeCheckpoint, taskVars
  <2> QED BY <2>1 DEF IsDone, Created, In
<1>5. StatusInv'
  BY <1>2, <1>4 DEF Inv, StatusInv, Live
<1> QED BY <1>1, <1>3, <1>5 DEF Inv

LEMMA RestartInv ==
  ASSUME Inv, Restart
  PROVE  Inv'
<1>1. TypeOK' /\ LoopInv' /\ \A l \in Loop : ~Live(l)'
  BY RestartTypes DEF Inv
<1>2. UNCHANGED <<status, request, consents, raced, task>> /\ planned /\ ~planned'
  BY DEF Restart, askVars
<1>3. \A l \in Loop : ~At(l, "gate")'
  BY <1>1 DEF At, Live
<1>4. \A t \in Gated : Granted(t)' = Granted(t)
  BY <1>2 DEF Granted
<1>5. AskInv'
  BY <1>2, <1>3, <1>4 DEF Inv, AskInv, Granted
<1>6. IsDone' <=> IsDone
  BY <1>2 DEF IsDone, Created, In
<1>7. StatusInv'
  BY <1>1, <1>2, <1>6 DEF Inv, StatusInv
<1> QED BY <1>1, <1>5, <1>7 DEF Inv

LEMMA StepInv == Inv /\ [Next]_vars => Inv'
<1> SUFFICES ASSUME Inv, [Next]_vars PROVE Inv'
  OBVIOUS
<1>1. CASE Prepare \/ Pause \/ Unpause
  BY <1>1, PageInv
<1>2. CASE Approve \/ Reject
  BY <1>2, AnswerInv
<1>3. CASE TakeCheckpoint \/ Rollback
  BY <1>3, RollbackInv
<1>4. CASE Restart
  BY <1>4, RestartInv
<1>5. CASE \E l \in Loop : Run(l)
  BY <1>5, RunInv
<1>6. CASE \E l \in Loop : Step(l)
  <2>1. PICK l \in Loop : Step(l)
    BY <1>6
  <2>2. LoopInv'
    <3>1. UNCHANGED planned
      BY <2>1, StepFrame
    <3>2. CASE TimeOut(l)
      BY <3>1, <3>2, SettleLoopInv DEF TimeOut, Pending, Inv
    <3>3. CASE ~TimeOut(l)
      BY <2>1, <3>1, <3>3, StepMoves, MovesLoopInv DEF Inv
    <3> QED BY <3>2, <3>3
  <2> QED BY <2>1, <2>2, StepTypes, StepAskInv, StepStatusInv DEF Inv
<1>7. CASE UNCHANGED vars
  <2>1. UNCHANGED <<status, loop, task, attempts, repairs, unverified, advised, stalled, over,
                    version, checkpoints, rollbacks, request, consents, planned, paused, raced>>
    BY <1>7 DEF vars, taskVars, watchVars, graphVars, askVars, pageVars
  <2>2. TypeOK' /\ LoopInv'
    BY <2>1 DEF Inv, TypeOK, LoopInv, OneRepairPerTask, Job, Live
  <2>3. AskInv'
    BY <2>1, OthersAskNothing DEF Inv, At
  <2>4. StatusInv'
    BY <2>1 DEF Inv, StatusInv, Live, IsDone, Created, In
  <2> QED BY <2>2, <2>3, <2>4 DEF Inv
<1> QED BY <1>1, <1>2, <1>3, <1>4, <1>5, <1>6, <1>7 DEF Next, User

LEMMA AlwaysInv == Spec => []Inv
<1> QED BY InitInv, StepInv, PTL DEF Spec

(* Each variable keeps to its type: no task is repaired more often than    *)
(* its limit, and no loop turns longer than its guard.                     *)
THEOREM TypeCorrect == Spec => []TypeOK
<1>1. Inv => TypeOK
  BY DEF Inv
<1> QED BY <1>1, AlwaysInv, PTL

(* A task that needs a human is given to an agent at most as often as the  *)
(* human approved it: each approval is waiting for the loop that asked, or *)
(* was spent by it, once.                                                  *)
THEOREM ApprovedCorrect == Spec => []ApprovedBeforeRun
<1>1. Inv => ApprovedBeforeRun
  <2> SUFFICES ASSUME Inv, NEW t \in Gated PROVE consents[t] >= 0
    BY DEF ApprovedBeforeRun
  <2>1. Granted(t) \in SUBSET Loop /\ IsFiniteSet(Loop)
    BY MissionAssumption DEF Granted
  <2>2. Cardinality(Granted(t)) \in Nat
    BY <2>1, FS_Subset, FS_CardinalityType
  <2> QED BY <2>2 DEF Inv, AskInv
<1> QED BY <1>1, AlwaysInv, PTL

(* A mission that was not restored has no question open that no loop       *)
(* waits for.                                                              *)
THEOREM AskedCorrect == Spec => []AskedIsSettled
<1>1. Inv => AskedIsSettled
  BY DEF Inv, AskInv, AskedIsSettled, Pending
<1> QED BY <1>1, AlwaysInv, PTL

(* However many loops, and the supervisor, ask for the repair of a task at *)
(* once, one of them gets it.                                              *)
THEOREM RepairCorrect == Spec => []OneRepairPerTask
<1>1. Inv => OneRepairPerTask
  BY DEF Inv, LoopInv
<1> QED BY <1>1, AlwaysInv, PTL

(* Where runs do not overlap, a mission that reads COMPLETED is done, and  *)
(* stays so when the user goes back.                                       *)
THEOREM CompletedCorrect == Spec => []CompletedStands
<1>1. Inv => CompletedStands
  BY DEF Inv, StatusInv, CompletedStands
<1> QED BY <1>1, AlwaysInv, PTL

(* However runs race, and whatever the human takes time for, an agent is   *)
(* given a task only when all that it depends on is done.                  *)
THEOREM StartsCorrect == Spec => StartsInOrder
<1> DEFINE A == \A l \in Loop : ~At(l, "work") /\ loop'[l].pc = "work" =>
                  \A d \in Deps[Job(l)] : task[d] = "DONE"
<1>1. Inv /\ [Next]_vars => [A]_vars
  <2> SUFFICES ASSUME Inv, Next, NEW l \in Loop, loop[l].pc # "work", loop'[l].pc = "work"
               PROVE  \A d \in Deps[Job(l)] : task[d] = "DONE"
    BY DEF At
  <2>1. ~ UNCHANGED loop
    OBVIOUS
  <2>2. CASE Approve \/ Reject
    <3>1. PICK k \in Loop, answer \in {"APPROVED", "REFUSED"} : Settle(k, answer)
      BY <2>2 DEF Approve, Reject, Pending
    <3>2. UNCHANGED planned
      BY <2>2 DEF Approve, Reject, pageVars
    <3> QED BY <3>1, <3>2, SettleLoopInv DEF Inv
  <2>3. CASE Restart
    BY <2>3, RestartTypes DEF Inv, Live
  <2>4. ASSUME NEW k \in Loop, Run(k) PROVE FALSE
    BY <2>4, RunTypes DEF Inv, Live
  <2>5. ASSUME NEW k \in Loop, TimeOut(k) PROVE FALSE
    <3>1. PICK i \in Loop : Settle(i, "REFUSED")
      BY <2>5 DEF TimeOut, Pending
    <3>2. UNCHANGED planned
      BY <2>5 DEF TimeOut, pageVars
    <3> QED BY <3>1, <3>2, SettleLoopInv DEF Inv
  <2>6. ASSUME NEW k \in Loop, Step(k), ~TimeOut(k)
        PROVE  \A d \in Deps[Job(l)] : task[d] = "DONE"
    <3>1. PICK s \in LoopState : Become(k, s) /\ Sane(k, s)
      BY <2>6, StepMoves DEF Moves, Inv
    <3>2. loop'[k] = s /\ \A i \in Loop : i # k => loop'[i] = loop[i]
      BY <3>1 DEF Become, Inv, TypeOK
    <3>3. k = l /\ s.pc = "work"
      BY <3>2
    <3> QED BY <3>1, <3>3 DEF Sane, DependenciesMet, Met, Job
  <2>7. CASE Prepare \/ Pause \/ Unpause \/ TakeCheckpoint \/ Rollback
    BY <2>1, <2>7 DEF Prepare, Pause, Unpause, TakeCheckpoint, Rollback
  <2> QED BY <2>2, <2>3, <2>4, <2>5, <2>6, <2>7 DEF Next, User
<1> QED BY <1>1, AlwaysInv, PTL DEF Spec, StartsInOrder

-----------------------------------------------------------------------------
(* The order of the tasks, where runs do not overlap.                      *)

(* What a loop is about to do fits the tasks: the one it has is not done,  *)
(* and was ready if an agent works on it; those it was recommended to      *)
(* repair are others, are not done, and are forgotten with the last.       *)
Serves(s, state) ==
  /\ s.recs # {} => s.pc = "rec" \/ (s.pc \in Working /\ s.from = "rec")
  /\ \A t \in s.recs : state[t] # "DONE"
  /\ s.pc \in Working => s.job \notin s.recs /\ state[s.job] # "DONE"
  /\ s.pc = "work" => Met(state, s.job)

(* Tasks that were begun, now or when a checkpoint was taken, wait for     *)
(* nothing.                                                                *)
InOrder(saved, state) == \A t \in Task : saved[t] \in {"RUNNING", "DONE"} => Met(state, t)

OrderInv ==
  /\ status = "DRAFT" => \A t \in Task : task[t] = "NONE"
  /\ ~raced => /\ InOrder(task, task)
               /\ \A i \in DOMAIN checkpoints : InOrder(checkpoints[i].task, task)
               /\ \A l \in Loop : Serves(loop[l], task)

(* What was in order is, as long as what is done stays done.               *)
LEMMA OrderStays ==
  ASSUME NEW saved, NEW state, NEW after, InOrder(saved, state),
         \A t \in Task : state[t] = "DONE" => after[t] = "DONE"
  PROVE  InOrder(saved, after)
BY MissionAssumption DEF InOrder, Met

LEMMA CheckpointsInOrder ==
  ASSUME TypeOK, NEW state, NEW snapshot \in Checkpoint, Take(snapshot),
         \A i \in DOMAIN checkpoints : InOrder(checkpoints[i].task, state),
         InOrder(snapshot.task, state)
  PROVE  \A i \in DOMAIN checkpoints' : InOrder(checkpoints'[i].task, state)
<1>1. checkpoints \in Seq(Checkpoint) /\ MaxBack \in Nat
  BY MissionAssumption DEF TypeOK
<1> DEFINE list == Append(checkpoints, snapshot)
           m == IF Len(list) > MaxBack THEN Len(list) - MaxBack + 1 ELSE 1
<1>2. list \in Seq(Checkpoint) /\ Len(list) \in Nat
  BY <1>1
<1>3. \A i \in 1 .. Len(list) : InOrder(list[i].task, state)
  BY <1>1
<1>4. Newest(list) = SubSeq(list, m, Len(list)) /\ m \in 1 .. Len(list) + 1
  BY <1>1, <1>2 DEF Newest
<1> HIDE DEF list, m
<1>5. ASSUME NEW i \in DOMAIN Newest(list)
      PROVE  InOrder(Newest(list)[i].task, state)
  <2>1. i \in 1 .. Len(list) - m + 1 /\ Newest(list)[i] = list[m + i - 1]
    BY <1>2, <1>4, <1>5
  <2>2. m + i - 1 \in 1 .. Len(list)
    BY <1>2, <1>4, <2>1
  <2> QED BY <1>3, <2>1, <2>2
<1>6. checkpoints' \in {<<>>, checkpoints, Newest(list)}
  BY DEF Take, list
<1> QED BY <1>5, <1>6

(* A loop that is not at a task, and has none to repair, may go anywhere   *)
(* but to one.                                                             *)
Rests(l) == \E s \in LoopState : Become(l, s) /\ s.recs = {} /\ s.pc \notin Working

LEMMA RestsAt ==
  ASSUME NEW l \in Loop, NEW s \in LoopState, Become(l, s), s.recs = {}, s.pc \notin Working
  PROVE  Rests(l)
BY DEF Rests

LEMMA StopsRest ==
  ASSUME NEW l \in Loop, Over(l) \/ Dies(l)
  PROVE  Rests(l)
<1>1. ASSUME NEW where \in {"over", "dead"}, Become(l, [Idle EXCEPT !.pc = where])
      PROVE  Rests(l)
  <2> DEFINE s == [Idle EXCEPT !.pc = where]
  <2>1. Idle \in LoopState /\ Idle.recs = {}
    BY MissionAssumption DEF Idle, LoopState
  <2>2. s \in LoopState /\ s.pc = where /\ s.recs = {}
    BY <2>1 DEF LoopState
  <2> HIDE DEF s
  <2> QED BY <1>1, <2>2, RestsAt DEF s, Working
<1> QED BY <1>1 DEF Over, Dies

LEMMA TransitRests ==
  ASSUME NEW l \in Loop, NEW to, NEW s \in LoopState, Transition(l, to, s),
         s.recs = {}, s.pc \notin Working
  PROVE  Rests(l)
BY StopsRest, RestsAt DEF Transition

LEMMA StepRests ==
  ASSUME TypeOK, NEW l \in Loop, Serves(loop[l], task)
  PROVE  /\ Top(l) => Rests(l)
         /\ OverBudget(l) => Rests(l)
         /\ AllRecommended(l) => Rests(l)
         /\ Dispatch(l) => Rests(l)
         /\ Reorganize(l) \/ NothingLeft(l) \/ WaveDone(l) => Rests(l)
         /\ CannotReorganize(l) \/ GiveUp(l) \/ Drained(l) => Rests(l)
         /\ Await(l) => Rests(l)
         /\ Finish(l) \/ InVain(l) \/ RepairThrows(l) => Rests(l)
<1> DEFINE st == loop[l]
<1>1. st \in LoopState
  BY LoopTyped
<1>2. ASSUME st.pc \in Between \ {"rec"} \/ (st.pc = "rec" /\ st.recs = {})
      PROVE  st.recs = {}
  BY <1>2 DEF Serves, Between, Working
<1>3. ASSUME st.recs = {}, NEW where \in Between, Goto(l, where)
      PROVE  Rests(l)
  <2> DEFINE s == [st EXCEPT !.pc = where]
  <2>1. s \in LoopState /\ s.pc = where /\ s.recs = {}
    BY <1>1, <1>3 DEF LoopState, Between, Sync
  <2>2. Become(l, s)
    BY <1>3 DEF Goto, Become, TypeOK
  <2> HIDE DEF s
  <2> QED BY <2>1, <2>2, RestsAt DEF Between, Working
<1>4. ASSUME st.recs = {}, NEW where \in Between, NEW to,
             Transition(l, to, [st EXCEPT !.pc = where])
      PROVE  Rests(l)
  <2> DEFINE s == [st EXCEPT !.pc = where]
  <2>1. s \in LoopState /\ s.pc = where /\ s.recs = {}
    BY <1>1, <1>4 DEF LoopState, Between, Sync
  <2>2. Transition(l, to, s)
    BY <1>4
  <2> HIDE DEF s
  <2> QED BY <2>1, <2>2, TransitRests DEF Between, Working
<1>5. ASSUME Top(l) PROVE Rests(l)
  <2>1. st.pc = "top"
    BY <1>5 DEF Top, At
  <2>2. CASE st.turn = MaxTurns
    BY <1>2, <1>3, <1>5, <2>1, <2>2 DEF Top, Between
  <2>3. CASE st.turn # MaxTurns
    <3> DEFINE s == [st EXCEPT !.pc = "turn", !.turn = @ + 1]
    <3>1. st.turn + 1 \in 0 .. MaxTurns
      BY <1>1, <2>3, MissionAssumption DEF LoopState
    <3>2. s \in LoopState /\ s.pc = "turn" /\ s.recs = st.recs
      BY <1>1, <3>1 DEF LoopState
    <3>3. Become(l, s)
      BY <1>5, <2>3 DEF Top
    <3> HIDE DEF s
    <3> QED BY <1>2, <2>1, <3>2, <3>3, RestsAt DEF Between, Working
  <2> QED BY <2>2, <2>3
<1>6. ASSUME OverBudget(l) PROVE Rests(l)
  BY <1>2, <1>4, <1>6 DEF OverBudget, At, Between
<1>7. ASSUME AllRecommended(l) PROVE Rests(l)
  <2> DEFINE s == [st EXCEPT !.pc = "decide", !.pausing = FALSE]
  <2>1. s \in LoopState /\ s.pc = "decide" /\ s.recs = st.recs
    BY <1>1 DEF LoopState, Sync
  <2>2. Transition(l, "PAUSED", s) \/ Become(l, s)
    BY <1>7 DEF AllRecommended
  <2>3. st.recs = {}
    BY <1>7 DEF AllRecommended
  <2> HIDE DEF s
  <2> QED BY <2>1, <2>2, <2>3, RestsAt, TransitRests DEF Working
<1>8. ASSUME Dispatch(l) PROVE Rests(l)
  <2> DEFINE s == [st EXCEPT !.pc = "wave", !.wave = DispatchableWave]
  <2>1. st.pc = "decide" /\ DispatchableWave \in SUBSET Task /\ Become(l, s)
    BY <1>8 DEF Dispatch, At, DispatchableWave, In
  <2>2. s \in LoopState /\ s.pc = "wave" /\ s.recs = st.recs
    BY <1>1, <2>1 DEF LoopState, Sync
  <2> HIDE DEF s
  <2> QED BY <1>2, <2>1, <2>2, RestsAt DEF Between, Working
<1>9. ASSUME Reorganize(l) \/ NothingLeft(l) \/ WaveDone(l) PROVE Rests(l)
  BY <1>2, <1>3, <1>9 DEF Reorganize, NothingLeft, WaveDone, Exhausted, Stuck, At, Between
<1>10. ASSUME CannotReorganize(l) \/ GiveUp(l) \/ Drained(l) PROVE Rests(l)
  BY <1>2, <1>4, <1>10 DEF CannotReorganize, GiveUp, Drained, Exhausted, Stuck, At, Between
<1>11. ASSUME Await(l) PROVE Rests(l)
  <2> DEFINE s == [st EXCEPT !.pc = "drain", !.draining = Pending]
  <2>1. st.pc = "decide" /\ Pending \in SUBSET Loop /\ Transition(l, "BLOCKED", s)
    BY <1>11 DEF Await, Stuck, At, Pending
  <2>2. s \in LoopState /\ s.pc = "drain" /\ s.recs = st.recs
    BY <1>1, <2>1 DEF LoopState
  <2> HIDE DEF s
  <2> QED BY <1>2, <2>1, <2>2, TransitRests DEF Between, Working
<1>12. ASSUME Finish(l) \/ InVain(l) \/ RepairThrows(l) PROVE Rests(l)
  BY <1>12, StopsRest DEF Finish, InVain, Approved, RepairThrows, Transition, Over
<1> QED BY <1>5, <1>6, <1>7, <1>8, <1>9, <1>10, <1>11, <1>12

(* What a step makes of the tasks.  Nothing done is undone, and what is    *)
(* begun waits for nothing.                                                *)
LEMMA TaskChanges ==
  ASSUME NEW l \in Loop, Step(l)
  PROVE  \/ UNCHANGED task
         \/ Reorganize(l)
         \/ /\ loop[l].pc \in Working
            /\ \/ \E x \in {"PENDING", "BLOCKED", "FAILED"} : task' = [task EXCEPT ![Job(l)] = x]
               \/ task' = [task EXCEPT ![Job(l)] = "RUNNING"] /\ Met(task, Job(l))
               \/ task' = [task EXCEPT ![Job(l)] = "DONE"] /\ loop[l].pc = "work"
BY DEF Step, ExecuteTask, Start, taskVars, Repairs, Counts, At, Working, Answered, DependenciesMet, Top,
       OverBudget, Supervise, Recommended, AllRecommended, Dispatch, CannotReorganize, Await,
       GiveUp, NothingLeft, Drained, NextTask, WaveDone, Begins, Asks, Ask, Postpones, Postpone,
       Delegated, Approved, InVain, Refused, TimeOut, Delivered, Failed, NoRepair, LastRepair,
       RepairThrows, RepairWorks, NoOtherHarness, Finish

LEMMA StepInOrder ==
  ASSUME TypeOK, LoopInv, NEW l \in Loop, Step(l), Serves(loop[l], task), InOrder(task, task)
  PROVE  /\ \A t \in Task : task[t] = "DONE" => task'[t] = "DONE"
         /\ \A t \in Task : t # Job(l) /\ ~Reorganize(l) => task'[t] = task[t]
         /\ InOrder(task', task')
<1>1. CASE UNCHANGED task
  BY <1>1
<1>2. CASE Reorganize(l)
  <2>1. \A t \in Task : task'[t] = IF t \in Added /\ task[t] = "NONE" THEN "PENDING" ELSE task[t]
    BY <1>2 DEF Reorganize
  <2> QED BY <1>2, <2>1, MissionAssumption DEF InOrder, Met
<1>3. ASSUME NEW x, loop[l].pc \in Working, task' = [task EXCEPT ![Job(l)] = x],
             x \in {"RUNNING", "DONE"} => Met(task, Job(l))
      PROVE  /\ \A t \in Task : task[t] = "DONE" => task'[t] = "DONE"
             /\ \A t \in Task : t # Job(l) => task'[t] = task[t]
             /\ InOrder(task', task')
  <2>1. Job(l) \in Task /\ task[Job(l)] # "DONE"
    BY <1>3 DEF LoopInv, Serves, Job
  <2>2. task'[Job(l)] = x /\ \A t \in Task : t # Job(l) => task'[t] = task[t]
    BY <1>3, <2>1 DEF TypeOK
  <2>3. \A t \in Task : task[t] = "DONE" => task'[t] = "DONE"
    BY <2>1, <2>2
  <2>4. \A t \in Task : task'[t] \in {"RUNNING", "DONE"} => Met(task, t)
    BY <1>3, <2>2 DEF InOrder
  <2>5. InOrder(task', task')
    BY <2>3, <2>4, MissionAssumption DEF InOrder, Met
  <2> QED BY <2>2, <2>3, <2>5
<1>4. loop[l].pc = "work" => Met(task, Job(l))
  BY DEF Serves, Job
<1> QED BY <1>1, <1>2, <1>3, <1>4, TaskChanges

(* A loop goes on with its task, or leaves it.                             *)
LEMMA GoesOnServing ==
  ASSUME TypeOK, LoopInv, NEW l \in Loop, loop[l].pc \in Working, Serves(loop[l], task),
         \A t \in Task : t # Job(l) => task'[t] = task[t],
         task'[Job(l)] # "DONE", NEW where \in Working, where = "work" => Met(task, Job(l)),
         NEW s \in LoopState, s.pc = where, s.job = Job(l), s.recs = loop[l].recs,
         s.from = loop[l].from
  PROVE  Serves(s, task')
<1>1. Job(l) \in Task /\ task[Job(l)] # "DONE" /\ Job(l) \notin loop[l].recs
  BY DEF LoopInv, Serves, Job
<1>2. loop[l].recs \subseteq Task
  BY LoopTyped DEF LoopState
<1>3. Met(task, Job(l)) => Met(task', Job(l))
  BY <1>1, MissionAssumption DEF Met
<1>4. s.job \notin s.recs /\ task'[s.job] # "DONE" /\ \A t \in s.recs : task'[t] # "DONE"
  BY <1>1, <1>2 DEF Serves
<1>5. s.recs # {} => s.from = "rec"
  BY DEF Serves, Working
<1> QED BY <1>3, <1>4, <1>5 DEF Serves

LEMMA LeavesServing ==
  ASSUME TypeOK, LoopInv, NEW l \in Loop, loop[l].pc \in Working, Serves(loop[l], task),
         \A t \in Task : t # Job(l) => task'[t] = task[t],
         NEW s \in LoopState, s.pc = loop[l].from, s.recs = loop[l].recs
  PROVE  Serves(s, task')
<1>1. Job(l) \notin loop[l].recs /\ loop[l].recs \subseteq Task /\ loop[l].from \in {"wave", "rec"}
  BY LoopTyped DEF Serves, Job, LoopState
<1> QED BY <1>1 DEF Serves, Working

LEMMA ReturnServes ==
  ASSUME TypeOK, LoopInv, NEW l \in Loop, loop[l].pc \in Working, Serves(loop[l], task),
         \A t \in Task : t # Job(l) => task'[t] = task[t], Return(l)
  PROVE  Serves(loop'[l], task')
<1> DEFINE s == [loop[l] EXCEPT !.pc = loop[l].from, !.job = 0, !.repairing = FALSE]
<1>1. loop[l] \in LoopState /\ loop[l].from \in {"wave", "rec"}
  BY LoopTyped DEF LoopState
<1>2. s \in LoopState /\ s.pc = loop[l].from /\ s.recs = loop[l].recs
  BY <1>1 DEF LoopState, Sync
<1>3. loop'[l] = s
  BY DEF Return, Become, TypeOK
<1> HIDE DEF s
<1> QED BY <1>2, <1>3, LeavesServing

LEMMA StepServes ==
  ASSUME TypeOK, LoopInv, NEW l \in Loop, Step(l), ~TimeOut(l), Serves(loop[l], task),
         InOrder(task, task)
  PROVE  Serves(loop'[l], task')
<1> DEFINE st == loop[l]
<1>1. st \in LoopState /\ st.recs \in SUBSET Task
  BY LoopTyped DEF LoopState
<1>2. \A s : Become(l, s) => loop'[l] = s
  BY DEF Become, TypeOK
<1>3. CASE Rests(l)
  BY <1>2, <1>3 DEF Rests, Serves, Working
<1>4. CASE Supervise(l)
  <2>1. PICK stall \in BOOLEAN :
          Become(l, [st EXCEPT !.pc = "rec", !.recs = Repeated, !.pausing = stall])
    BY <1>4 DEF Supervise
  <2> DEFINE s == [st EXCEPT !.pc = "rec", !.recs = Repeated, !.pausing = stall]
  <2>2. s.pc = "rec" /\ s.recs = Repeated
    BY <1>1 DEF LoopState
  <2>3. loop'[l] = s
    BY <1>2, <2>1
  <2>4. \A t \in Repeated : task[t] # "DONE"
    BY DEF Repeated, In
  <2>5. UNCHANGED task
    BY <1>4 DEF Supervise, taskVars
  <2> HIDE DEF s
  <2> QED BY <2>2, <2>3, <2>4, <2>5 DEF Serves, Working
<1>5. CASE Recommended(l)
  <2> DEFINE t == Min(st.recs)
             s == [st EXCEPT !.pc = "repair", !.recs = @ \ {t}, !.job = t, !.from = "rec"]
  <2>1. st.recs # {} /\ Become(l, s) /\ UNCHANGED task
    BY <1>5 DEF Recommended, taskVars
  <2>2. t \in st.recs
    BY <1>1, <2>1, MinOf
  <2> HIDE DEF t
  <2>3. s.pc = "repair" /\ s.job = t /\ s.from = "rec" /\ s.recs = st.recs \ {t}
    BY <1>1 DEF LoopState
  <2>4. loop'[l] = s
    BY <1>2, <2>1
  <2> HIDE DEF s
  <2> QED BY <2>1, <2>2, <2>3, <2>4 DEF Serves, Working
<1>6. CASE NextTask(l)
  <2> DEFINE t == Min(st.wave)
             rest == [st EXCEPT !.wave = @ \ {t}]
             s == [rest EXCEPT !.pc = "enter", !.job = t, !.from = "wave"]
  <2>1. st.pc = "wave" /\ Become(l, IF task[t] = "DONE" THEN rest ELSE s) /\ UNCHANGED task
    BY <1>6 DEF NextTask, At, taskVars
  <2>2. st.recs = {}
    BY <2>1 DEF Serves, Working
  <2> HIDE DEF t
  <2>3. rest.pc = "wave" /\ rest.recs = {} /\ rest \in LoopState
    BY <1>1, <2>1, <2>2 DEF LoopState
  <2> HIDE DEF rest
  <2>4. s.pc = "enter" /\ s.recs = {} /\ s.job = t
    BY <2>3 DEF LoopState
  <2>5. loop'[l] = rest \/ (loop'[l] = s /\ task[t] # "DONE")
    BY <1>2, <2>1
  <2> HIDE DEF s
  <2> QED BY <2>1, <2>3, <2>4, <2>5 DEF Serves, Working
<1>7. ASSUME st.pc \in Working PROVE Job(l) \in Task /\ task[Job(l)] # "DONE"
  BY <1>7 DEF LoopInv, Serves, Job
<1>8. ~Reorganize(l) => \A t \in Task : t # Job(l) => task'[t] = task[t]
  BY StepInOrder
<1>9. ASSUME st.pc \in Working, ~Reorganize(l), Return(l) PROVE Serves(loop'[l], task')
  BY <1>8, <1>9, ReturnServes
<1>10. ASSUME st.pc \in Working, ~Reorganize(l), NEW where \in Working,
              task'[Job(l)] # "DONE", where = "work" => Met(task, Job(l)),
              Goto(l, where) \/ Become(l, [st EXCEPT !.pc = where])
       PROVE  Serves(loop'[l], task')
  <2> DEFINE s == [st EXCEPT !.pc = where]
  <2>1. /\ s \in LoopState /\ s.pc = where /\ s.job = Job(l) /\ s.recs = st.recs
        /\ s.from = st.from
    BY <1>1, <1>10 DEF LoopState, Working, Sync, Job
  <2>2. loop'[l] = s
    BY <1>10 DEF Goto, Become, TypeOK
  <2> HIDE DEF s
  <2> QED BY <1>8, <1>10, <2>1, <2>2, GoesOnServing
<1>11. CASE Postpones(l) \/ Refused(l) \/ Delivered(l) \/ NoRepair(l) \/ NoOtherHarness(l)
  <2>1. st.pc \in Working /\ Return(l) /\ ~Reorganize(l)
    BY <1>11 DEF Postpones, Postpone, Refused, Answered, Delivered, NoRepair, NoOtherHarness,
                 Repairs, Counts, Reorganize, Exhausted, Stuck, At, Working
  <2> QED BY <1>9, <2>1
<1>12. CASE Begins(l) \/ Delegated(l)
  <2>1. /\ st.pc \in Working /\ ~Reorganize(l) /\ Met(task, Job(l))
        /\ Become(l, [st EXCEPT !.pc = "work"]) /\ task' = [task EXCEPT ![Job(l)] = "RUNNING"]
    BY <1>12 DEF Begins, Delegated, Approved, Answered, Start, DependenciesMet, Reorganize,
                 Exhausted, Stuck, At, Working
  <2>2. task'[Job(l)] # "DONE"
    BY <1>7, <2>1 DEF TypeOK
  <2> QED BY <1>10, <2>1, <2>2 DEF Working
<1>13. CASE Asks(l)
  <2>1. st.pc \in Working /\ ~Reorganize(l) /\ Goto(l, "gate") /\ UNCHANGED task
    BY <1>13 DEF Asks, Ask, Reorganize, Exhausted, Stuck, At, Working, taskVars
  <2>2. task'[Job(l)] # "DONE"
    BY <1>7, <2>1
  <2> QED BY <1>10, <2>1, <2>2 DEF Working
<1>14. CASE Failed(l)
  <2>1. /\ st.pc \in Working /\ ~Reorganize(l) /\ Goto(l, "repair")
        /\ task' = [task EXCEPT ![Job(l)] = "FAILED"]
    BY <1>14 DEF Failed, Reorganize, Exhausted, Stuck, At, Working
  <2>2. task'[Job(l)] # "DONE"
    BY <1>7, <2>1 DEF TypeOK
  <2> QED BY <1>10, <2>1, <2>2 DEF Working
<1>15. CASE LastRepair(l)
  <2> DEFINE s == [st EXCEPT !.pc = st.from, !.job = 0]
  <2>1. st.pc \in Working /\ ~Reorganize(l) /\ Transition(l, "BLOCKED", s)
    BY <1>15 DEF LastRepair, Counts, Reorganize, Exhausted, Stuck, At, Working
  <2>2. st.from \in {"wave", "rec"}
    BY <1>1 DEF LoopState
  <2>3. s \in LoopState /\ s.pc = st.from /\ s.recs = st.recs
    BY <1>1, <2>2 DEF LoopState, Sync
  <2> HIDE DEF s
  <2>4. CASE Dies(l)
    BY <1>3, <2>4, StopsRest
  <2>5. CASE Become(l, s)
    BY <1>2, <1>8, <2>1, <2>3, <2>5, LeavesServing
  <2> QED BY <2>1, <2>4, <2>5 DEF Transition
<1>16. CASE RepairWorks(l)
  <2> DEFINE s == [st EXCEPT !.pc = "enter", !.repairing = TRUE]
  <2>1. /\ st.pc \in Working /\ ~Reorganize(l)
        /\ Become(l, s) \/ Return(l)
        /\ task' = [task EXCEPT ![Job(l)] = "PENDING"]
    BY <1>16 DEF RepairWorks, Repairs, Counts, Reorganize, Exhausted, Stuck, At, Working
  <2>2. task'[Job(l)] # "DONE"
    BY <1>7, <2>1 DEF TypeOK
  <2>3. /\ s \in LoopState /\ s.pc = "enter" /\ s.job = Job(l) /\ s.recs = st.recs
        /\ s.from = st.from
    BY <1>1 DEF LoopState, Sync, Job
  <2> HIDE DEF s
  <2>4. CASE Become(l, s)
    BY <1>2, <1>8, <2>1, <2>2, <2>3, <2>4, GoesOnServing DEF Working
  <2> QED BY <1>9, <2>1, <2>4
<1> QED
  BY <1>3, <1>4, <1>5, <1>6, <1>11, <1>12, <1>13, <1>14, <1>15, <1>16, StepRests, Outcomes DEF Step

(* An answer, or none, is not about what the loops have to do.             *)
LEMMA SettleServes ==
  ASSUME TypeOK, LoopInv, NEW k \in Loop, NEW answer, Settle(k, answer), UNCHANGED <<planned, task>>,
         \A l \in Loop : Serves(loop[l], task)
  PROVE  \A l \in Loop : Serves(loop'[l], task')
<1>1. \A l \in Loop : /\ loop'[l].pc = loop[l].pc /\ loop'[l].job = loop[l].job
                      /\ loop'[l].from = loop[l].from /\ loop'[l].recs = loop[l].recs
  BY SettleLoopInv
<1> QED BY <1>1 DEF Serves

(* A loop that is over has nothing to do.                                  *)
LEMMA DeadServes ==
  ASSUME TypeOK, NEW l \in Loop, ~Live(l), Serves(loop[l], task), NEW state
  PROVE  loop[l].recs = {} /\ Serves(loop[l], state)
BY DEF Live, Serves, Working

LEMMA StepOrder ==
  ASSUME Inv, OrderInv, NEW l \in Loop, Step(l)
  PROVE  OrderInv'
<1>1. Inv'
  BY StepInv DEF Next
<1>2. Live(l) /\ planned /\ UNCHANGED <<planned, raced>>
  BY StepIsLive, TimeOutLives, StepFrame DEF Inv, LoopInv
<1>3. status' # "DRAFT"
  BY <1>1, <1>2 DEF Inv, StatusInv
<1> SUFFICES ASSUME ~raced
             PROVE  /\ InOrder(task', task')
                    /\ \A i \in DOMAIN checkpoints' : InOrder(checkpoints'[i].task, task')
                    /\ \A k \in Loop : Serves(loop'[k], task')
  BY <1>2, <1>3 DEF OrderInv
<1>4. CASE TimeOut(l)
  <2>1. UNCHANGED <<task, checkpoints>> /\ \E k \in Loop : Settle(k, "REFUSED")
    BY <1>4 DEF TimeOut, taskVars, graphVars, Pending
  <2> QED BY <1>2, <2>1, SettleServes DEF Inv, OrderInv
<1>5. CASE ~TimeOut(l)
  <2>1. Serves(loop[l], task) /\ InOrder(task, task)
    BY DEF OrderInv
  <2>2. (\A t \in Task : task[t] = "DONE" => task'[t] = "DONE") /\ InOrder(task', task')
    BY <2>1, StepInOrder DEF Inv
  <2>3. \A i \in DOMAIN checkpoints : InOrder(checkpoints[i].task, task')
    BY <2>2, OrderStays DEF OrderInv
  <2>4. \A i \in DOMAIN checkpoints' : InOrder(checkpoints'[i].task, task')
    <3>1. CASE Take(Snapshot)
      <4>1. Snapshot \in Checkpoint /\ Snapshot.task = task
        BY SnapshotTyped DEF Inv, Snapshot
      <4>2. InOrder(Snapshot.task, task')
        BY <2>1, <2>2, <4>1, OrderStays
      <4> QED BY <2>3, <3>1, <4>1, <4>2, CheckpointsInOrder DEF Inv
    <3>2. CASE Reorganize(l)
      <4> DEFINE snapshot == [task |-> task', version |-> version']
      <4>1. snapshot \in Checkpoint /\ snapshot.task = task'
        BY <1>1 DEF Inv, TypeOK, Checkpoint
      <4>2. Take(snapshot)
        BY <3>2 DEF Reorganize
      <4> HIDE DEF snapshot
      <4> QED BY <2>2, <2>3, <4>1, <4>2, CheckpointsInOrder DEF Inv
    <3> QED BY <2>3, <3>1, <3>2, StepCheckpoints
  <2>5. Serves(loop'[l], task')
    BY <1>5, <2>1, StepServes DEF Inv
  <2>6. ASSUME NEW k \in Loop, k # l PROVE Serves(loop'[k], task')
    <3>1. ~Live(k)
      BY <1>2, <2>6 DEF Inv, StatusInv
    <3>2. loop'[k] = loop[k]
      BY <1>5, <2>6, StepMoves DEF Moves, Become, Inv, TypeOK
    <3>3. Serves(loop[k], task)
      BY DEF OrderInv
    <3> QED BY <3>1, <3>2, <3>3, DeadServes DEF Inv
  <2> QED BY <2>2, <2>4, <2>5, <2>6
<1> QED BY <1>4, <1>5

LEMMA RunOrder ==
  ASSUME Inv, OrderInv, NEW l \in Loop, Run(l)
  PROVE  OrderInv'
<1>1. /\ UNCHANGED <<task, checkpoints>> /\ status' # "DRAFT" /\ At(l, "idle")
      /\ (planned /\ Goto(l, "top")) \/ Dies(l)
      /\ raced' = (raced \/ \E k \in Loop : Live(k))
  BY DEF Run, taskVars, graphVars
<1>2. ASSUME ~raced PROVE \A k \in Loop : Serves(loop'[k], task)
  <2>1. Serves(loop[l], task) /\ ~Live(l) /\ TypeOK
    BY <1>1, <1>2 DEF OrderInv, At, Live, Inv
  <2>2. loop[l] \in LoopState /\ loop[l].recs = {}
    BY <2>1, DeadServes, LoopTyped
  <2>3. Rests(l)
    <3>1. CASE Goto(l, "top")
      <4> DEFINE s == [loop[l] EXCEPT !.pc = "top"]
      <4>1. s \in LoopState /\ s.pc = "top" /\ s.recs = {}
        BY <2>2 DEF LoopState, Sync
      <4>2. Become(l, s)
        BY <2>1, <3>1 DEF Goto, Become, TypeOK
      <4> HIDE DEF s
      <4> QED BY <4>1, <4>2, RestsAt DEF Working
    <3> QED BY <1>1, <3>1, StopsRest
  <2>4. PICK s \in LoopState : Become(l, s) /\ s.recs = {} /\ s.pc \notin Working
    BY <2>3 DEF Rests
  <2>5. loop'[l] = s /\ \A k \in Loop : k # l => loop'[k] = loop[k]
    BY <2>1, <2>4 DEF Become, TypeOK
  <2>6. Serves(s, task)
    BY <2>4 DEF Serves, Working
  <2> QED BY <1>2, <2>5, <2>6 DEF OrderInv
<1> QED BY <1>1, <1>2 DEF OrderInv

LEMMA PageOrder ==
  ASSUME Inv, OrderInv, Prepare \/ Pause \/ Unpause \/ TakeCheckpoint
  PROVE  OrderInv'
<1>1. UNCHANGED <<loop, raced>>
  BY DEF Prepare, Pause, Unpause, TakeCheckpoint, pageVars
<1>2. CASE Pause \/ Unpause
  <2>1. UNCHANGED <<task, checkpoints>> /\ (status' = "DRAFT" => status = "DRAFT")
    BY <1>2 DEF Pause, Unpause, taskVars, graphVars
  <2> QED BY <1>1, <2>1 DEF OrderInv
<1>3. CASE TakeCheckpoint
  <2>1. UNCHANGED <<status, task>> /\ Take(Snapshot)
    BY <1>3 DEF TakeCheckpoint, taskVars
  <2>2. Snapshot \in Checkpoint /\ Snapshot.task = task
    BY SnapshotTyped DEF Inv, Snapshot
  <2>3. ~raced => \A i \in DOMAIN checkpoints' : InOrder(checkpoints'[i].task, task)
    BY <2>1, <2>2, CheckpointsInOrder DEF Inv, OrderInv
  <2> QED BY <1>1, <2>1, <2>3 DEF OrderInv
<1>4. CASE Prepare
  <2>1. /\ status = "DRAFT" /\ status' = "READY" /\ Take([task |-> task, version |-> 1])
        /\ \A t \in Task : task'[t] \in {"NONE", "PENDING"}
    BY <1>4 DEF Prepare
  <2>2. (\A t \in Task : task[t] = "NONE") /\ \A l \in Loop : ~Live(l)
    BY <2>1 DEF OrderInv, Inv, StatusInv, LoopInv
  <2>3. [task |-> task, version |-> 1] \in Checkpoint
    BY DEF Checkpoint, Inv, TypeOK
  <2>4. InOrder(task', task') /\ InOrder(task, task')
    BY <2>1, <2>2 DEF InOrder
  <2>5. ASSUME ~raced
        PROVE  /\ \A i \in DOMAIN checkpoints' : InOrder(checkpoints'[i].task, task')
               /\ \A l \in Loop : Serves(loop[l], task')
    <3>1. \A i \in DOMAIN checkpoints : InOrder(checkpoints[i].task, task')
      BY <2>2, <2>5, OrderStays DEF OrderInv
    <3>2. \A l \in Loop : Serves(loop[l], task')
      BY <2>2, <2>5, DeadServes DEF OrderInv, Inv
    <3> QED BY <2>1, <2>3, <2>4, <3>1, <3>2, CheckpointsInOrder DEF Inv
  <2> QED BY <1>1, <2>1, <2>4, <2>5 DEF OrderInv
<1> QED BY <1>2, <1>3, <1>4

LEMMA RollbackOrder ==
  ASSUME Inv, OrderInv, Rollback
  PROVE  OrderInv'
<1>1. UNCHANGED <<status, loop, raced>>
  BY DEF Rollback, pageVars
<1>2. PICK c \in DOMAIN checkpoints :
        /\ task' = [t \in Task |-> RolledBack(c, t)]
        /\ checkpoints' \in {SubSeq(checkpoints, 1, c), <<>>}
  BY DEF Rollback
<1>3. \A t \in Task :
        /\ task[t] = "DONE" <=> task'[t] = "DONE"
        /\ task[t] = "NONE" => task'[t] = "NONE"
        /\ task'[t] = "RUNNING" => "RUNNING" \in {task[t], checkpoints[c].task[t]}
  BY <1>2 DEF RolledBack
<1>4. ASSUME ~raced, NEW saved, InOrder(saved, task) PROVE InOrder(saved, task')
  BY <1>3, <1>4, OrderStays
<1>5. ASSUME ~raced
      PROVE  /\ InOrder(task', task')
             /\ \A i \in DOMAIN checkpoints' : InOrder(checkpoints'[i].task, task')
             /\ \A l \in Loop : Serves(loop[l], task')
  <2>1. InOrder(task, task') /\ \A i \in DOMAIN checkpoints : InOrder(checkpoints[i].task, task')
    BY <1>4, <1>5 DEF OrderInv
  <2>2. InOrder(task', task')
    BY <1>3, <2>1 DEF InOrder
  <2>3. \A i \in DOMAIN checkpoints' : InOrder(checkpoints'[i].task, task')
    <3>1. checkpoints \in Seq(Checkpoint) /\ c \in 1 .. Len(checkpoints)
      BY DEF Inv, TypeOK
    <3>2. \A i \in DOMAIN SubSeq(checkpoints, 1, c) :
            i \in DOMAIN checkpoints /\ SubSeq(checkpoints, 1, c)[i] = checkpoints[i]
      BY <3>1
    <3>3. DOMAIN <<>> = {}
      OBVIOUS
    <3>4. CASE checkpoints' = SubSeq(checkpoints, 1, c)
      BY <2>1, <3>2, <3>4
    <3>5. CASE checkpoints' = <<>>
      BY <3>3, <3>5
    <3> QED BY <1>2, <3>4, <3>5
  <2>4. ASSUME NEW l \in Loop PROVE Serves(loop[l], task')
    <3>1. Serves(loop[l], task) /\ loop[l].recs \subseteq Task
      BY <1>5, LoopTyped DEF OrderInv, Inv, LoopState
    <3>2. loop[l].pc \in Working => loop[l].job \in Task
      BY DEF Inv, LoopInv
    <3>3. loop[l].pc = "work" => Met(task', loop[l].job)
      BY <1>3, <3>1, <3>2, MissionAssumption DEF Serves, Met, Working
    <3> QED BY <1>3, <3>1, <3>2, <3>3 DEF Serves
  <2> QED BY <2>2, <2>3, <2>4
<1> QED BY <1>1, <1>3, <1>5 DEF OrderInv

LEMMA AlwaysOrder == Spec => []OrderInv
<1>1. Init => OrderInv
  <2> SUFFICES ASSUME Init PROVE OrderInv
    OBVIOUS
  <2>1. \A l \in Loop : loop[l].pc = "idle" /\ loop[l].recs = {}
    BY DEF Init, Idle
  <2>2. (\A t \in Task : task[t] = "NONE") /\ DOMAIN checkpoints = {}
    BY DEF Init
  <2> QED BY <2>1, <2>2 DEF OrderInv, InOrder, Serves, Working
<1>2. Inv /\ OrderInv /\ [Next]_vars => OrderInv'
  <2> SUFFICES ASSUME Inv, OrderInv, [Next]_vars PROVE OrderInv'
    OBVIOUS
  <2>1. CASE Approve \/ Reject
    <3>1. PICK k \in Loop, answer \in {"APPROVED", "REFUSED"} : Settle(k, answer)
      BY <2>1 DEF Approve, Reject, Pending
    <3>2. UNCHANGED <<status, planned, raced, task, checkpoints>>
      BY <2>1 DEF Approve, Reject, pageVars, taskVars, graphVars
    <3>3. ~raced => \A l \in Loop : Serves(loop'[l], task')
      BY <3>1, <3>2, SettleServes DEF Inv, OrderInv
    <3> QED BY <3>2, <3>3 DEF OrderInv
  <2>2. CASE Restart
    <3>1. UNCHANGED <<status, raced, task, checkpoints>>
      BY <2>2 DEF Restart, graphVars
    <3>2. \A l \in Loop : loop'[l] \in {[Idle EXCEPT !.pc = "dead"], loop[l]}
      BY <2>2 DEF Restart
    <3>3. Serves([Idle EXCEPT !.pc = "dead"], task)
      BY DEF Serves, Idle, Working
    <3> QED BY <3>1, <3>2, <3>3 DEF OrderInv
  <2>3. CASE UNCHANGED vars
    <3>1. UNCHANGED <<status, raced, task, checkpoints, loop>>
      BY <2>3 DEF vars, taskVars, graphVars, pageVars
    <3> QED BY <3>1 DEF OrderInv
  <2> QED BY <2>1, <2>2, <2>3, PageOrder, RollbackOrder, RunOrder, StepOrder DEF Next, User
<1> QED BY <1>1, <1>2, AlwaysInv, PTL DEF Spec

(* Where runs do not overlap, nothing is at work or done before all that   *)
(* it depends on is, whatever is repaired, rolled back or restored.        *)
THEOREM OrderCorrect == Spec => []OrderKept
<1>1. OrderInv => OrderKept
  BY DEF OrderInv, OrderKept, InOrder, Met, In
<1> QED BY <1>1, AlwaysOrder, PTL

-----------------------------------------------------------------------------
(* The other half: the mission loop, whose cycles run crews over and over. *)

(* What the other invariants need to know of the types.                    *)
Listed(list) == list \in Seq({list[i] : i \in DOMAIN list})
SeatShape ==
  /\ seat = [runs |-> seat.runs, realRuns |-> seat.realRuns, evidence |-> seat.evidence,
             suppressed |-> seat.suppressed, pending |-> seat.pending]
  /\ seat.suppressed \in 0 .. PraiseRuns /\ sincePraise \in 0 .. PraiseRuns + 1
  /\ DOMAIN seat.pending = Cycles
  /\ Listed(seat.evidence)
CandidateShape ==
  /\ DOMAIN candidates = Cycles
  /\ \A c \in Cycles :
       /\ candidates[c] = [status |-> candidates[c].status, baseline |-> candidates[c].baseline,
                           evidence |-> candidates[c].evidence]
       /\ candidates[c].baseline \in Text

Shapes ==
  /\ cycle \in [Cycles -> Cycle] /\ crew \in Text
  /\ SeatShape /\ CandidateShape

(* As long as cycles do not overlap, the one under way has the next number *)
(* and every recorded one a smaller one of its own.                        *)
Straight ==
  alone =>
    /\ \A c, d \in UnderWay : c = d
    /\ \A c \in UnderWay : cycle[c].no = NextNo
    /\ \A c \in Recorded : cycle[c].no < NextNo

(* A cycle that has not been folded has left no evidence and no candidate. *)
Unfolded(c) == cycle[c].pc \in {"none", "executing"}
NotYet ==
  \A c \in Cycles : Unfolded(c) =>
    /\ candidates[c].status = "none"
    /\ \A d \in 0 .. NumCycles : Shown(c, Kept(d)) = {}

Armed == seat.suppressed + sincePraise > PraiseRuns

CrewInv ==
  /\ Shapes /\ Straight /\ LedgerIsStraight
  /\ NotYet /\ EvidenceSpentOnce /\ Armed

-----------------------------------------------------------------------------
(* Lists of evidence, whatever is in them.                                 *)

LEMMA ListedSeq ==
  ASSUME NEW S, NEW s \in Seq(S)
  PROVE  Listed(s) /\ Len(s) \in Nat /\ DOMAIN s = 1 .. Len(s)
BY DEF Listed

LEMMA ListedLen ==
  ASSUME NEW s, Listed(s)
  PROVE  Len(s) \in Nat /\ DOMAIN s = 1 .. Len(s)
BY DEF Listed

LEMMA ListedConcat ==
  ASSUME NEW s, NEW t, Listed(s), Listed(t)
  PROVE  /\ Listed(s \o t)
         /\ Len(s) \in Nat
         /\ \A b : \A i \in Shown(b, s \o t) :
              \/ i \in Shown(b, s) /\ i <= Len(s)
              \/ i - Len(s) \in Shown(b, t) /\ i > Len(s)
<1> DEFINE S == {s[i] : i \in DOMAIN s} \union {t[i] : i \in DOMAIN t}
<1>1. s \in Seq(S) /\ t \in Seq(S)
  BY DEF Listed
<1> HIDE DEF S
<1>2. /\ s \o t \in Seq(S) /\ Len(s \o t) = Len(s) + Len(t)
      /\ Len(s) \in Nat /\ Len(t) \in Nat
      /\ DOMAIN s = 1 .. Len(s) /\ DOMAIN t = 1 .. Len(t)
      /\ DOMAIN (s \o t) = 1 .. Len(s) + Len(t)
  BY <1>1
<1>3. \A i \in 1 .. Len(s) + Len(t) : (s \o t)[i] = IF i <= Len(s) THEN s[i] ELSE t[i - Len(s)]
  BY <1>1, ConcatProperties
<1>4. Listed(s \o t)
  BY <1>2, ListedSeq
<1>5. ASSUME NEW b, NEW i \in Shown(b, s \o t)
      PROVE  \/ i \in Shown(b, s) /\ i <= Len(s)
             \/ i - Len(s) \in Shown(b, t) /\ i > Len(s)
  <2>1. /\ i \in 1 .. Len(s) + Len(t)
        /\ (s \o t)[i].of = b
    BY <1>2, <1>5 DEF Shown
  <2>2. CASE i <= Len(s)
    <3>1. i \in DOMAIN s /\ (s \o t)[i] = s[i]
      BY <1>2, <1>3, <2>1, <2>2
    <3> QED BY <2>1, <2>2, <3>1 DEF Shown
  <2>3. CASE i > Len(s)
    <3>1. i - Len(s) \in DOMAIN t /\ (s \o t)[i] = t[i - Len(s)]
      BY <1>2, <1>3, <2>1, <2>3
    <3> QED BY <2>1, <2>3, <3>1 DEF Shown
  <2> QED BY <1>2, <2>1, <2>2, <2>3
<1> QED BY <1>2, <1>4, <1>5

LEMMA ListedNewest ==
  ASSUME NEW s, Listed(s)
  PROVE  /\ Listed(NewestEvidence(s))
         /\ \E k \in Nat : \A b : \A i \in Shown(b, NewestEvidence(s)) :
              i \in Nat /\ i + k \in Shown(b, s)
<1> DEFINE m == IF Len(s) > EvidenceCap THEN Len(s) - EvidenceCap + 1 ELSE 1
           n == Len(s)
           S == {s[i] : i \in DOMAIN s}
<1>1. s \in Seq(S)
  BY DEF Listed
<1>2. n \in Nat /\ DOMAIN s = 1 .. n
  BY <1>1
<1>3. EvidenceCap \in Nat /\ EvidenceCap > 0
  BY LoopAssumption
<1>4. m \in 1 .. n + 1
  BY <1>2, <1>3
<1>5. NewestEvidence(s) = SubSeq(s, m, n)
  BY DEF NewestEvidence
<1>6. \A i \in m .. n : s[i] \in S
  BY <1>2, <1>4
<1> HIDE DEF m, S
<1>7. /\ SubSeq(s, m, n) \in Seq(S)
      /\ Len(SubSeq(s, m, n)) = IF m <= n THEN n - m + 1 ELSE 0
      /\ \A i \in 1 .. n - m + 1 : SubSeq(s, m, n)[i] = s[m + i - 1]
  <2>1. m \in Int /\ n \in Int
    BY <1>2, <1>4
  <2> HIDE DEF n
  <2> QED BY <1>6, <2>1, SubSeqProperties
<1> HIDE DEF n
<1>8. Listed(NewestEvidence(s)) /\ DOMAIN NewestEvidence(s) = 1 .. n - m + 1
  <2>1. (IF m <= n THEN n - m + 1 ELSE 0) = n - m + 1
    BY <1>2, <1>4
  <2> QED BY <1>5, <1>7, <2>1, ListedSeq
<1>9. ASSUME NEW b, NEW i \in Shown(b, NewestEvidence(s))
      PROVE  i \in Nat /\ i + (m - 1) \in Shown(b, s)
  <2>1. i \in 1 .. n - m + 1 /\ NewestEvidence(s)[i].of = b
    BY <1>8, <1>9 DEF Shown
  <2>2. NewestEvidence(s)[i] = s[i + (m - 1)]
    <3>1. m + i - 1 = i + (m - 1)
      BY <1>4, <2>1
    <3> QED BY <1>5, <1>7, <2>1, <3>1
  <2>3. i + (m - 1) \in DOMAIN s /\ i \in Nat
    BY <1>2, <1>4, <2>1
  <2> QED BY <2>1, <2>2, <2>3 DEF Shown
<1>10. m - 1 \in Nat
  BY <1>4, <1>2
<1> QED BY <1>8, <1>9, <1>10

LEMMA FreshShown ==
  ASSUME CrewInv, NEW c \in Cycles, NEW w
  PROVE  /\ Listed(Fresh(c, w))
         /\ \A b \in Cycles : \A i \in Shown(b, Fresh(c, w)) : b = c /\ i = 1
<1> DEFINE own == IF w > 0 THEN <<[of |-> c, weight |-> w]>> ELSE <<>>
           n == Cardinality(Queued("bad"))
           theirs == [i \in 1 .. n |-> [of |-> 0, weight |-> 2]]
<1>1. n \in Nat
  <2>1. IsFiniteSet(Cycles)
    BY FS_Interval, LoopAssumption DEF Cycles
  <2> QED BY <2>1, FS_Subset, FS_CardinalityType DEF Queued
<1>2. Fresh(c, w) = own \o theirs
  BY DEF Fresh, Critics
<1> HIDE DEF n
<1>3. Listed(own) /\ (own = <<>> \/ (Len(own) = 1 /\ own[1].of = c))
  <2> DEFINE e == [of |-> c, weight |-> w]
  <2>1. e.of = c
    OBVIOUS
  <2>2. own = <<>> \/ own = <<e>>
    BY DEF own
  <2> HIDE DEF own, e
  <2>3. <<>> \in Seq({}) /\ <<e>> \in Seq({e}) /\ <<e>>[1] = e /\ Len(<<e>>) = 1
    OBVIOUS
  <2>4. Listed(<<>>) /\ Listed(<<e>>)
    BY <2>3, ListedSeq
  <2> QED BY <2>1, <2>2, <2>3, <2>4
<1>4. Listed(theirs) /\ \A b \in Cycles : Shown(b, theirs) = {}
  <2> DEFINE S == {theirs[j] : j \in 1 .. n}
  <2>1. theirs \in [1 .. n -> S]
    OBVIOUS
  <2>2. \A i \in DOMAIN theirs : theirs[i].of = 0
    OBVIOUS
  <2> HIDE DEF theirs, S
  <2>3. theirs \in Seq(S)
    BY <1>1, <2>1
  <2>4. Listed(theirs)
    BY <2>3, ListedSeq
  <2> QED BY <2>2, <2>4 DEF Shown, Cycles
<1> HIDE DEF theirs
<1>5. \A b : \A i \in Shown(b, own) : b = c /\ i = 1
  <2>1. own = <<>> => DOMAIN own = {}
    OBVIOUS
  <2> HIDE DEF own
  <2>2. Len(own) = 1 => DOMAIN own = {1}
    BY <1>3, ListedLen
  <2> QED BY <1>3, <2>1, <2>2 DEF Shown
<1> HIDE DEF own
<1>6. ASSUME NEW b \in Cycles, NEW i \in Shown(b, Fresh(c, w)) PROVE b = c /\ i = 1
  <2>1. i \in Shown(b, own) \/ i - Len(own) \in Shown(b, theirs)
    BY <1>2, <1>3, <1>4, ListedConcat
  <2> QED BY <1>4, <1>5, <2>1
<1>7. Listed(Fresh(c, w))
  BY <1>2, <1>3, <1>4, ListedConcat
<1> QED BY <1>6, <1>7

-----------------------------------------------------------------------------
(* The ledger.                                                             *)

LEMMA LedgerCounts == IsFiniteSet(Recorded) /\ NextNo \in Nat
<1>1. IsFiniteSet(Cycles)
  BY FS_Interval, LoopAssumption DEF Cycles
<1>2. IsFiniteSet(Recorded)
  BY <1>1, FS_Subset DEF Recorded
<1> QED BY <1>2, FS_CardinalityType DEF NextNo

Ledger == Straight /\ LedgerIsStraight

(* No cycle enters or leaves the ledger.                                   *)
LEMMA LedgerStays ==
  ASSUME Shapes, Ledger, UNCHANGED <<running, alone>>, Recorded' = Recorded,
         UnderWay' = UnderWay,
         \A c \in Cycles : cycle'[c].no = cycle[c].no
                                /\ (cycle[c].pc = "lost" => cycle'[c].pc = "lost")
  PROVE  Ledger'
<1>1. NextNo' = NextNo
  BY DEF NextNo
<1>2. UnderWay \subseteq Cycles /\ Recorded \subseteq Cycles
  BY DEF UnderWay, Recorded
<1>3. Straight'
  BY <1>1, <1>2 DEF Ledger, Straight
<1>4. alone => NumberedOnce' /\ FlagIsTrue'
  BY <1>2 DEF Ledger, LedgerIsStraight, NumberedOnce, FlagIsTrue
<1> QED BY <1>3, <1>4 DEF Ledger, LedgerIsStraight

LEMMA LedgerBegins ==
  ASSUME Shapes, Ledger, NEW c \in Cycles, NEW text,
         Begin(c, text)
  PROVE  Ledger'
<1>1. /\ cycle' = [cycle EXCEPT ![c] = [pc |-> "executing", no |-> NextNo, text |-> text]]
      /\ cycle[c].pc = "none" /\ running' = TRUE
      /\ alone' = (alone /\ UnderWay = {})
  BY DEF Begin, IsNext
<1>2. /\ cycle'[c].pc = "executing" /\ cycle'[c].no = NextNo
      /\ \A d \in Cycles : d # c => cycle'[d] = cycle[d]
  BY <1>1 DEF Shapes
<1>3. /\ Recorded' = Recorded /\ UnderWay' = UnderWay \union {c}
      /\ c \notin Recorded
      /\ Recorded \subseteq Cycles
  BY <1>1, <1>2 DEF Recorded, UnderWay
<1>4. NextNo' = NextNo
  BY <1>3 DEF NextNo
<1>5. alone' => alone /\ UnderWay' = {c}
  BY <1>1, <1>3
<1>6. Straight'
  BY <1>2, <1>3, <1>4, <1>5 DEF Ledger, Straight
<1>7. alone' => NumberedOnce' /\ FlagIsTrue'
  <2>1. alone => NumberedOnce'
    BY <1>2, <1>3 DEF Ledger, LedgerIsStraight, NumberedOnce
  <2>2. FlagIsTrue'
    BY <1>1, <1>3 DEF FlagIsTrue
  <2> QED BY <1>5, <2>1, <2>2
<1> QED BY <1>6, <1>7 DEF Ledger, LedgerIsStraight

LEMMA LedgerEnters ==
  ASSUME Shapes, Ledger, NEW c \in Cycles, NEW end,
         end \in {"ran", "aborted"}, cycle[c].pc \in {"executing", "sealing"},
         Enter(c, end)
  PROVE  Ledger'
<1>1. /\ cycle' = [cycle EXCEPT ![c].pc = end] /\ running' = FALSE /\ alone' = alone
  BY DEF Enter
<1>2. /\ cycle'[c].pc = end /\ cycle'[c].no = cycle[c].no
      /\ \A d \in Cycles : d # c => cycle'[d] = cycle[d]
  BY <1>1 DEF Shapes, Cycle
<1>3. /\ Recorded' = Recorded \union {c} /\ UnderWay' = UnderWay \ {c}
      /\ c \notin Recorded /\ c \in UnderWay
      /\ Recorded \subseteq Cycles
  BY <1>2 DEF Recorded, UnderWay
<1>4. NextNo' = NextNo + 1 /\ NextNo \in Nat
  BY <1>3, LedgerCounts, FS_AddElement, FS_CardinalityType DEF NextNo
<1>5. SUFFICES ASSUME alone PROVE Straight' /\ NumberedOnce' /\ FlagIsTrue'
  BY <1>1 DEF Ledger, Straight, LedgerIsStraight
<1>6. /\ UnderWay' = {} /\ cycle[c].no = NextNo
      /\ \A d \in Recorded : cycle[d].no < NextNo /\ cycle[d].no \in Nat
  BY <1>3, <1>5 DEF Ledger, Straight, Shapes, Cycle
<1>7. \A d \in Recorded : cycle'[d].no < cycle'[c].no /\ cycle'[d].no = cycle[d].no
                               /\ cycle'[d].no \in Nat
  BY <1>2, <1>3, <1>6
<1>8. Straight'
  BY <1>2, <1>3, <1>4, <1>6, <1>7 DEF Straight
<1>9. NumberedOnce'
  <2>1. cycle'[c].no \in Nat
    BY <1>2, <1>4, <1>6
  <2>2. ASSUME NEW a \in Recorded', NEW b \in Recorded', a # b
        PROVE  cycle'[a].no # cycle'[b].no
    <3>1. CASE a \in Recorded /\ b \in Recorded
      BY <1>5, <1>7, <2>2, <3>1 DEF Ledger, LedgerIsStraight, NumberedOnce
    <3>2. CASE a = c \/ b = c
      BY <1>3, <1>7, <2>1, <2>2, <3>2
    <3> QED BY <1>3, <3>1, <3>2
  <2> QED BY <2>2 DEF NumberedOnce
<1>10. FlagIsTrue'
  BY <1>1, <1>6 DEF FlagIsTrue
<1> QED BY <1>8, <1>9, <1>10

LEMMA LedgerRestarts ==
  ASSUME Shapes, Ledger, RestartLoop
  PROVE  Ledger'
<1>1. /\ UNCHANGED <<running, alone>>
      /\ cycle' = [c \in Cycles |->
                     IF c \in UnderWay THEN [cycle[c] EXCEPT !.pc = "lost"] ELSE cycle[c]]
  BY DEF RestartLoop
<1>2. \A c \in Cycles : /\ cycle'[c].no = cycle[c].no
                        /\ c \in UnderWay => cycle'[c].pc = "lost"
                        /\ c \notin UnderWay => cycle'[c].pc = cycle[c].pc
  BY <1>1 DEF Shapes, Cycle
<1>3. Recorded' = Recorded /\ UnderWay' = {}
      /\ Recorded \subseteq Cycles /\ UnderWay \subseteq Cycles
  BY <1>2 DEF Recorded, UnderWay
<1>4. NextNo' = NextNo
  BY <1>3 DEF NextNo
<1>5. Straight'
  BY <1>1, <1>2, <1>3, <1>4 DEF Ledger, Straight
<1>6. alone => NumberedOnce' /\ FlagIsTrue'
  BY <1>1, <1>2, <1>3 DEF Ledger, LedgerIsStraight, NumberedOnce, FlagIsTrue
<1> QED BY <1>1, <1>5, <1>6 DEF Ledger, LedgerIsStraight

LEMMA StepLedger ==
  ASSUME Shapes, Ledger, [CrewNext]_crewVars
  PROVE  Ledger'
<1>1. CASE UNCHANGED <<cycle, running, alone>>
  BY <1>1, LedgerStays DEF Recorded, UnderWay
<1>2. ASSUME NEW c \in Cycles, Adapt(c) PROVE Ledger'
  <2>1. /\ cycle[c].pc = "executing" /\ UNCHANGED <<running, alone>>
        /\ cycle' = [cycle EXCEPT ![c].pc = "sealing"]
    BY <1>2 DEF Adapt
  <2>2. /\ cycle'[c].pc = "sealing" /\ cycle'[c].no = cycle[c].no
        /\ \A d \in Cycles : d # c => cycle'[d] = cycle[d]
    BY <2>1 DEF Shapes, Cycle
  <2>3. Recorded' = Recorded /\ UnderWay' = UnderWay
    BY <2>1, <2>2 DEF Recorded, UnderWay
  <2> QED BY <2>1, <2>2, <2>3, LedgerStays
<1>3. ASSUME NEW c \in Cycles, StartCycle(c) \/ \E b \in Cycles : Again(c, b)
      PROVE  Ledger'
  BY <1>3, LedgerBegins DEF StartCycle, Again
<1>4. ASSUME NEW c \in Cycles, Abort(c) \/ Record(c) \/ SealFails(c)
      PROVE  Ledger'
  BY <1>4, LedgerEnters DEF Abort, Record, SealFails
<1>5. CASE RestartLoop
  BY <1>5, LedgerRestarts
<1>6. ASSUME NEW c \in Cycles, Rate(c) \/ Accept(c) \/ RejectCandidate(c)
      PROVE  Ledger'
  BY <1>1, <1>6 DEF Rate, Accept, RejectCandidate, loopVars
<1> QED BY <1>1, <1>2, <1>3, <1>4, <1>5, <1>6 DEF CrewNext, crewVars, loopVars

-----------------------------------------------------------------------------
(* The evidence.                                                           *)

(* Each list stays where it is, is forgotten, or is the store's, which     *)
(* has moved; only the fold of c adds to it, and for the first time.       *)
LEMMA EvidenceMoves ==
  ASSUME CrewInv, NEW c \in Cycles, Unfolded(c), NEW w,
         NEW home \in 0 .. NumCycles,
         Kept(home)' = NewestEvidence(seat.evidence \o Fresh(c, w)),
         \A d \in 0 .. NumCycles :
           \/ d = home
           \/ d # 0 /\ Kept(d)' = Kept(d)
           \/ \A b : Shown(b, Kept(d)') = {}
  PROVE  \A b \in Cycles :
           /\ \A d, e \in 0 .. NumCycles :
                \A i \in Shown(b, Kept(d)'), j \in Shown(b, Kept(e)') :
                  d = e /\ i = j
           /\ b # c => \A d \in 0 .. NumCycles :
                Shown(b, Kept(d)') # {} =>
                  \E e \in 0 .. NumCycles : Shown(b, Kept(e)) # {}
<1> DEFINE old == seat.evidence
           all == old \o Fresh(c, w)
           new == NewestEvidence(all)
<1>1. Listed(old) /\ Listed(Fresh(c, w))
  BY FreshShown DEF CrewInv, Shapes, SeatShape
<1>2. /\ Listed(all) /\ Len(old) \in Nat
      /\ \A b \in Cycles : \A i \in Shown(b, all) :
           \/ i \in Shown(b, old) /\ i <= Len(old)
           \/ b = c /\ i = Len(old) + 1
  <2> HIDE DEF old
  <2>1. \A b : \A i \in Shown(b, all) :
           \/ i \in Shown(b, old) /\ i <= Len(old)
           \/ i - Len(old) \in Shown(b, Fresh(c, w)) /\ i > Len(old)
    BY <1>1, ListedConcat
  <2>2. \A b \in Cycles : \A i \in Shown(b, Fresh(c, w)) : b = c /\ i = 1
    BY FreshShown
  <2>3. Listed(all) /\ Len(old) \in Nat
    BY <1>1, ListedConcat
  <2>4. \A b : \A i \in Shown(b, all) : i \in Nat
    BY <2>3, ListedLen DEF Shown
  <2> QED BY <2>1, <2>2, <2>3, <2>4
<1>3. PICK k \in Nat : \A b : \A i \in Shown(b, new) : i \in Nat /\ i + k \in Shown(b, all)
  <2> HIDE DEF all
  <2> QED BY <1>2, ListedNewest
<1>4. Kept(0) = old /\ Kept(home)' = new /\ 0 \in 0 .. NumCycles
  BY LoopAssumption DEF Kept
<1> HIDE DEF old, all, new
<1>5. \A d \in 0 .. NumCycles : Shown(c, Kept(d)) = {}
  BY DEF CrewInv, NotYet
<1>6. ASSUME NEW b \in Cycles, NEW d \in 0 .. NumCycles, NEW e \in 0 .. NumCycles,
             NEW i \in Shown(b, Kept(d)), NEW j \in Shown(b, Kept(e))
      PROVE  d = e /\ i = j
  BY <1>6 DEF CrewInv, EvidenceSpentOnce
<1>7. ASSUME NEW b \in Cycles, NEW d \in 0 .. NumCycles, NEW i \in Shown(b, Kept(d)')
      PROVE  \/ d = home /\ i \in Nat /\ b # c /\ i + k \in Shown(b, Kept(0))
             \/ d = home /\ i \in Nat /\ b = c /\ i + k = Len(old) + 1
             \/ d # home /\ d # 0 /\ b # c /\ i \in Shown(b, Kept(d))
  <2>1. CASE d = home
    <3>1. i \in Nat /\ i + k \in Shown(b, all)
      BY <1>3, <1>4, <1>7, <2>1
    <3>2. i + k \in Shown(b, old) \/ (b = c /\ i + k = Len(old) + 1)
      BY <1>2, <3>1
    <3> QED BY <1>4, <1>5, <2>1, <3>1, <3>2
  <2>2. CASE d # home
    <3>1. d # 0 /\ Kept(d)' = Kept(d)
      BY <1>7, <2>2
    <3> QED BY <1>5, <1>7, <2>2, <3>1
  <2> QED BY <2>1, <2>2
<1>8. ASSUME NEW b \in Cycles, NEW d \in 0 .. NumCycles, NEW e \in 0 .. NumCycles,
             NEW i \in Shown(b, Kept(d)'), NEW j \in Shown(b, Kept(e)')
      PROVE  d = e /\ i = j
  <2>1. CASE b = c
    <3>1. d = home /\ e = home /\ i \in Nat /\ j \in Nat
          /\ i + k = Len(old) + 1 /\ j + k = Len(old) + 1
      BY <1>7, <2>1
    <3> QED BY <1>2, <3>1
  <2>2. CASE b # c /\ d = home /\ e = home
    <3>1. /\ i \in Nat /\ i + k \in Shown(b, Kept(0))
          /\ j \in Nat /\ j + k \in Shown(b, Kept(0))
      BY <1>7, <2>2
    <3>2. i + k = j + k
      BY <1>4, <1>6, <3>1
    <3> QED BY <2>2, <3>1, <3>2
  <2>3. CASE b # c /\ d # home /\ e # home
    BY <1>6, <1>7, <2>3
  <2>4. CASE b # c /\ ((d = home /\ e # home) \/ (d # home /\ e = home))
    BY <1>4, <1>6, <1>7, <2>4
  <2> QED BY <2>1, <2>2, <2>3, <2>4
<1>9. ASSUME NEW b \in Cycles, b # c, NEW d \in 0 .. NumCycles,
             Shown(b, Kept(d)') # {}
      PROVE  \E e \in 0 .. NumCycles : Shown(b, Kept(e)) # {}
  <2>1. PICK i \in Shown(b, Kept(d)') : TRUE
    BY <1>9
  <2> QED BY <1>4, <1>7, <1>9, <2>1
<1> QED BY <1>8, <1>9

-----------------------------------------------------------------------------
(* What a fold does: the store's evidence goes on, or becomes a candidate. *)

FoldsInto(c, w, f) ==
  /\ f.evidence = NewestEvidence(seat.evidence \o Fresh(c, w))
  /\ f.suppressed = Suppressed(c)
  /\ f = [runs |-> f.runs, realRuns |-> f.realRuns, evidence |-> f.evidence,
          suppressed |-> f.suppressed, pending |-> f.pending]
  /\ DOMAIN f.pending = Cycles

GoesOn(f) == seat' = f /\ UNCHANGED candidates
BecomesCandidate(c, f) ==
  /\ Due(f)
  /\ seat' = [f EXCEPT !.evidence = <<>>]
  /\ \E what \in {"automatic", "proposed"} :
       candidates' = [candidates EXCEPT ![c] =
         [status |-> what, baseline |-> cycle[c].text, evidence |-> f.evidence]]

LEMMA AdaptShows ==
  ASSUME NEW c \in Cycles, Adapt(c)
  PROVE  /\ cycle[c].pc = "executing" /\ cycle' = [cycle EXCEPT ![c].pc = "sealing"]
         /\ crew' = crew
         /\ sincePraise' = IF Queued("praise") # {} THEN 1
                           ELSE UpTo(sincePraise + 1, PraiseRuns + 1)
         /\ \E w, f : FoldsInto(c, w, f) /\ (GoesOn(f) \/ BecomesCandidate(c, f))
<1>1. PICK w \in Weights, real \in BOOLEAN, passes \in BOOLEAN :
        LET f == Folded(c, w, real) IN
          IF Due(f)
          THEN /\ seat' = Spent(f)
               /\ candidates' = [candidates EXCEPT ![c] =
                    [status |-> IF mode = "AUTONOMOUS" /\ passes THEN "automatic" ELSE "proposed",
                     baseline |-> cycle[c].text, evidence |-> f.evidence]]
          ELSE seat' = f /\ UNCHANGED candidates
  BY DEF Adapt
<1> DEFINE f == Folded(c, w, real)
<1>2. FoldsInto(c, w, f)
  BY DEF FoldsInto, Folded
<1>3. GoesOn(f) \/ BecomesCandidate(c, f)
  <2> HIDE DEF f
  <2>1. CASE Due(f)
    BY <1>1, <2>1 DEF BecomesCandidate, Spent, f
  <2>2. CASE ~Due(f)
    BY <1>1, <2>2 DEF GoesOn, f
  <2> QED BY <2>1, <2>2
<1> HIDE DEF f
<1>4. \E v, g : FoldsInto(c, v, g) /\ (GoesOn(g) \/ BecomesCandidate(c, g))
  BY <1>2, <1>3
<1> QED BY <1>4 DEF Adapt

LEMMA ShapesOfCycles ==
  ASSUME Shapes, crew' \in Text,
         \/ \E c \in Cycles, text \in Text : Begin(c, text)
         \/ \E c \in Cycles, pc \in {"ran", "aborted", "sealing"} :
              cycle' = [cycle EXCEPT ![c].pc = pc]
         \/ RestartLoop
         \/ cycle' = cycle
  PROVE  cycle' \in [Cycles -> Cycle]
<1>1. ASSUME NEW c \in Cycles, NEW text \in Text, Begin(c, text)
      PROVE  cycle' \in [Cycles -> Cycle]
  <2>1. [pc |-> "executing", no |-> NextNo, text |-> text] \in Cycle
    BY LedgerCounts DEF Cycle
  <2> QED BY <1>1, <2>1 DEF Begin, Shapes
<1>2. ASSUME NEW c \in Cycles, NEW pc \in {"ran", "aborted", "sealing"},
             cycle' = [cycle EXCEPT ![c].pc = pc]
      PROVE  cycle' \in [Cycles -> Cycle]
  BY <1>2 DEF Shapes, Cycle
<1>3. CASE RestartLoop
  <2>1. \A c \in Cycles : [cycle[c] EXCEPT !.pc = "lost"] \in Cycle
    BY DEF Shapes, Cycle
  <2> QED BY <1>3, <2>1 DEF RestartLoop, Shapes
<1>4. CASE cycle' = cycle
  BY <1>4 DEF Shapes
<1> QED BY <1>1, <1>2, <1>3, <1>4

LEMMA ShapesAdapted ==
  ASSUME CrewInv, NEW c \in Cycles, Adapt(c)
  PROVE  Shapes'
<1>1. /\ cycle' = [cycle EXCEPT ![c].pc = "sealing"] /\ crew' = crew
      /\ sincePraise' = IF Queued("praise") # {} THEN 1
                        ELSE UpTo(sincePraise + 1, PraiseRuns + 1)
  BY AdaptShows
<1>2. PICK w, f : FoldsInto(c, w, f) /\ (GoesOn(f) \/ BecomesCandidate(c, f))
  BY AdaptShows
<1>3. Shapes
  BY DEF CrewInv
<1>4. PraiseRuns \in Nat
  BY LoopAssumption
<1>5. Listed(f.evidence)
  BY <1>2, <1>3, FreshShown, ListedConcat, ListedNewest DEF FoldsInto, Shapes, SeatShape
<1>6. f.suppressed \in 0 .. PraiseRuns /\ sincePraise' \in 0 .. PraiseRuns + 1
  BY <1>1, <1>2, <1>3, <1>4 DEF FoldsInto, Shapes, SeatShape, Suppressed, UpTo
<1>7. Listed(<<>>)
  <2>1. <<>> \in Seq({})
    OBVIOUS
  <2> QED BY <2>1, ListedSeq
<1>8. SeatShape' /\ CandidateShape'
  <2>1. CASE GoesOn(f)
    BY <1>2, <1>3, <1>5, <1>6, <2>1 DEF GoesOn, FoldsInto, Shapes, SeatShape, CandidateShape
  <2>2. CASE BecomesCandidate(c, f)
    <3> DEFINE g == [f EXCEPT !.evidence = <<>>]
    <3>1. /\ g.evidence = <<>> /\ g.suppressed = f.suppressed /\ g.pending = f.pending
          /\ g = [runs |-> g.runs, realRuns |-> g.realRuns, evidence |-> g.evidence,
                  suppressed |-> g.suppressed, pending |-> g.pending]
      BY <1>2 DEF FoldsInto
    <3>2. seat' = g
      BY <2>2 DEF BecomesCandidate
    <3> HIDE DEF g
    <3>3. SeatShape'
      BY <1>2, <1>6, <1>7, <3>1, <3>2 DEF SeatShape, FoldsInto
    <3>4. PICK s : candidates' = [candidates EXCEPT ![c] =
                     [status |-> s, baseline |-> cycle[c].text, evidence |-> f.evidence]]
      BY <2>2 DEF BecomesCandidate
    <3>5. cycle[c].text \in Text
      BY <1>3 DEF Shapes, Cycle
    <3> DEFINE x == [status |-> s, baseline |-> cycle[c].text, evidence |-> f.evidence]
    <3>6. x = [status |-> x.status, baseline |-> x.baseline, evidence |-> x.evidence]
          /\ x.baseline \in Text
      BY <3>5
    <3>7. candidates' = [candidates EXCEPT ![c] = x]
      BY <3>4
    <3> HIDE DEF x
    <3>8. CandidateShape'
      BY <1>3, <3>6, <3>7 DEF CandidateShape, Shapes
    <3> QED BY <3>3, <3>8
  <2> QED BY <1>2, <2>1, <2>2
<1>9. crew' \in Text /\ cycle' \in [Cycles -> Cycle]
  BY <1>1, <1>3, ShapesOfCycles DEF Shapes
<1> QED BY <1>8, <1>9 DEF Shapes

(* The other steps leave the store's evidence and the candidates' records  *)
(* alone: they rate, decide, or move a cycle.                              *)
LEMMA ShapesRated ==
  ASSUME Shapes, NEW c \in Cycles, Rate(c) \/ Accept(c) \/ RejectCandidate(c)
  PROVE  /\ Shapes'
         /\ \A d \in 0 .. NumCycles : Kept(d)' = Kept(d)
         /\ seat'.suppressed = seat.suppressed /\ sincePraise' = sincePraise
         /\ cycle' = cycle
         /\ \A d \in Cycles :
              \/ candidates'[d].status = candidates[d].status
              \/ /\ candidates[d].status = "proposed"
                 /\ candidates'[d].status \in {"accepted", "rejected"}
<1>1. CASE Rate(c)
  <2>1. PICK r : seat' = [seat EXCEPT !.pending[c] = r]
    BY <1>1 DEF Rate
  <2>2. /\ seat'.runs = seat.runs /\ seat'.realRuns = seat.realRuns
        /\ seat'.evidence = seat.evidence /\ seat'.suppressed = seat.suppressed
        /\ DOMAIN seat'.pending = Cycles
        /\ seat' = [runs |-> seat'.runs, realRuns |-> seat'.realRuns, evidence |-> seat'.evidence,
                    suppressed |-> seat'.suppressed, pending |-> seat'.pending]
    BY <2>1 DEF Shapes, SeatShape
  <2>3. UNCHANGED <<cycle, candidates, crew, sincePraise>>
    BY <1>1 DEF Rate, loopVars
  <2> QED BY <2>2, <2>3 DEF Shapes, SeatShape, CandidateShape, Kept
<1>2. CASE Accept(c) \/ RejectCandidate(c)
  <2>1. PICK what \in {"accepted", "rejected"} : candidates' = [candidates EXCEPT ![c].status = what]
    BY <1>2 DEF Accept, RejectCandidate
  <2>2. /\ candidates[c].status = "proposed" /\ UNCHANGED <<cycle, seat, sincePraise>>
        /\ crew' = crew \/ crew' = Append(candidates[c].baseline, c)
    BY <1>2 DEF Accept, RejectCandidate, Corrected, loopVars
  <2>3. \A d \in Cycles :
          /\ candidates'[d].baseline = candidates[d].baseline
          /\ candidates'[d].evidence = candidates[d].evidence
          /\ candidates'[d].status = IF d = c THEN what ELSE candidates[d].status
          /\ candidates'[d] = [status |-> candidates'[d].status, baseline |-> candidates'[d].baseline,
                               evidence |-> candidates'[d].evidence]
    BY <2>1 DEF Shapes, CandidateShape
  <2>4. CandidateShape' /\ SeatShape'
    BY <2>1, <2>2, <2>3 DEF Shapes, CandidateShape, SeatShape
  <2>5. crew' \in Text
    <3>1. candidates[c].baseline \in Text /\ crew \in Text
      BY DEF Shapes, CandidateShape
    <3>2. Append(candidates[c].baseline, c) \in Text
      BY <3>1, AppendProperties DEF Text
    <3> QED BY <2>2, <3>1, <3>2
  <2>6. Shapes'
    BY <2>2, <2>4, <2>5 DEF Shapes
  <2>7. \A d \in 0 .. NumCycles : Kept(d)' = Kept(d)
    <3>1. \A d \in 0 .. NumCycles : d # 0 => d \in Cycles
      BY DEF Cycles
    <3> QED BY <2>2, <2>3, <3>1 DEF Kept
  <2> QED BY <2>2, <2>3, <2>6, <2>7
<1> QED BY <1>1, <1>2

EvidenceInv == NotYet /\ EvidenceSpentOnce

LEMMA EvidenceStays ==
  ASSUME EvidenceInv, \A d \in 0 .. NumCycles : Kept(d)' = Kept(d),
         \A c \in Cycles :
           /\ \/ candidates'[c].status = candidates[c].status
              \/ /\ candidates[c].status = "proposed"
                 /\ candidates'[c].status \in {"accepted", "rejected"}
           /\ Unfolded(c)' => Unfolded(c)
  PROVE  EvidenceInv'
<1>1. NotYet'
  BY DEF EvidenceInv, NotYet
<1>2. EvidenceSpentOnce'
  BY DEF EvidenceInv, EvidenceSpentOnce
<1> QED BY <1>1, <1>2 DEF EvidenceInv

LEMMA EvidenceAdapted ==
  ASSUME CrewInv, NEW c \in Cycles, Adapt(c)
  PROVE  EvidenceInv'
<1>1. cycle[c].pc = "executing" /\ cycle' = [cycle EXCEPT ![c].pc = "sealing"]
  BY AdaptShows
<1>2. PICK w, f : FoldsInto(c, w, f) /\ (GoesOn(f) \/ BecomesCandidate(c, f))
  BY AdaptShows
<1>3. Shapes /\ Unfolded(c) /\ NotYet /\ EvidenceSpentOnce
  BY <1>1 DEF CrewInv, Unfolded
<1>4. \A d \in Cycles : Unfolded(d)' <=> d # c /\ Unfolded(d)
  BY <1>1, <1>3 DEF Shapes, Cycle, Unfolded
<1>5. /\ c # 0 /\ c \in 0 .. NumCycles /\ 0 \in 0 .. NumCycles
      /\ \A d \in 0 .. NumCycles : d # 0 => d \in Cycles
  BY LoopAssumption DEF Cycles
<1>6. \A b : Shown(b, <<>>) = {}
  BY DEF Shown
<1> DEFINE Once ==
      \A b \in Cycles :
        /\ \A d, e \in 0 .. NumCycles :
             \A i \in Shown(b, Kept(d)'), j \in Shown(b, Kept(e)') :
               d = e /\ i = j
        /\ b # c => \A d \in 0 .. NumCycles :
             Shown(b, Kept(d)') # {} =>
               \E e \in 0 .. NumCycles : Shown(b, Kept(e)) # {}
<1>7. ASSUME Once, \A d \in Cycles : d # c => candidates'[d].status = candidates[d].status,
             \A d \in Cycles : d # c /\ candidates[d].status = "proposed"
               => candidates'[c].status # "proposed"
      PROVE  EvidenceInv'
  <2>1. NotYet'
    BY <1>3, <1>4, <1>7 DEF NotYet
  <2>2. EvidenceSpentOnce'
    BY <1>3, <1>7 DEF EvidenceSpentOnce
  <2> QED BY <2>1, <2>2 DEF EvidenceInv
<1>8. CASE GoesOn(f)
  <2>1. Kept(0)' = NewestEvidence(seat.evidence \o Fresh(c, w))
    BY <1>2, <1>8 DEF GoesOn, FoldsInto, Kept
  <2>2. \A d \in 0 .. NumCycles : d # 0 => Kept(d)' = Kept(d)
    BY <1>8 DEF GoesOn, Kept
  <2>3. Once
    BY <1>3, <1>5, <2>1, <2>2, EvidenceMoves
  <2>4. candidates' = candidates /\ candidates[c].status = "none"
    BY <1>3, <1>8 DEF GoesOn, NotYet
  <2> HIDE DEF Once
  <2> QED BY <1>7, <2>3, <2>4
<1>9. CASE BecomesCandidate(c, f)
  <2>1. PICK what : candidates' = [candidates EXCEPT ![c] =
              [status |-> what, baseline |-> cycle[c].text, evidence |-> f.evidence]]
    BY <1>9 DEF BecomesCandidate
  <2>2. /\ candidates'[c].evidence = f.evidence
        /\ \A d \in Cycles : d # c => candidates'[d] = candidates[d]
    BY <1>3, <2>1 DEF Shapes, CandidateShape
  <2>3. seat'.evidence = <<>>
    BY <1>2, <1>9 DEF BecomesCandidate, FoldsInto
  <2>4. Kept(c)' = NewestEvidence(seat.evidence \o Fresh(c, w))
    BY <1>2, <1>5, <2>2 DEF Kept, FoldsInto
  <2>5. Kept(0)' = <<>>
    BY <2>3 DEF Kept
  <2>6. \A d \in 0 .. NumCycles : d # 0 /\ d # c => Kept(d)' = Kept(d)
    BY <1>5, <2>2 DEF Kept
  <2>7. Once
    BY <1>3, <1>5, <1>6, <2>4, <2>5, <2>6, EvidenceMoves
  <2>8. \A d \in Cycles : candidates[d].status # "proposed"
    BY <1>9 DEF BecomesCandidate, Due
  <2> HIDE DEF Once
  <2> QED BY <1>7, <2>2, <2>7, <2>8
<1> QED BY <1>2, <1>8, <1>9

LEMMA ArmedAdapted ==
  ASSUME CrewInv, NEW c \in Cycles, Adapt(c)
  PROVE  /\ Armed'
         /\ \A d \in Cycles :
              candidates[d].status = "none" /\ candidates'[d].status # "none"
                => sincePraise' > PraiseRuns
<1>1. sincePraise' = IF Queued("praise") # {} THEN 1
                     ELSE UpTo(sincePraise + 1, PraiseRuns + 1)
  BY AdaptShows
<1>2. PICK w, f : FoldsInto(c, w, f) /\ (GoesOn(f) \/ BecomesCandidate(c, f))
  BY AdaptShows
<1>3. /\ PraiseRuns \in Nat /\ seat.suppressed \in 0 .. PraiseRuns
      /\ sincePraise \in 0 .. PraiseRuns + 1 /\ seat.suppressed + sincePraise > PraiseRuns
  BY LoopAssumption DEF CrewInv, Shapes, SeatShape, Armed
<1>4. f.suppressed \in Nat /\ sincePraise' \in Nat /\ f.suppressed + sincePraise' > PraiseRuns
  BY <1>1, <1>2, <1>3 DEF FoldsInto, Suppressed, UpTo
<1>5. seat'.suppressed = f.suppressed
  BY <1>2 DEF GoesOn, BecomesCandidate, FoldsInto
<1>6. Armed'
  BY <1>4, <1>5 DEF Armed
<1>7. ASSUME NEW d \in Cycles, candidates[d].status = "none", candidates'[d].status # "none"
      PROVE  sincePraise' > PraiseRuns
  <2>1. Due(f)
    BY <1>2, <1>7 DEF GoesOn, BecomesCandidate
  <2>2. f.suppressed = 0
    BY <2>1 DEF Due
  <2>3. \A m, n \in Nat : m = 0 /\ m + n > PraiseRuns => n > PraiseRuns
    BY <1>3
  <2> QED BY <1>4, <2>2, <2>3
<1> QED BY <1>6, <1>7

-----------------------------------------------------------------------------
(* All of it together.                                                     *)

LEMMA InitCrew == CrewInit => CrewInv
<1> SUFFICES ASSUME CrewInit PROVE CrewInv
  OBVIOUS
<1>1. /\ \A c \in Cycles : cycle[c].pc = "none" /\ candidates[c].status = "none"
                                /\ candidates[c].evidence = <<>>
      /\ seat.evidence = <<>> /\ seat.suppressed = 0 /\ sincePraise = PraiseRuns + 1
  BY DEF CrewInit, NoCycle, NoCandidate, NewSeat
<1>2. Listed(<<>>)
  <2>1. <<>> \in Seq({})
    OBVIOUS
  <2> QED BY <2>1, ListedSeq
<1>3. <<>> \in Text
  BY DEF Text
<1>4. Shapes
  <2>1. [pc |-> "none", no |-> 0, text |-> <<>>] \in Cycle
    BY <1>3 DEF Cycle
  <2>2. cycle \in [Cycles -> Cycle] /\ crew \in Text
    BY <1>3, <2>1 DEF CrewInit, NoCycle
  <2>3. SeatShape
    BY <1>1, <1>2, LoopAssumption DEF CrewInit, NewSeat, SeatShape
  <2>4. CandidateShape
    BY <1>3 DEF CrewInit, NoCandidate, CandidateShape
  <2> QED BY <2>2, <2>3, <2>4 DEF Shapes
<1>5. UnderWay = {} /\ Recorded = {}
  BY <1>1 DEF UnderWay, Recorded
<1>6. Straight /\ LedgerIsStraight
  BY <1>5 DEF CrewInit, Straight, LedgerIsStraight, NumberedOnce, FlagIsTrue
<1>7. \A d \in 0 .. NumCycles : \A b : Shown(b, Kept(d)) = {}
  <2>1. \A d \in 0 .. NumCycles : Kept(d) = <<>>
    BY <1>1 DEF Kept, Cycles
  <2> QED BY <2>1 DEF Shown
<1>8. NotYet /\ EvidenceSpentOnce
  BY <1>1, <1>7 DEF NotYet, EvidenceSpentOnce
<1>9. Armed
  BY <1>1, LoopAssumption DEF Armed
<1> QED BY <1>4, <1>6, <1>8, <1>9 DEF CrewInv

(* A step that moves a cycle and touches nothing of the store.             *)
LEMMA CycleMoves ==
  ASSUME CrewInv, UNCHANGED <<seat, candidates, sincePraise>>,
         cycle' \in [Cycles -> Cycle], crew' \in Text,
         \A c \in Cycles : Unfolded(c)' => Unfolded(c)
  PROVE  Shapes' /\ EvidenceInv' /\ Armed'
<1>1. Shapes'
  BY DEF CrewInv, Shapes, SeatShape, CandidateShape
<1>2. EvidenceInv'
  BY EvidenceStays DEF CrewInv, EvidenceInv, Kept
<1>3. Armed'
  BY DEF CrewInv, Armed
<1> QED BY <1>1, <1>2, <1>3

LEMMA StepStore ==
  ASSUME CrewInv, [CrewNext]_crewVars
  PROVE  /\ Shapes' /\ EvidenceInv' /\ Armed'
         /\ \A d \in Cycles :
              candidates[d].status = "none" /\ candidates'[d].status # "none"
                => sincePraise' > PraiseRuns
<1>0. Shapes /\ crew \in Text /\ EvidenceInv /\ Armed
  BY DEF CrewInv, Shapes, EvidenceInv
<1>1. ASSUME UNCHANGED <<seat, candidates, sincePraise, crew>>,
             cycle' \in [Cycles -> Cycle],
             \A c \in Cycles : Unfolded(c)' => Unfolded(c)
      PROVE  /\ Shapes' /\ EvidenceInv' /\ Armed'
             /\ \A d \in Cycles :
                  candidates[d].status = "none" /\ candidates'[d].status # "none"
                    => sincePraise' > PraiseRuns
  BY <1>0, <1>1, CycleMoves
<1>2. CASE UNCHANGED crewVars
  BY <1>0, <1>1, <1>2 DEF crewVars, loopVars, evoVars, Unfolded, Shapes
<1>3. ASSUME NEW c \in Cycles, NEW text \in Text, Begin(c, text)
      PROVE  /\ Shapes' /\ EvidenceInv' /\ Armed'
             /\ \A d \in Cycles :
                  candidates[d].status = "none" /\ candidates'[d].status # "none"
                    => sincePraise' > PraiseRuns
  <2>1. /\ UNCHANGED <<seat, candidates, sincePraise, crew>> /\ cycle[c].pc = "none"
        /\ cycle' = [cycle EXCEPT ![c] = [pc |-> "executing", no |-> NextNo, text |-> text]]
    BY <1>3 DEF Begin, IsNext, evoVars
  <2>2. cycle' \in [Cycles -> Cycle]
    BY <1>0, <1>3, <2>1, ShapesOfCycles
  <2>3. \A d \in Cycles : Unfolded(d)' => Unfolded(d)
    BY <1>0, <2>1 DEF Shapes, Unfolded
  <2> QED BY <1>1, <2>1, <2>2, <2>3
<1>4. ASSUME NEW c \in Cycles, StartCycle(c) \/ \E b \in Cycles : Again(c, b)
      PROVE  \E text \in Text : Begin(c, text)
  <2>1. \A b \in Cycles : cycle[b].text \in Text
    BY <1>0 DEF Shapes, Cycle
  <2> QED BY <1>0, <1>4, <2>1 DEF StartCycle, Again
<1>5. ASSUME NEW c \in Cycles, Abort(c) \/ Record(c) \/ SealFails(c)
      PROVE  /\ Shapes' /\ EvidenceInv' /\ Armed'
             /\ \A d \in Cycles :
                  candidates[d].status = "none" /\ candidates'[d].status # "none"
                    => sincePraise' > PraiseRuns
  <2>1. PICK pc \in {"ran", "aborted"} : Enter(c, pc)
    BY <1>5 DEF Abort, Record, SealFails
  <2>2. UNCHANGED <<seat, candidates, sincePraise, crew>> /\ cycle' = [cycle EXCEPT ![c].pc = pc]
    BY <2>1 DEF Enter, evoVars
  <2>3. cycle' \in [Cycles -> Cycle]
    BY <1>0, <2>2, ShapesOfCycles
  <2>4. \A d \in Cycles : Unfolded(d)' => Unfolded(d)
    BY <1>0, <2>2 DEF Shapes, Cycle, Unfolded
  <2> QED BY <1>1, <2>2, <2>3, <2>4
<1>6. CASE RestartLoop
  <2>1. /\ UNCHANGED <<seat, candidates, sincePraise, crew>>
        /\ cycle' = [c \in Cycles |->
                       IF c \in UnderWay THEN [cycle[c] EXCEPT !.pc = "lost"] ELSE cycle[c]]
    BY <1>6 DEF RestartLoop, evoVars
  <2>2. cycle' \in [Cycles -> Cycle]
    BY <1>0, <1>6, <2>1, ShapesOfCycles
  <2>3. \A d \in Cycles : Unfolded(d)' => Unfolded(d)
    BY <1>0, <2>1 DEF Shapes, Cycle, Unfolded
  <2> QED BY <1>1, <2>1, <2>2, <2>3
<1>7. ASSUME NEW c \in Cycles, Rate(c) \/ Accept(c) \/ RejectCandidate(c)
      PROVE  /\ Shapes' /\ EvidenceInv' /\ Armed'
             /\ \A d \in Cycles :
                  candidates[d].status = "none" /\ candidates'[d].status # "none"
                    => sincePraise' > PraiseRuns
  <2>1. /\ Shapes'
        /\ \A d \in 0 .. NumCycles : Kept(d)' = Kept(d)
        /\ seat'.suppressed = seat.suppressed /\ sincePraise' = sincePraise
        /\ cycle' = cycle
        /\ \A d \in Cycles :
             \/ candidates'[d].status = candidates[d].status
             \/ /\ candidates[d].status = "proposed"
                /\ candidates'[d].status \in {"accepted", "rejected"}
    BY <1>0, <1>7, ShapesRated
  <2>2. EvidenceInv'
    BY <1>0, <2>1, EvidenceStays DEF Unfolded
  <2>3. Armed'
    BY <1>0, <2>1 DEF Armed
  <2> QED BY <2>1, <2>2, <2>3
<1>8. ASSUME NEW c \in Cycles, Adapt(c)
      PROVE  /\ Shapes' /\ EvidenceInv' /\ Armed'
             /\ \A d \in Cycles :
                  candidates[d].status = "none" /\ candidates'[d].status # "none"
                    => sincePraise' > PraiseRuns
  BY <1>8, ShapesAdapted, EvidenceAdapted, ArmedAdapted
<1> QED BY <1>2, <1>3, <1>4, <1>5, <1>6, <1>7, <1>8 DEF CrewNext

LEMMA StepCrew ==
  ASSUME CrewInv, [CrewNext]_crewVars
  PROVE  /\ CrewInv'
         /\ \A d \in Cycles :
              candidates[d].status = "none" /\ candidates'[d].status # "none"
                => sincePraise' > PraiseRuns
<1>1. Shapes /\ Ledger
  BY DEF CrewInv, Ledger
<1>2. Ledger'
  BY <1>1, StepLedger
<1> QED BY <1>2, StepStore DEF CrewInv, Ledger, EvidenceInv

-----------------------------------------------------------------------------
(* The types, which need none of the above.                                *)

LEMMA FreshTyped ==
  ASSUME NEW c \in Cycles, NEW w \in Weights
  PROVE  Fresh(c, w) \in Seq(Evidence)
<1> DEFINE own == IF w > 0 THEN <<[of |-> c, weight |-> w]>> ELSE <<>>
<1>1. own \in Seq(Evidence)
  <2>1. w \in Nat /\ c \in Cycles \union {0}
    BY LoopAssumption
  <2>2. w > 0 => [of |-> c, weight |-> w] \in Evidence
    BY <2>1 DEF Evidence
  <2> QED BY <2>2
<1>2. Critics \in Seq(Evidence)
  <2>1. IsFiniteSet(Cycles)
    BY FS_Interval, LoopAssumption DEF Cycles
  <2>2. Cardinality(Queued("bad")) \in Nat
    BY <2>1, FS_Subset, FS_CardinalityType DEF Queued
  <2>3. [of |-> 0, weight |-> 2] \in Evidence
    BY DEF Evidence
  <2> QED BY <2>2, <2>3 DEF Critics
<1>3. Fresh(c, w) = own \o Critics
  BY DEF Fresh
<1> HIDE DEF own
<1> QED BY <1>1, <1>2, <1>3, ConcatProperties

LEMMA NewestTyped ==
  ASSUME NEW s \in Seq(Evidence)
  PROVE  NewestEvidence(s) \in Seq(Evidence) /\ Len(NewestEvidence(s)) <= EvidenceCap
<1> DEFINE n == Len(s)
           m == IF n > EvidenceCap THEN n - EvidenceCap + 1 ELSE 1
<1>1. n \in Nat /\ EvidenceCap \in Nat /\ EvidenceCap > 0
  BY LoopAssumption
<1>2. m \in 1 .. n + 1 /\ n - m + 1 <= EvidenceCap
  BY <1>1
<1>3. \A i \in m .. n : s[i] \in Evidence
  BY <1>2
<1>4. NewestEvidence(s) = SubSeq(s, m, n)
  BY DEF NewestEvidence
<1> HIDE DEF m, n
<1>5. /\ SubSeq(s, m, n) \in Seq(Evidence)
      /\ Len(SubSeq(s, m, n)) = IF m <= n THEN n - m + 1 ELSE 0
  BY <1>1, <1>2, <1>3, SubSeqProperties
<1> QED BY <1>1, <1>2, <1>4, <1>5

LEMMA SeatOf ==
  ASSUME NEW runs \in 0 .. MinRuns, NEW realRuns \in 0 .. MinRealRuns, NEW list \in Seq(Evidence),
         NEW suppressed \in 0 .. PraiseRuns, NEW pending \in [Cycles -> Rating \union {"none"}]
  PROVE  [runs |-> runs, realRuns |-> realRuns, evidence |-> list, suppressed |-> suppressed,
          pending |-> pending] \in Seat
BY DEF Seat

LEMMA FoldedTyped ==
  ASSUME CrewTypeOK, NEW c \in Cycles, NEW w \in Weights, NEW real \in BOOLEAN
  PROVE  /\ Folded(c, w, real) \in Seat
         /\ Len(Folded(c, w, real).evidence) <= EvidenceCap
<1> DEFINE f == Folded(c, w, real)
<1>1. seat \in Seat /\ Fresh(c, w) \in Seq(Evidence)
  BY FreshTyped DEF CrewTypeOK
<1>2. seat.evidence \o Fresh(c, w) \in Seq(Evidence)
  BY <1>1, ConcatProperties DEF Seat
<1>3. f.evidence \in Seq(Evidence) /\ Len(f.evidence) <= EvidenceCap
  BY <1>2, NewestTyped DEF Folded
<1>4. f.runs \in 0 .. MinRuns /\ f.realRuns \in 0 .. MinRealRuns
  BY <1>1, LoopAssumption DEF Seat, Folded, UpTo
<1>5. f.suppressed \in 0 .. PraiseRuns
  BY <1>1, LoopAssumption DEF Seat, Folded, Suppressed
<1>6. f.pending \in [Cycles -> Rating \union {"none"}]
  BY DEF Folded
<1>7. f = [runs |-> f.runs, realRuns |-> f.realRuns, evidence |-> f.evidence,
           suppressed |-> f.suppressed, pending |-> f.pending]
  BY DEF Folded
<1>8. f \in Seat
  <2> HIDE DEF f
  <2> QED BY <1>3, <1>4, <1>5, <1>6, <1>7, SeatOf
<1> QED BY <1>3, <1>8

LEMMA CycleTyped ==
  ASSUME CrewTypeOK, [CrewNext]_crewVars
  PROVE  cycle' \in [Cycles -> Cycle]
<1>1. crew \in Text /\ cycle \in [Cycles -> Cycle]
  BY DEF CrewTypeOK
<1>2. ASSUME NEW c \in Cycles, NEW text \in Text, Begin(c, text)
      PROVE  cycle' \in [Cycles -> Cycle]
  <2>1. [pc |-> "executing", no |-> NextNo, text |-> text] \in Cycle
    BY LedgerCounts DEF Cycle
  <2> QED BY <1>1, <1>2, <2>1 DEF Begin
<1>3. ASSUME NEW c \in Cycles, StartCycle(c) \/ \E b \in Cycles : Again(c, b)
      PROVE  \E text \in Text : Begin(c, text)
  <2>1. \A b \in Cycles : cycle[b].text \in Text
    BY <1>1 DEF Cycle
  <2> QED BY <1>1, <1>3, <2>1 DEF StartCycle, Again
<1>4. ASSUME NEW c \in Cycles, Abort(c) \/ Record(c) \/ SealFails(c) \/ Adapt(c)
      PROVE  cycle' \in [Cycles -> Cycle]
  <2>1. \E pc \in {"ran", "aborted", "sealing"} : cycle' = [cycle EXCEPT ![c].pc = pc]
    BY <1>4 DEF Abort, Record, SealFails, Adapt, Enter
  <2> QED BY <1>1, <2>1 DEF Cycle
<1>5. CASE RestartLoop
  <2>1. \A c \in Cycles : [cycle[c] EXCEPT !.pc = "lost"] \in Cycle
    BY <1>1 DEF Cycle
  <2> QED BY <1>1, <1>5, <2>1 DEF RestartLoop
<1>6. ASSUME NEW c \in Cycles, Rate(c) \/ Accept(c) \/ RejectCandidate(c)
      PROVE  cycle' = cycle
  BY <1>6 DEF Rate, Accept, RejectCandidate, loopVars
<1>7. UNCHANGED crewVars => cycle' = cycle
  BY DEF crewVars, loopVars
<1> QED BY <1>1, <1>2, <1>3, <1>4, <1>5, <1>6, <1>7 DEF CrewNext

(* What is left of the types, for the steps that are not the fold.         *)
LEMMA HumansTyped ==
  ASSUME CrewTypeOK, NEW c \in Cycles, Rate(c) \/ Accept(c) \/ RejectCandidate(c)
  PROVE  /\ crew' \in Text /\ seat' \in Seat /\ seat'.evidence = seat.evidence
         /\ candidates' \in [Cycles -> Candidate]
         /\ ratings' \in 0 .. MaxRatings
         /\ UNCHANGED <<loopVars, mode, restarts, sincePraise>>
<1>1. /\ seat \in Seat /\ crew \in Text /\ candidates \in [Cycles -> Candidate]
      /\ ratings \in 0 .. MaxRatings /\ MaxRatings \in Nat
  BY LoopAssumption DEF CrewTypeOK
<1>2. CASE Rate(c)
  <2>1. PICK r \in Rating : seat' = [seat EXCEPT !.pending[c] = r]
    BY <1>2 DEF Rate
  <2>2. seat' \in Seat /\ seat'.evidence = seat.evidence
    BY <1>1, <2>1 DEF Seat
  <2>3. /\ ratings' \in 0 .. MaxRatings
        /\ UNCHANGED <<loopVars, mode, candidates, sincePraise, crew, restarts>>
    BY <1>1, <1>2 DEF Rate
  <2> QED BY <1>1, <2>2, <2>3
<1>3. CASE Accept(c) \/ RejectCandidate(c)
  <2>1. \E st \in {"accepted", "rejected"} :
          candidates' = [candidates EXCEPT ![c].status = st]
    BY <1>3 DEF Accept, RejectCandidate
  <2>2. candidates' \in [Cycles -> Candidate]
    BY <1>1, <2>1 DEF Candidate
  <2>3. Corrected(c) \in Text
    <3>1. candidates[c].baseline \in Seq(Cycles)
      BY <1>1 DEF Candidate, Text
    <3> QED BY <3>1, AppendProperties DEF Corrected, Text
  <2>4. /\ crew' = crew \/ crew' = Corrected(c)
        /\ UNCHANGED <<loopVars, mode, seat, sincePraise, bounds>>
    BY <1>3 DEF Accept, RejectCandidate
  <2> QED BY <1>1, <2>2, <2>3, <2>4 DEF bounds
<1> QED BY <1>2, <1>3

LEMMA AdaptTyped ==
  ASSUME CrewTypeOK, NEW c \in Cycles, Adapt(c)
  PROVE  /\ seat' \in Seat /\ Len(seat'.evidence) <= EvidenceCap
         /\ candidates' \in [Cycles -> Candidate]
         /\ sincePraise' \in 0 .. PraiseRuns + 1
         /\ UNCHANGED <<running, alone, mode, crew, bounds>>
<1>1. PICK w \in Weights, real \in BOOLEAN, passes \in BOOLEAN :
        LET f == Folded(c, w, real) IN
          IF Due(f)
          THEN /\ seat' = Spent(f)
               /\ candidates' = [candidates EXCEPT ![c] =
                    [status |-> IF mode = "AUTONOMOUS" /\ passes THEN "automatic" ELSE "proposed",
                     baseline |-> cycle[c].text, evidence |-> f.evidence]]
          ELSE seat' = f /\ UNCHANGED candidates
  BY DEF Adapt
<1> DEFINE f == Folded(c, w, real)
<1>2. f \in Seat /\ Len(f.evidence) <= EvidenceCap
  BY FoldedTyped
<1>3. cycle[c].text \in Text /\ candidates \in [Cycles -> Candidate]
  BY DEF CrewTypeOK, Cycle
<1>4. /\ sincePraise' \in 0 .. PraiseRuns + 1
      /\ UNCHANGED <<running, alone, mode, crew, bounds>>
  BY LoopAssumption DEF Adapt, CrewTypeOK, UpTo
<1>5. \/ seat' = f /\ UNCHANGED candidates
      \/ /\ seat' = [f EXCEPT !.evidence = <<>>]
         /\ \E st \in {"automatic", "proposed"} :
              candidates' = [candidates EXCEPT ![c] =
                [status |-> st, baseline |-> cycle[c].text, evidence |-> f.evidence]]
  BY <1>1 DEF Spent
<1> HIDE DEF f
<1>6. f.evidence \in Seq(Evidence)
  BY <1>2 DEF Seat
<1>7. candidates' \in [Cycles -> Candidate]
  <2>1. \A st \in {"automatic", "proposed"} :
          [status |-> st, baseline |-> cycle[c].text, evidence |-> f.evidence] \in Candidate
    BY <1>3, <1>6 DEF Candidate
  <2> QED BY <1>3, <1>5, <2>1
<1>8. seat' \in Seat /\ Len(seat'.evidence) <= EvidenceCap
  <2> DEFINE g == [f EXCEPT !.evidence = <<>>]
  <2>1. <<>> \in Seq(Evidence) /\ Len(<<>>) = 0 /\ 0 <= EvidenceCap
    BY LoopAssumption
  <2>2. g \in Seat /\ g.evidence = <<>>
    BY <1>2, <2>1 DEF Seat
  <2> QED BY <1>2, <1>5, <2>1, <2>2
<1> QED BY <1>4, <1>7, <1>8

LEMMA StepTyped == CrewTypeOK /\ [CrewNext]_crewVars => CrewTypeOK'
<1> SUFFICES ASSUME CrewTypeOK, [CrewNext]_crewVars PROVE CrewTypeOK'
  OBVIOUS
<1>1. cycle' \in [Cycles -> Cycle]
  BY CycleTyped
<1>2. CASE UNCHANGED crewVars
  BY <1>1, <1>2 DEF CrewTypeOK, crewVars, loopVars, evoVars, bounds
<1>3. CASE RestartLoop
  <2>1. restarts' \in 0 .. MaxRestarts
    BY <1>3, LoopAssumption DEF RestartLoop, CrewTypeOK
  <2> QED BY <1>1, <1>3, <2>1 DEF RestartLoop, CrewTypeOK, evoVars
<1>4. ASSUME NEW c \in Cycles, StartCycle(c) \/ \E b \in Cycles : Again(c, b)
      PROVE  CrewTypeOK'
  BY <1>1, <1>4 DEF StartCycle, Again, Begin, CrewTypeOK, evoVars, bounds
<1>5. ASSUME NEW c \in Cycles, Abort(c) \/ Record(c) \/ SealFails(c)
      PROVE  CrewTypeOK'
  BY <1>1, <1>5 DEF Abort, Record, SealFails, Enter, CrewTypeOK, evoVars, bounds
<1>6. ASSUME NEW c \in Cycles, Adapt(c)
      PROVE  CrewTypeOK'
  BY <1>1, <1>6, AdaptTyped DEF CrewTypeOK, bounds
<1>7. ASSUME NEW c \in Cycles, Rate(c) \/ Accept(c) \/ RejectCandidate(c)
      PROVE  CrewTypeOK'
  BY <1>7, HumansTyped DEF CrewTypeOK, loopVars
<1> QED BY <1>2, <1>3, <1>4, <1>5, <1>6, <1>7 DEF CrewNext

LEMMA InitTyped == CrewInit => CrewTypeOK
<1> SUFFICES ASSUME CrewInit PROVE CrewTypeOK
  OBVIOUS
<1>1. <<>> \in Text /\ <<>> \in Seq(Evidence) /\ Len(<<>>) = 0
  BY DEF Text
<1>2. NoCycle \in Cycle
  BY <1>1 DEF NoCycle, Cycle
<1>3. NoCandidate \in Candidate
  BY <1>1 DEF NoCandidate, Candidate
<1>4. NewSeat \in Seat /\ NewSeat.evidence = <<>>
  BY <1>1, LoopAssumption DEF NewSeat, Seat
<1>5. /\ 0 <= EvidenceCap /\ 0 \in 0 .. MaxRatings /\ 0 \in 0 .. MaxRestarts
      /\ PraiseRuns + 1 \in 0 .. PraiseRuns + 1
  BY LoopAssumption
<1> QED BY <1>1, <1>2, <1>3, <1>4, <1>5 DEF CrewInit, CrewTypeOK

(* missionLoop.ts and teamEvolution.ts: what the loop stores is of its     *)
(* type; a seat's evidence never outgrows its cap, and each counter of the *)
(* evolution store stays within the threshold it is compared with.         *)
THEOREM CrewTypeCorrect == CrewSpec => []CrewTypeOK
BY InitTyped, StepTyped, PTL DEF CrewSpec

-----------------------------------------------------------------------------
(* runMissionLoopCycle: as long as cycles do not overlap, the ledger       *)
(* numbers each of them once, also those that were aborted, and the flag   *)
(* means that one is under way or was when the application stopped.        *)
THEOREM LedgerCorrect == CrewSpec => []LedgerIsStraight
<1>1. CrewInv /\ [CrewNext]_crewVars => CrewInv'
  BY StepCrew
<1>2. CrewInv => LedgerIsStraight
  BY DEF CrewInv
<1>3. CrewInit => CrewInv
  BY InitCrew
<1> QED BY <1>1, <1>2, <1>3, PTL DEF CrewSpec

(* evolveTeamAfterRun: however cycles overlap, what a run showed against   *)
(* the seat is in one place, the store or one candidate, once; and one     *)
(* candidate at a time waits for its human.                                *)
THEOREM EvidenceCorrect == CrewSpec => []EvidenceSpentOnce
<1>1. CrewInv /\ [CrewNext]_crewVars => CrewInv'
  BY StepCrew
<1>2. CrewInv => EvidenceSpentOnce
  BY DEF CrewInv
<1>3. CrewInit => CrewInv
  BY InitCrew
<1> QED BY <1>1, <1>2, <1>3, PTL DEF CrewSpec

(* evolveTeamAfterRun: praise suppresses candidates: the fold that takes   *)
(* it in, and those after it, propose nothing, whatever evidence there is. *)
THEOREM PraiseCorrect == CrewSpec => PraiseHolds
<1>1. CrewInv /\ [CrewNext]_crewVars
      => CrewInv' /\ [\A c \in Cycles :
                        candidates[c].status = "none" /\ candidates'[c].status # "none"
                          => sincePraise' > PraiseRuns]_crewVars
  BY StepCrew
<1>3. CrewInit => CrewInv
  BY InitCrew
<1> QED BY <1>1, <1>3, PTL DEF CrewSpec, PraiseHolds
=============================================================================
