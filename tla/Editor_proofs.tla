----------------------------- MODULE Editor_proofs -----------------------------
(***************************************************************************)
(* What holds of the editor for any number of workflows, edits, moves and  *)
(* saves under way, and any cap of the history.  EInv is the inductive     *)
(* invariant.                                                              *)
(***************************************************************************)
EXTENDS Editor, SequenceTheorems, TLAPS

(* The parts of TypeOK: what is on screen, what is under way, the rest.    *)
OnScreen ==
  /\ workflowId \in 1 .. known
  /\ graph \in GraphOf(workflowId)
  /\ past \in Seq(GraphOf(workflowId)) /\ future \in Seq(GraphOf(workflowId))
  /\ Len(past) + Len(future) <= HistoryCap
  /\ dirty \in BOOLEAN /\ touched \in BOOLEAN /\ failed \in BOOLEAN

SavesUnderWay ==
  /\ saves \in Seq(Save) /\ Len(saves) <= MaxSaves
  /\ \A i \in DOMAIN saves : saves[i].then = "open" =>
       saves[i].to \in 1 .. known /\ saves[i].copy.of = saves[i].to

Rest ==
  /\ known \in NumListed .. NumWorkflows
  /\ openTabs \subseteq 1 .. known
  /\ disk \in [Workflow -> AnyGraph] /\ workflows \in [Workflow -> AnyGraph]
  /\ \A w \in Workflow : disk[w] \in GraphOf(w) /\ workflows[w] \in GraphOf(w)
  /\ creating \in {"no", "save", "list", "load"}
  /\ saveTimer \in BOOLEAN
  /\ edits \in 0 .. MaxEdits /\ moves \in 0 .. MaxMoves

(* While no autosave is scheduled and no save has failed since, what was   *)
(* edited is in the database with no save behind it that could take it     *)
(* back, or it is the last that is under way there.                        *)
Carried ==
  touched =>
    \/ saveTimer
    \/ failed
    \/ /\ disk[workflowId] = graph
       /\ \A i \in DOMAIN saves : saves[i].graph.of # workflowId
    \/ \E i \in DOMAIN saves : CarriedBy(i)

EInv == TypeOK /\ Carried

LEMMA Parts == TypeOK <=> OnScreen /\ SavesUnderWay /\ Rest
  BY DEF TypeOK, OnScreen, SavesUnderWay, Rest

-----------------------------------------------------------------------------
(* Graphs and sequences of them.                                           *)

LEMMA Graphs ==
  /\ \A w \in Workflow : GraphOf(w) \subseteq AnyGraph
  /\ \A w \in Workflow : Empty(w) \in GraphOf(w)
  /\ \A g \in AnyGraph : g.of \in Workflow /\ g \in GraphOf(g.of)
  /\ \A w : \A g \in GraphOf(w) : g.of = w
  /\ \A w : \A n \in 0 .. MaxEdits : [of |-> w, no |-> n] \in GraphOf(w)
  BY EditorAssumption DEF AnyGraph, GraphOf, Empty

LEMMA Listed ==
  ASSUME TypeOK
  PROVE  1 .. known \subseteq Workflow
  BY EditorAssumption DEF TypeOK, Workflow

(* The tail of a list that LastOf keeps.                                   *)
LEMMA LastOfSeq ==
  ASSUME NEW S, NEW list \in Seq(S), NEW n \in Nat
  PROVE  LastOf(list, n) \in Seq(S) /\ Len(LastOf(list, n)) <= n
<1> DEFINE m == IF Len(list) > n THEN Len(list) - n + 1 ELSE 1
<1>1. Len(list) \in Nat /\ \A i \in 1 .. Len(list) : list[i] \in S
  OBVIOUS
<1>2. m \in Int /\ m >= 1 /\ Len(list) - m + 1 <= n
  BY <1>1
<1> HIDE DEF m
<1>3. \A i \in m .. Len(list) : list[i] \in S
  BY <1>1, <1>2
<1>4. /\ SubSeq(list, m, Len(list)) \in Seq(S)
      /\ Len(SubSeq(list, m, Len(list))) = IF m <= Len(list) THEN Len(list) - m + 1 ELSE 0
  BY <1>1, <1>2, <1>3, SubSeqProperties
<1>5. LastOf(list, n) = SubSeq(list, m, Len(list))
  BY DEF LastOf, m
<1> QED
  BY <1>2, <1>4, <1>5

LEMMA RememberSeq ==
  ASSUME TypeOK
  PROVE  Remember \in Seq(GraphOf(workflowId)) /\ Len(Remember) <= HistoryCap
<1>1. /\ graph \in GraphOf(workflowId) /\ past \in Seq(GraphOf(workflowId))
      /\ HistoryCap - 1 \in Nat
  BY EditorAssumption DEF TypeOK
<1>2. /\ LastOf(past, HistoryCap - 1) \in Seq(GraphOf(workflowId))
      /\ Len(LastOf(past, HistoryCap - 1)) <= HistoryCap - 1
  BY <1>1, LastOfSeq
<1> DEFINE list == LastOf(past, HistoryCap - 1)
<1> HIDE DEF list
<1>3. Append(list, graph) \in Seq(GraphOf(workflowId)) /\ Len(Append(list, graph)) = Len(list) + 1
  <2>1. list \in Seq(GraphOf(workflowId))
    BY <1>2 DEF list
  <2> QED
    BY <1>1, <2>1
<1>4. Len(list) \in Nat /\ Len(list) <= HistoryCap - 1 /\ HistoryCap \in Int
  BY <1>1, <1>2, EditorAssumption DEF list
<1> QED
  BY <1>3, <1>4 DEF Remember, list

(* A load of a graph under its workflow's name.                            *)
LEMMA LoadSteps ==
  ASSUME NEW w, NEW g, LoadWorkflow(w, g),
         w \in 1 .. known', g \in GraphOf(w)
  PROVE  OnScreen' /\ Carried'
<1>1. OnScreen'
  <2>1. <<>> \in Seq(GraphOf(w)) /\ Len(<<>>) = 0
    OBVIOUS
  <2>2. /\ workflowId' = w /\ graph' = g /\ past' = <<>> /\ future' = <<>>
        /\ dirty' = FALSE /\ touched' = FALSE /\ failed' = FALSE
    BY DEF LoadWorkflow
  <2>3. GraphOf(workflowId)' = GraphOf(w)
    BY <2>2 DEF GraphOf
  <2>4. Len(past') + Len(future') <= HistoryCap
    BY <2>1, <2>2, EditorAssumption
  <2> QED
    BY <2>1, <2>2, <2>3, <2>4 DEF OnScreen
<1> QED
  BY <1>1 DEF LoadWorkflow, Carried

(* A save that is handed to the database.                                  *)
LEMMA SavingSteps ==
  ASSUME TypeOK, known' = known,
         NEW g \in AnyGraph, NEW then \in {"nothing", "open", "create"},
         NEW to \in Workflow, NEW copy \in AnyGraph,
         then = "open" => to \in 1 .. known /\ copy.of = to,
         Saving(g, then, to, copy)
  PROVE  /\ SavesUnderWay'
         /\ Len(saves') = Len(saves) + 1
         /\ saves'[Len(saves')].graph = g
<1> DEFINE s == [graph |-> g, then |-> then, to |-> to, copy |-> copy]
<1>1. s \in Save
  BY DEF Save, AnyGraph
<1>2. saves \in Seq(Save) /\ Len(saves) < MaxSaves /\ saves' = Append(saves, s)
  BY DEF Saving, TypeOK
<1>3. MaxSaves \in Nat
  BY EditorAssumption
<1>4. s.graph = g /\ s.then = then /\ s.to = to /\ s.copy = copy
  OBVIOUS
<1> HIDE DEF s
<1>5. /\ saves' \in Seq(Save) /\ Len(saves') = Len(saves) + 1
      /\ saves'[Len(saves')] = s
      /\ \A i \in DOMAIN saves' : (i \in DOMAIN saves /\ saves'[i] = saves[i]) \/ saves'[i] = s
  BY <1>1, <1>2
<1>6. \A i \in DOMAIN saves' : saves'[i].then = "open" =>
        saves'[i].to \in 1 .. known /\ saves'[i].copy.of = saves'[i].to
  BY <1>4, <1>5 DEF TypeOK
<1> QED
  BY <1>2, <1>3, <1>4, <1>5, <1>6 DEF SavesUnderWay

(* A save of what is on screen carries it.                                 *)
LEMMA SavingCarries ==
  ASSUME saves' \in Seq(Save), Len(saves') = Len(saves) + 1, saves \in Seq(Save),
         saves'[Len(saves')].graph = graph'
  PROVE  Carried'
<1>1. PICK n \in DOMAIN saves' : n = Len(saves') /\ \A j \in DOMAIN saves' : ~(j > n)
  OBVIOUS
<1>2. saves'[n].graph = graph'
  BY <1>1
<1> QED
  BY <1>1, <1>2 DEF Carried, CarriedBy

-----------------------------------------------------------------------------
(* What an action leaves alone.                                            *)

LEMMA ScreenStays ==
  ASSUME TypeOK, UNCHANGED <<store, touched, failed>>,
         known' \in NumListed .. NumWorkflows, known <= known'
  PROVE  OnScreen'
<1>1. GraphOf(workflowId)' = GraphOf(workflowId)
  BY DEF GraphOf, store
<1>2. workflowId' \in 1 .. known'
  BY EditorAssumption DEF TypeOK, store
<1> QED
  BY <1>1, <1>2 DEF TypeOK, OnScreen, store

LEMMA SavesStay ==
  ASSUME TypeOK, UNCHANGED saves,
         known' \in NumListed .. NumWorkflows, known <= known'
  PROVE  SavesUnderWay'
<1>1. known \in Int /\ known' \in Int
  BY EditorAssumption DEF TypeOK
<1> QED
  BY <1>1 DEF TypeOK, SavesUnderWay

LEMMA CarriedStays ==
  ASSUME Carried, UNCHANGED <<disk, workflowId, graph, saveTimer, saves, touched, failed>>
  PROVE  Carried'
  BY DEF Carried, CarriedBy

(* The graph on screen becomes another one of the workflow, and is         *)
(* scheduled to be saved.                                                  *)
LEMMA Edited ==
  ASSUME TypeOK, NEW g \in GraphOf(workflowId), Becomes(g), UNCHANGED <<workflowId, known>>,
         past' \in Seq(GraphOf(workflowId)), future' \in Seq(GraphOf(workflowId)),
         Len(past') + Len(future') <= HistoryCap
  PROVE  OnScreen'
<1>1. GraphOf(workflowId)' = GraphOf(workflowId)
  BY DEF GraphOf
<1> QED
  BY <1>1 DEF TypeOK, OnScreen, Becomes

LEMMA EmptyHistory ==
  ASSUME NEW S, NEW list \in Seq(S), Len(list) <= HistoryCap
  PROVE  <<>> \in Seq(S) /\ Len(list) + Len(<<>>) <= HistoryCap
<1>1. Len(list) \in Nat /\ <<>> \in Seq(S) /\ Len(<<>>) = 0
  OBVIOUS
<1> QED
  BY <1>1

LEMMA Scheduled == saveTimer' = TRUE => Carried'
  BY DEF Carried

-----------------------------------------------------------------------------
(* The store's actions.                                                    *)

LEMMA NewEdit ==
  ASSUME TypeOK, edits < MaxEdits, edits' = edits + 1
  PROVE  edits' \in 0 .. MaxEdits /\ [of |-> workflowId, no |-> edits'] \in GraphOf(workflowId)
<1>1. edits' \in 0 .. MaxEdits
  BY EditorAssumption DEF TypeOK
<1> QED
  BY <1>1 DEF GraphOf

LEMMA HistorySteps ==
  ASSUME EInv, WithHistory
  PROVE  OnScreen' /\ Rest' /\ Carried'
<1> USE DEF EInv
<1>1. /\ edits' \in 0 .. MaxEdits
      /\ [of |-> workflowId, no |-> edits'] \in GraphOf(workflowId)
  BY NewEdit DEF WithHistory
<1>2. /\ past' \in Seq(GraphOf(workflowId)) /\ future' \in Seq(GraphOf(workflowId))
      /\ Len(past') + Len(future') <= HistoryCap
  <2>1. past' = Remember /\ future' = <<>>
    BY DEF WithHistory
  <2>2. past' \in Seq(GraphOf(workflowId)) /\ Len(past') <= HistoryCap
    BY <2>1, RememberSeq
  <2> QED
    BY <2>1, <2>2, EmptyHistory
<1>3. OnScreen'
  <2>1. Becomes([of |-> workflowId, no |-> edits']) /\ UNCHANGED <<workflowId, known>>
    BY DEF WithHistory, pages
  <2> QED
    BY <1>1, <1>2, <2>1, Edited
<1>4. Rest'
  BY <1>1 DEF TypeOK, WithHistory, Rest, GraphOf, pages
<1> QED
  BY <1>3, <1>4, Scheduled DEF WithHistory

LEMMA Assembled ==
  ASSUME OnScreen', SavesUnderWay', Rest', Carried'
  PROVE  EInv'
  BY DEF EInv, TypeOK, OnScreen, SavesUnderWay, Rest

LEMMA EditSteps ==
  ASSUME EInv, Edit
  PROVE  EInv'
<1>1. SavesUnderWay'
  BY SavesStay, EditorAssumption DEF EInv, TypeOK, Edit, WithHistory, pages
<1> QED
  BY <1>1, HistorySteps, Assembled DEF Edit

LEMMA RestoreSteps ==
  ASSUME EInv, RestoreGraph
  PROVE  EInv'
<1>1. /\ TypeOK /\ UNCHANGED <<workflowId, known>>
      /\ edits < MaxEdits /\ edits' = edits + 1
      /\ graph' = [of |-> workflowId, no |-> edits']
      /\ Saving(graph', "nothing", workflowId, graph')
  BY DEF EInv, RestoreGraph, WithHistory, Becomes, pages
<1>2. workflowId \in Workflow
  BY <1>1, Listed DEF TypeOK
<1>3. graph' \in GraphOf(workflowId)
  BY <1>1, NewEdit
<1>4. PICK g \in AnyGraph : g = graph'
  BY <1>2, <1>3, Graphs
<1>5. SavesUnderWay'
  BY <1>1, <1>2, <1>4, SavingSteps
<1> QED
  BY <1>5, HistorySteps, Assembled DEF RestoreGraph

LEMMA EditLiveSteps ==
  ASSUME EInv, EditLive
  PROVE  EInv'
<1>1. /\ TypeOK /\ UNCHANGED <<workflowId, known, past, future, saves>>
      /\ edits < MaxEdits /\ edits' = edits + 1
      /\ Becomes([of |-> workflowId, no |-> edits'])
      /\ saveTimer' = TRUE
  BY DEF EInv, EditLive, pages
<1>2. edits' \in 0 .. MaxEdits /\ [of |-> workflowId, no |-> edits'] \in GraphOf(workflowId)
  BY <1>1, NewEdit
<1>3. OnScreen'
  <2>1. /\ past' \in Seq(GraphOf(workflowId)) /\ future' \in Seq(GraphOf(workflowId))
        /\ Len(past') + Len(future') <= HistoryCap
    BY <1>1 DEF TypeOK
  <2> QED
    BY <1>1, <1>2, <2>1, Edited
<1>4. SavesUnderWay'
  BY <1>1, SavesStay, EditorAssumption DEF TypeOK
<1>5. Rest'
  BY <1>1, <1>2 DEF TypeOK, EditLive, Rest, GraphOf, pages
<1> QED
  BY <1>1, <1>3, <1>4, <1>5, Scheduled, Assembled

(* A move within the bound.                                                *)
LEMMA Moved ==
  ASSUME TypeOK, moves < MaxMoves, moves' = moves + 1,
         UNCHANGED <<disk, pages, edits>>, saveTimer' \in BOOLEAN
  PROVE  Rest'
<1>1. moves' \in 0 .. MaxMoves
  BY EditorAssumption DEF TypeOK
<1> QED
  BY <1>1 DEF TypeOK, Rest, GraphOf, pages

LEMMA CheckpointSteps ==
  ASSUME EInv, Checkpoint
  PROVE  EInv'
<1> USE DEF EInv
<1>1. /\ UNCHANGED <<disk, workflowId, graph, saveTimer, saves, pages, edits, touched, failed>>
      /\ moves < MaxMoves /\ moves' = moves + 1
      /\ past' = Remember /\ future' = <<>> /\ dirty' = TRUE
  BY DEF Checkpoint
<1>2. OnScreen'
  <2>1. /\ past' \in Seq(GraphOf(workflowId)) /\ future' \in Seq(GraphOf(workflowId))
        /\ Len(past') + Len(future') <= HistoryCap
    BY <1>1, RememberSeq, EmptyHistory
  <2>2. GraphOf(workflowId)' = GraphOf(workflowId)
    BY <1>1 DEF GraphOf
  <2> QED
    BY <1>1, <2>1, <2>2 DEF TypeOK, OnScreen, pages
<1>3. SavesUnderWay'
  BY <1>1, SavesStay, EditorAssumption DEF TypeOK, pages
<1>4. Rest'
  BY <1>1, Moved DEF TypeOK
<1> QED
  BY <1>1, <1>2, <1>3, <1>4, CarriedStays, Assembled

LEMMA UndoSteps ==
  ASSUME EInv, Undo
  PROVE  EInv'
<1> USE DEF EInv
<1>1. /\ UNCHANGED <<disk, workflowId, saves, pages, edits>>
      /\ moves < MaxMoves /\ moves' = moves + 1
      /\ past # <<>> /\ Becomes(Last(past)) /\ past' = Front(past)
      /\ saveTimer' = TRUE
  BY DEF Undo
<1> DEFINE S == GraphOf(workflowId)
           n == IF Len(future) < HistoryCap THEN Len(future) + 1 ELSE HistoryCap
           list == <<graph>> \o future
<1>2. /\ graph \in S /\ past \in Seq(S) /\ future \in Seq(S)
      /\ Len(past) + Len(future) <= HistoryCap
  BY DEF TypeOK
<1> HIDE DEF S
<1>3. Last(past) \in S
  BY <1>1, <1>2 DEF Last
<1>4. Front(past) \in Seq(S) /\ Len(Front(past)) = Len(past) - 1
  <2> DEFINE k == Len(past) - 1
  <2>1. k \in Int /\ k >= 0 /\ \A i \in 1 .. k : past[i] \in S
    BY <1>1, <1>2
  <2> HIDE DEF k
  <2>2. /\ SubSeq(past, 1, k) \in Seq(S)
        /\ Len(SubSeq(past, 1, k)) = IF 1 <= k THEN k - 1 + 1 ELSE 0
    BY <2>1, SubSeqProperties
  <2>3. Front(past) = SubSeq(past, 1, k)
    BY DEF Front, k
  <2> QED
    BY <2>1, <2>2, <2>3 DEF k
<1>5. future' \in Seq(S) /\ Len(future') <= Len(future) + 1
  <2>1. /\ list \in Seq(S) /\ Len(list) = Len(future) + 1
        /\ \A i \in 1 .. Len(list) : list[i] \in S
    BY <1>2
  <2>2. n \in Int /\ n <= Len(future) + 1 /\ n >= 1
    <3>1. Len(past) \in Nat /\ Len(future) \in Nat /\ HistoryCap \in Nat /\ HistoryCap # 0
      BY <1>2, EditorAssumption
    <3> QED
      BY <1>2, <3>1
  <2>3. future' = SubSeq(list, 1, n)
    BY DEF Undo
  <2> HIDE DEF n, list
  <2>4. \A i \in 1 .. n : list[i] \in S
    BY <1>2, <2>1, <2>2
  <2>5. /\ SubSeq(list, 1, n) \in Seq(S)
        /\ Len(SubSeq(list, 1, n)) = IF 1 <= n THEN n - 1 + 1 ELSE 0
    BY <2>2, <2>4, SubSeqProperties
  <2> QED
    BY <2>2, <2>3, <2>5
<1>6. Len(past') + Len(future') <= HistoryCap
  <2>1. Len(past) \in Int /\ Len(future) \in Int /\ Len(future') \in Int /\ HistoryCap \in Int
    BY <1>2, <1>5, EditorAssumption
  <2> QED
    BY <1>1, <1>2, <1>4, <1>5, <2>1
<1>7. OnScreen'
  BY <1>1, <1>3, <1>4, <1>5, <1>6, Edited DEF S, pages
<1>8. SavesUnderWay'
  BY <1>1, SavesStay, EditorAssumption DEF TypeOK, pages
<1>9. Rest'
  BY <1>1, Moved
<1> QED
  BY <1>1, <1>7, <1>8, <1>9, Scheduled, Assembled

LEMMA RedoSteps ==
  ASSUME EInv, Redo
  PROVE  EInv'
<1> USE DEF EInv
<1>1. /\ UNCHANGED <<disk, workflowId, saves, pages, edits>>
      /\ moves < MaxMoves /\ moves' = moves + 1
      /\ future # <<>> /\ Becomes(Head(future))
      /\ past' = Append(past, graph) /\ future' = Tail(future)
      /\ saveTimer' = TRUE
  BY DEF Redo
<1> DEFINE S == GraphOf(workflowId)
<1>2. /\ graph \in S /\ past \in Seq(S) /\ future \in Seq(S)
      /\ Len(past) + Len(future) <= HistoryCap
  BY DEF TypeOK
<1> HIDE DEF S
<1>3. /\ Head(future) \in S /\ future' \in Seq(S) /\ Len(future') = Len(future) - 1
      /\ past' \in Seq(S) /\ Len(past') = Len(past) + 1
  BY <1>1, <1>2
<1>4. Len(past') + Len(future') <= HistoryCap
  <2>1. Len(past) \in Int /\ Len(future) \in Int /\ HistoryCap \in Int
    BY <1>2, EditorAssumption
  <2> QED
    BY <1>2, <1>3, <2>1
<1>5. OnScreen'
  BY <1>1, <1>3, <1>4, Edited DEF S, pages
<1>6. SavesUnderWay'
  BY <1>1, SavesStay, EditorAssumption DEF TypeOK, pages
<1>7. Rest'
  BY <1>1, Moved
<1> QED
  BY <1>1, <1>5, <1>6, <1>7, Scheduled, Assembled

-----------------------------------------------------------------------------
(* Saves that are asked for.                                               *)

(* What is on screen is saved; then and copy say for what.                 *)
LEMMA AskSteps ==
  ASSUME EInv, NEW then \in {"nothing", "open", "create"}, NEW to \in Workflow,
         NEW copy \in AnyGraph, then = "open" => to \in 1 .. known /\ copy.of = to,
         Saving(graph, then, to, copy),
         UNCHANGED <<disk, store, touched, failed, known>>, Rest'
  PROVE  EInv'
<1> USE DEF EInv
<1>1. graph \in AnyGraph
  BY Listed, Graphs DEF TypeOK
<1>2. PICK g \in AnyGraph : g = graph
  BY <1>1
<1>3. SavesUnderWay' /\ Len(saves') = Len(saves) + 1 /\ saves'[Len(saves')].graph = graph
  BY <1>2, SavingSteps
<1>4. graph' = graph /\ saves' \in Seq(Save) /\ saves \in Seq(Save)
  BY <1>3 DEF store, SavesUnderWay, TypeOK
<1>5. Carried'
  BY <1>3, <1>4, SavingCarries
<1>6. OnScreen'
  BY ScreenStays, EditorAssumption DEF TypeOK
<1> QED
  BY <1>3, <1>5, <1>6, Assembled

LEMMA SaveNowSteps ==
  ASSUME EInv, SaveNow \/ Autosave
  PROVE  EInv'
<1>1. /\ Saving(graph, "nothing", workflowId, graph)
      /\ UNCHANGED <<disk, store, pages, edits, moves, touched, failed>>
      /\ saveTimer' \in BOOLEAN
  BY DEF EInv, TypeOK, SaveNow, Autosave, bounds
<1>2. Rest'
  BY <1>1 DEF EInv, TypeOK, Rest, GraphOf, pages
<1>3. workflowId \in Workflow /\ graph \in AnyGraph
  BY Listed, Graphs DEF EInv, TypeOK
<1> QED
  BY <1>1, <1>2, <1>3, AskSteps DEF pages

LEMMA ClickTabSteps ==
  ASSUME EInv, NEW w \in Workflow, ClickTab(w)
  PROVE  EInv'
<1>1. /\ Saving(graph, "open", w, workflows[w])
      /\ UNCHANGED <<disk, store, saveTimer, pages, bounds, touched, failed>>
      /\ w \in openTabs
  BY DEF ClickTab
<1>2. Rest'
  BY <1>1 DEF EInv, TypeOK, Rest, GraphOf, pages, bounds
<1>3. w \in 1 .. known /\ workflows[w] \in AnyGraph /\ workflows[w].of = w
  BY <1>1, Graphs DEF EInv, TypeOK
<1> QED
  BY <1>1, <1>2, <1>3, AskSteps DEF pages

LEMMA ClickNewSteps ==
  ASSUME EInv, ClickNew
  PROVE  EInv'
<1>1. /\ Saving(graph, "create", workflowId, graph)
      /\ UNCHANGED <<disk, store, saveTimer, workflows, openTabs, known, edits, moves, touched, failed>>
      /\ creating' = "save"
  BY DEF ClickNew, bounds
<1>2. Rest'
  BY <1>1 DEF EInv, TypeOK, Rest, GraphOf
<1>3. workflowId \in Workflow /\ graph \in AnyGraph
  BY Listed, Graphs DEF EInv, TypeOK
<1> QED
  BY <1>1, <1>2, <1>3, AskSteps

-----------------------------------------------------------------------------
(* Saves that are over.                                                    *)

(* The first save under way, and what is under way behind it.              *)
LEMMA FirstSave ==
  ASSUME TypeOK, saves # <<>>, GoesOn(Head(saves))
  PROVE  /\ Head(saves) \in Save
         /\ Head(saves) = saves[1]
         /\ Head(saves).then = "open" =>
              Head(saves).to \in 1 .. known /\ Head(saves).copy \in GraphOf(Head(saves).to)
         /\ \A i \in DOMAIN saves' : i + 1 \in DOMAIN saves /\ saves'[i] = saves[i + 1]
         /\ \A i \in DOMAIN saves : i # 1 => i - 1 \in DOMAIN saves'
         /\ DOMAIN saves \subseteq Nat /\ DOMAIN saves' \subseteq Nat
         /\ SavesUnderWay'
<1>1. saves \in Seq(Save) /\ saves' = Tail(saves) /\ known' = known
  BY DEF TypeOK, GoesOn
<1>2. Head(saves) \in Save /\ Head(saves) = saves[1] /\ 1 \in DOMAIN saves
  BY <1>1
<1>3. Head(saves).then = "open" =>
        Head(saves).to \in 1 .. known /\ Head(saves).copy \in GraphOf(Head(saves).to)
  <2>1. saves[1].then = "open" => saves[1].to \in 1 .. known /\ saves[1].copy.of = saves[1].to
    BY <1>2 DEF TypeOK
  <2>2. Head(saves).copy \in AnyGraph
    BY <1>2 DEF Save
  <2> QED
    BY <1>2, <2>1, <2>2, Graphs
<1>4. /\ saves' \in Seq(Save) /\ Len(saves') = Len(saves) - 1
      /\ \A i \in DOMAIN saves' : i + 1 \in DOMAIN saves /\ saves'[i] = saves[i + 1]
      /\ \A i \in DOMAIN saves : i # 1 => i - 1 \in DOMAIN saves'
      /\ DOMAIN saves \subseteq Nat /\ DOMAIN saves' \subseteq Nat
  BY <1>1
<1>5. SavesUnderWay'
  <2>1. Len(saves') <= MaxSaves
    BY <1>1, <1>4, EditorAssumption DEF TypeOK
  <2>2. \A i \in DOMAIN saves' : saves'[i].then = "open" =>
          saves'[i].to \in 1 .. known' /\ saves'[i].copy.of = saves'[i].to
    BY <1>1, <1>4 DEF TypeOK
  <2> QED
    BY <1>4, <2>1, <2>2 DEF SavesUnderWay
<1> QED
  BY <1>2, <1>3, <1>4, <1>5

(* The rest, once the answer is there.                                     *)
LEMMA AnswerRest ==
  ASSUME TypeOK, NEW s, GoesOn(s), disk' \in [Workflow -> AnyGraph],
         \A w \in Workflow : disk'[w] \in GraphOf(w)
  PROVE  Rest' /\ known' = known /\ saveTimer' = saveTimer
  BY DEF TypeOK, Rest, GoesOn, GraphOf, bounds, AnyGraph

LEMMA SavedSteps ==
  ASSUME EInv, Saved
  PROVE  EInv'
<1> DEFINE s == Head(saves)
<1>1. /\ TypeOK /\ Carried /\ saves # <<>> /\ GoesOn(s)
      /\ disk' = [disk EXCEPT ![s.graph.of] = s.graph]
      /\ IF s.then = "open" THEN LoadWorkflow(s.to, s.copy)
         ELSE dirty' = FALSE /\ UNCHANGED <<workflowId, graph, past, future, touched, failed>>
  BY DEF EInv, Saved
<1>2. /\ s \in Save /\ s = saves[1]
      /\ s.then = "open" => s.to \in 1 .. known /\ s.copy \in GraphOf(s.to)
      /\ \A i \in DOMAIN saves' : i + 1 \in DOMAIN saves /\ saves'[i] = saves[i + 1]
      /\ \A i \in DOMAIN saves : i # 1 => i - 1 \in DOMAIN saves'
      /\ DOMAIN saves \subseteq Nat /\ DOMAIN saves' \subseteq Nat
      /\ SavesUnderWay'
  BY <1>1, FirstSave
<1> HIDE DEF s
<1>3. s.graph \in AnyGraph /\ s.graph.of \in Workflow /\ s.graph \in GraphOf(s.graph.of)
  BY <1>2, Graphs DEF Save
<1>4. /\ disk' \in [Workflow -> AnyGraph]
      /\ \A w \in Workflow : disk'[w] = IF w = s.graph.of THEN s.graph ELSE disk[w]
  BY <1>1, <1>3 DEF TypeOK
<1>5. \A w \in Workflow : disk'[w] \in GraphOf(w)
  BY <1>1, <1>3, <1>4 DEF TypeOK
<1>6. Rest' /\ known' = known /\ saveTimer' = saveTimer
  BY <1>1, <1>4, <1>5, AnswerRest
<1>7. CASE s.then = "open"
  <2>1. LoadWorkflow(s.to, s.copy) /\ s.to \in 1 .. known' /\ s.copy \in GraphOf(s.to)
    BY <1>1, <1>2, <1>6, <1>7
  <2>2. OnScreen' /\ Carried'
    BY <2>1, LoadSteps
  <2> QED
    BY <1>2, <1>6, <2>2, Assembled
<1>8. CASE s.then # "open"
  <2>1. dirty' = FALSE /\ UNCHANGED <<workflowId, graph, past, future, touched, failed>>
    BY <1>1, <1>8
  <2>2. OnScreen'
    <3>1. GraphOf(workflowId)' = GraphOf(workflowId)
      BY <2>1 DEF GraphOf
    <3> QED
      BY <1>1, <1>6, <2>1, <3>1 DEF TypeOK, OnScreen
  <2>3. workflowId \in Workflow
    BY <1>1, Listed DEF TypeOK
  <2>4. Carried'
    <3> SUFFICES ASSUME touched, ~saveTimer, ~failed
                 PROVE  Carried'
      BY <1>6, <2>1 DEF Carried
    <3>1. CASE disk[workflowId] = graph /\ \A i \in DOMAIN saves : saves[i].graph.of # workflowId
      <4>1. s.graph.of # workflowId
        <5>1. 1 \in DOMAIN saves
          BY <1>1 DEF TypeOK
        <5> QED
          BY <1>2, <3>1, <5>1
      <4>2. disk'[workflowId'] = graph'
        BY <1>4, <2>1, <2>3, <3>1, <4>1
      <4>3. \A i \in DOMAIN saves' : saves'[i].graph.of # workflowId'
        BY <1>2, <2>1, <3>1
      <4> QED
        BY <4>2, <4>3 DEF Carried
    <3>2. ASSUME NEW i \in DOMAIN saves, CarriedBy(i), i # 1
          PROVE  Carried'
      <4>1. PICK k \in DOMAIN saves' : k = i - 1
        BY <1>2, <3>2
      <4>2. saves'[k].graph = graph'
        BY <1>2, <2>1, <3>2, <4>1 DEF CarriedBy
      <4>3. \A j \in DOMAIN saves' : j > k => saves'[j].graph.of # workflowId'
        <5> TAKE j \in DOMAIN saves'
        <5>1. j > k => j + 1 > i
          BY <1>2, <4>1
        <5> QED
          BY <1>2, <2>1, <3>2, <5>1 DEF CarriedBy
      <4> QED
        BY <4>2, <4>3 DEF Carried, CarriedBy
    <3>3. CASE CarriedBy(1)
      <4>1. s.graph = graph /\ \A j \in DOMAIN saves : j > 1 => saves[j].graph.of # workflowId
        BY <1>2, <3>3 DEF CarriedBy
      <4>2. graph.of = workflowId
        BY <1>1, Graphs DEF TypeOK
      <4>3. disk'[workflowId'] = graph'
        BY <1>4, <2>1, <2>3, <4>1, <4>2
      <4>4. \A j \in DOMAIN saves' : saves'[j].graph.of # workflowId'
        <5> TAKE j \in DOMAIN saves'
        <5>1. j \in Nat /\ j # 0 /\ j + 1 \in DOMAIN saves /\ saves'[j] = saves[j + 1]
          BY <1>2 DEF SavesUnderWay
        <5>2. j + 1 > 1
          BY <5>1
        <5> QED
          BY <2>1, <4>1, <5>1, <5>2
      <4> QED
        BY <4>3, <4>4 DEF Carried
    <3> QED
      BY <1>1, <3>1, <3>2, <3>3 DEF Carried
  <2> QED
    BY <1>2, <1>6, <2>2, <2>4, Assembled
<1> QED
  BY <1>7, <1>8

LEMMA SaveFailsSteps ==
  ASSUME EInv, SaveFails
  PROVE  EInv'
<1> DEFINE s == Head(saves)
<1>1. /\ TypeOK /\ saves # <<>> /\ GoesOn(s) /\ disk' = disk
      /\ IF s.then = "open" THEN LoadWorkflow(s.to, s.copy)
         ELSE failed' = TRUE /\ UNCHANGED <<store, touched>>
  BY DEF EInv, SaveFails
<1>2. /\ s.then = "open" => s.to \in 1 .. known /\ s.copy \in GraphOf(s.to)
      /\ SavesUnderWay'
  BY <1>1, FirstSave
<1> HIDE DEF s
<1>3. Rest' /\ known' = known
  <2>1. disk' \in [Workflow -> AnyGraph] /\ \A w \in Workflow : disk'[w] \in GraphOf(w)
    BY <1>1 DEF TypeOK
  <2> QED
    BY <1>1, <2>1, AnswerRest
<1>4. CASE s.then = "open"
  <2>1. LoadWorkflow(s.to, s.copy) /\ s.to \in 1 .. known' /\ s.copy \in GraphOf(s.to)
    BY <1>1, <1>2, <1>3, <1>4
  <2>2. OnScreen' /\ Carried'
    BY <2>1, LoadSteps
  <2> QED
    BY <1>2, <1>3, <2>2, Assembled
<1>5. CASE s.then # "open"
  <2>1. failed' = TRUE /\ UNCHANGED <<store, touched>>
    BY <1>1, <1>5
  <2>2. OnScreen'
    <3>1. GraphOf(workflowId)' = GraphOf(workflowId)
      BY <2>1 DEF GraphOf, store
    <3> QED
      BY <1>1, <1>3, <2>1, <3>1 DEF TypeOK, OnScreen, store
  <2>3. Carried'
    BY <2>1 DEF Carried
  <2> QED
    BY <1>2, <1>3, <2>2, <2>3, Assembled
<1> QED
  BY <1>4, <1>5

-----------------------------------------------------------------------------
(* Creating, and starting again.                                           *)

LEMMA CreateSteps ==
  ASSUME EInv, Create
  PROVE  EInv'
<1>1. /\ TypeOK /\ Carried /\ known < NumWorkflows /\ known' = known + 1
      /\ workflows' = disk /\ creating' = "load"
      /\ UNCHANGED <<disk, store, saveTimer, saves, openTabs, edits, moves, touched, failed>>
  BY DEF EInv, Create, bounds
<1>2. known' \in NumListed .. NumWorkflows /\ known <= known' /\ 1 .. known \subseteq 1 .. known'
  BY <1>1, EditorAssumption DEF TypeOK
<1>3. Rest'
  BY <1>1, <1>2 DEF TypeOK, Rest, GraphOf, AnyGraph
<1>4. OnScreen' /\ SavesUnderWay'
  BY <1>1, <1>2, ScreenStays, SavesStay
<1>5. Carried'
  BY <1>1, CarriedStays DEF store
<1> QED
  BY <1>3, <1>4, <1>5, Assembled

LEMMA LoadCreatedSteps ==
  ASSUME EInv, LoadCreated
  PROVE  EInv'
<1>1. /\ TypeOK /\ creating' = "no" /\ LoadWorkflow(known, disk[known])
      /\ openTabs' = openTabs \union {known}
      /\ UNCHANGED <<disk, saveTimer, saves, workflows, known, edits, moves>>
  BY DEF EInv, LoadCreated, bounds
<1>2. known \in 1 .. known /\ known \in Workflow
  BY <1>1, EditorAssumption DEF TypeOK, Workflow
<1>3. OnScreen' /\ Carried'
  BY <1>1, <1>2, LoadSteps DEF TypeOK
<1>4. SavesUnderWay'
  BY <1>1, SavesStay, EditorAssumption DEF TypeOK
<1>5. Rest'
  BY <1>1, <1>2 DEF TypeOK, Rest, GraphOf, AnyGraph
<1> QED
  BY <1>3, <1>4, <1>5, Assembled

LEMMA RestartSteps ==
  ASSUME EInv, Restart
  PROVE  EInv'
<1>1. PICK w \in 1 .. known : LoadWorkflow(w, disk[w]) /\ openTabs' = {w}
  BY DEF Restart
<1>2. /\ TypeOK /\ workflows' = disk
      /\ saveTimer' = FALSE /\ saves' = <<>> /\ creating' = "no"
      /\ UNCHANGED <<disk, known, edits, moves>>
  BY DEF EInv, Restart, bounds
<1>3. w \in Workflow
  BY <1>2, Listed
<1>4. OnScreen' /\ Carried'
  BY <1>1, <1>2, <1>3, LoadSteps DEF TypeOK
<1>5. SavesUnderWay'
  BY <1>2, EditorAssumption DEF SavesUnderWay
<1>6. Rest'
  BY <1>1, <1>2 DEF TypeOK, Rest, GraphOf, AnyGraph
<1> QED
  BY <1>4, <1>5, <1>6, Assembled

-----------------------------------------------------------------------------
LEMMA InitEInv == Init => EInv
<1> SUFFICES ASSUME Init PROVE EInv
  OBVIOUS
<1>1. 1 \in Workflow /\ known = NumListed /\ 1 \in 1 .. known
  BY EditorAssumption DEF Init, Workflow
<1>2. disk \in [Workflow -> AnyGraph] /\ \A w \in Workflow : disk[w] \in GraphOf(w)
  BY Graphs DEF Init
<1>3. Rest
  <2>1. known \in NumListed .. NumWorkflows /\ 0 \in 0 .. MaxEdits /\ 0 \in 0 .. MaxMoves
    BY <1>1, EditorAssumption
  <2>2. \A w \in Workflow : workflows[w] \in GraphOf(w)
    BY <1>2 DEF Init
  <2>3. workflows \in [Workflow -> AnyGraph] /\ openTabs \subseteq 1 .. known
    BY <1>1, <1>2 DEF Init
  <2> QED
    BY <1>2, <2>1, <2>2, <2>3 DEF Init, Rest
<1>4. OnScreen
  <2>1. Empty(1) \in GraphOf(1)
    BY <1>1, Graphs
  <2>2. <<>> \in Seq(GraphOf(1)) /\ Len(<<>>) + Len(<<>>) <= HistoryCap
    BY EditorAssumption
  <2>3. /\ workflowId = 1 /\ graph = Empty(1) /\ past = <<>> /\ future = <<>>
        /\ dirty = FALSE /\ touched = FALSE /\ failed = FALSE
    BY DEF Init
  <2> QED
    BY <1>1, <2>1, <2>2, <2>3 DEF OnScreen
<1>5. SavesUnderWay
  BY EditorAssumption DEF Init, SavesUnderWay
<1>6. Carried
  BY DEF Init, Carried
<1> QED
  BY <1>3, <1>4, <1>5, <1>6, Parts DEF EInv

LEMMA StepEInv == EInv /\ [Next]_vars => EInv'
<1> SUFFICES ASSUME EInv, [Next]_vars PROVE EInv'
  OBVIOUS
<1>1. CASE UNCHANGED vars
  <2>1. /\ UNCHANGED <<store, saves, known, touched, failed, disk, saveTimer>>
        /\ UNCHANGED <<workflows, openTabs, creating, edits, moves>>
    BY <1>1 DEF vars, pages, bounds
  <2>2. OnScreen' /\ SavesUnderWay'
    BY <2>1, ScreenStays, SavesStay, EditorAssumption DEF EInv, TypeOK
  <2>3. Rest'
    BY <2>1 DEF EInv, TypeOK, Rest, GraphOf, AnyGraph
  <2>4. Carried'
    BY <2>1, CarriedStays DEF EInv, store
  <2> QED
    BY <2>2, <2>3, <2>4, Assembled
<1>2. CASE Edit \/ RestoreGraph \/ EditLive \/ Checkpoint \/ Undo \/ Redo
  BY <1>2, EditSteps, RestoreSteps, EditLiveSteps, CheckpointSteps, UndoSteps, RedoSteps
<1>3. CASE SaveNow \/ Autosave \/ ClickNew \/ \E w \in Workflow : ClickTab(w)
  BY <1>3, SaveNowSteps, ClickNewSteps, ClickTabSteps
<1>4. CASE Answer \/ Create \/ LoadCreated \/ Restart
  BY <1>4, SavedSteps, SaveFailsSteps, CreateSteps, LoadCreatedSteps, RestartSteps DEF Answer
<1> QED
  BY <1>1, <1>2, <1>3, <1>4 DEF Next

LEMMA EInvCorrect == Spec => []EInv
  BY InitEInv, StepEInv, PTL DEF Spec

-----------------------------------------------------------------------------
(* Whatever saves, timers, loads and restarts overlap, a graph stays with  *)
(* its workflow - on screen, in its history, in the database and on the    *)
(* way there - and the history within its cap (graph/store.ts).            *)
THEOREM TypeCorrect == Spec => []TypeOK
<1>1. EInv => TypeOK
  BY DEF EInv
<1> QED
  BY <1>1, EInvCorrect, PTL

(* What the user made of a loaded graph and the database does not hold is  *)
(* on its way there, or a save has failed (save, scheduleAutosave).        *)
THEOREM EditsCorrect == Spec => []EditsAreOnTheWay
<1>1. EInv => EditsAreOnTheWay
  BY DEF EInv, Carried, EditsAreOnTheWay
<1> QED
  BY <1>1, EInvCorrect, PTL

=============================================================================
