-------------------------------- MODULE Editor --------------------------------
(***************************************************************************)
(* The workflow editor: the graph on screen with its history, the delayed  *)
(* autosave, and the tabs that bring another workflow on screen.           *)
(*                                                                         *)
(* A save takes the graph as it is, hands it to the database and goes on   *)
(* when the answer is there; the user edits meanwhile, and may have asked  *)
(* for another workflow behind it.  The database answers in the order it   *)
(* was asked.  Opening takes the workflow from the list the page keeps,    *)
(* which is read again only when a workflow is created.                    *)
(*                                                                         *)
(* Graphs are told apart by their workflow and by the edit that made them. *)
(* The autosave is on, as it is unless the user turns it off; imports and  *)
(* the closing of tabs are left out.                                       *)
(***************************************************************************)
EXTENDS Integers, Sequences, SequencesExt

CONSTANTS
  NumWorkflows, \* bound: workflows ever created
  NumListed,    \* those there are when the application is opened
  HistoryCap,   \* entries of a history (100 in the code)
  MaxEdits,     \* bound: edits
  MaxMoves,     \* bound: undo and redo
  MaxSaves      \* bound: saves under way at once

ASSUME EditorAssumption ==
  /\ NumWorkflows \in Nat /\ NumListed \in 1 .. NumWorkflows
  /\ HistoryCap \in Nat \ {0}
  /\ MaxEdits \in Nat /\ MaxMoves \in Nat /\ MaxSaves \in Nat

Workflow == 1 .. NumWorkflows

VARIABLES
  disk,       \* the graph the database holds of each workflow
  workflows,  \* the page's list: the graphs as they were when it was read
  openTabs,
  workflowId, \* the workflow on screen
  graph, dirty, past, future,   \* the store
  saveTimer,  \* an autosave is scheduled
  saves,      \* saves under way, and what waits for them
  creating,   \* where createWorkflow is after its save
  known,      \* workflows created so far
  edits, moves,
  touched,    \* history: the graph was changed since it was loaded
  failed      \* history: a save failed since the graph was changed last

store  == <<workflowId, graph, dirty, past, future>>
pages  == <<workflows, openTabs, creating, known>>
bounds == <<edits, moves>>
vars == <<disk, store, saveTimer, saves, pages, bounds, touched, failed>>

(* What the workflow w can have looked like: nothing, or some edit of it.  *)
GraphOf(w) == [of : {w}, no : 0 .. MaxEdits]
AnyGraph == [of : Workflow, no : 0 .. MaxEdits]
Empty(w) == [of |-> w, no |-> 0]

(* then: what goes on once a save is over.  to and copy: the workflow a    *)
(* click asks for, and its graph in the page's list of that moment.        *)
Save ==
  [graph : AnyGraph, then : {"nothing", "open", "create"}, to : Workflow, copy : AnyGraph]

(* Whatever is on screen, in its history, in the database or on the way    *)
(* there under the name of a workflow is a graph of that workflow,         *)
(* although saves, timers and loads overlap; and the history is never      *)
(* longer than its cap.                                                    *)
TypeOK ==
  /\ known \in NumListed .. NumWorkflows /\ workflowId \in 1 .. known
  /\ openTabs \subseteq 1 .. known
  /\ disk \in [Workflow -> AnyGraph] /\ workflows \in [Workflow -> AnyGraph]
  /\ \A w \in Workflow : disk[w] \in GraphOf(w) /\ workflows[w] \in GraphOf(w)
  /\ graph \in GraphOf(workflowId)
  /\ past \in Seq(GraphOf(workflowId)) /\ future \in Seq(GraphOf(workflowId))
  /\ Len(past) + Len(future) <= HistoryCap
  /\ saves \in Seq(Save) /\ Len(saves) <= MaxSaves
  /\ \A i \in DOMAIN saves : saves[i].then = "open" =>
       saves[i].to \in 1 .. known /\ saves[i].copy.of = saves[i].to
  /\ creating \in {"no", "save", "list", "load"}
  /\ dirty \in BOOLEAN /\ saveTimer \in BOOLEAN /\ touched \in BOOLEAN /\ failed \in BOOLEAN
  /\ edits \in 0 .. MaxEdits /\ moves \in 0 .. MaxMoves

-----------------------------------------------------------------------------
(* The store.                                                              *)

LastOf(list, n) == SubSeq(list, IF Len(list) > n THEN Len(list) - n + 1 ELSE 1, Len(list))

\* Mutant: the present state is added to a history that is full.
RememberAll == Append(past, graph)
Remember == Append(LastOf(past, HistoryCap - 1), graph)

Becomes(g) ==
  /\ graph' = g
  /\ dirty' = TRUE
  /\ touched' = TRUE
  /\ failed' = FALSE

(* save(): the graph g is taken as it is now, and the database is asked.   *)
Saving(g, then, to, copy) ==
  /\ Len(saves) < MaxSaves
  /\ saves' = Append(saves, [graph |-> g, then |-> then, to |-> to, copy |-> copy])

(* loadWorkflow: the pending autosave is not cancelled; it will save what  *)
(* is on screen by then.                                                   *)
\* Mutant: the history of the workflow before stays.
LoadOverHistory(w, g) ==
  /\ workflowId' = w /\ graph' = g /\ dirty' = FALSE
  /\ touched' = FALSE /\ failed' = FALSE
  /\ UNCHANGED <<past, future>>
LoadWorkflow(w, g) ==
  /\ workflowId' = w /\ graph' = g /\ dirty' = FALSE
  /\ past' = <<>> /\ future' = <<>>
  /\ touched' = FALSE /\ failed' = FALSE

(* withHistory: adding, deleting, wiring, laying out; a named checkpoint   *)
(* that is brought back is saved in the same turn.                         *)
WithHistory ==
  /\ edits < MaxEdits
  /\ edits' = edits + 1
  /\ Becomes([of |-> workflowId, no |-> edits'])
  /\ past' = Remember /\ future' = <<>>
  /\ saveTimer' = TRUE
  /\ UNCHANGED <<disk, workflowId, pages, moves>>

Edit == WithHistory /\ UNCHANGED saves

RestoreGraph == WithHistory /\ Saving(graph', "nothing", workflowId, graph')

(* updateNodeLive, moveNodes, setViewport, rename: no entry of the history *)
(* is made, and none is dropped.                                           *)
EditLive ==
  /\ edits < MaxEdits
  /\ edits' = edits + 1
  /\ Becomes([of |-> workflowId, no |-> edits'])
  /\ saveTimer' = TRUE
  /\ UNCHANGED <<disk, workflowId, past, future, saves, pages, moves>>

(* checkpoint: a field that was edited live is left.                       *)
Checkpoint ==
  /\ moves < MaxMoves
  /\ moves' = moves + 1
  /\ past' = Remember /\ future' = <<>>
  /\ dirty' = TRUE
  /\ UNCHANGED <<disk, workflowId, graph, saveTimer, saves, pages, edits, touched, failed>>

\* Mutant: the undone graph is not scheduled to be saved.
UndoUnsaved ==
  /\ moves < MaxMoves /\ past # <<>>
  /\ moves' = moves + 1
  /\ Becomes(Last(past))
  /\ past' = Front(past)
  /\ future' = SubSeq(<<graph>> \o future, 1, IF Len(future) < HistoryCap THEN Len(future) + 1 ELSE HistoryCap)
  /\ UNCHANGED <<disk, workflowId, saveTimer, saves, pages, edits>>
Undo ==
  /\ moves < MaxMoves /\ past # <<>>
  /\ moves' = moves + 1
  /\ Becomes(Last(past))
  /\ past' = Front(past)
  /\ future' = SubSeq(<<graph>> \o future, 1, IF Len(future) < HistoryCap THEN Len(future) + 1 ELSE HistoryCap)
  /\ saveTimer' = TRUE
  /\ UNCHANGED <<disk, workflowId, saves, pages, edits>>

Redo ==
  /\ moves < MaxMoves /\ future # <<>>
  /\ moves' = moves + 1
  /\ Becomes(Head(future))
  /\ past' = Append(past, graph)
  /\ future' = Tail(future)
  /\ saveTimer' = TRUE
  /\ UNCHANGED <<disk, workflowId, saves, pages, edits>>

-----------------------------------------------------------------------------
SaveNow ==
  /\ Saving(graph, "nothing", workflowId, graph)
  /\ UNCHANGED <<disk, store, saveTimer, pages, bounds, touched, failed>>

Autosave ==
  /\ saveTimer
  /\ Saving(graph, "nothing", workflowId, graph)
  /\ saveTimer' = FALSE
  /\ UNCHANGED <<disk, store, pages, bounds, touched, failed>>

(* openWorkflow: a tab is clicked, that of the workflow on screen too.     *)
ClickTab(w) ==
  /\ w \in openTabs
  /\ Saving(graph, "open", w, workflows[w])
  /\ UNCHANGED <<disk, store, saveTimer, pages, bounds, touched, failed>>

(* createWorkflow, one at a time (a bound).                                *)
ClickNew ==
  /\ creating = "no" /\ known < NumWorkflows
  /\ Saving(graph, "create", workflowId, graph)
  /\ creating' = "save"
  /\ UNCHANGED <<disk, store, saveTimer, workflows, openTabs, known, bounds, touched, failed>>

(* What waits for a save goes on, whether it failed or not.                *)
GoesOn(s) ==
  /\ creating' = IF s.then = "create" THEN "list" ELSE creating
  /\ saves' = Tail(saves)
  /\ UNCHANGED <<saveTimer, workflows, openTabs, known, bounds>>

(* The database has the graph: whatever is on screen now counts as saved.  *)
\* Mutant: the answer takes the pending autosave with it.
SavedClearsTimer ==
  /\ saves # <<>>
  /\ LET s == Head(saves) IN
     /\ disk' = [disk EXCEPT ![s.graph.of] = s.graph]
     /\ creating' = IF s.then = "create" THEN "list" ELSE creating
     /\ saves' = Tail(saves)
     /\ saveTimer' = FALSE
     /\ UNCHANGED <<workflows, openTabs, known, bounds>>
     /\ IF s.then = "open" THEN LoadWorkflow(s.to, s.copy)
        ELSE dirty' = FALSE /\ UNCHANGED <<workflowId, graph, past, future, touched, failed>>
Saved ==
  /\ saves # <<>>
  /\ LET s == Head(saves) IN
     /\ disk' = [disk EXCEPT ![s.graph.of] = s.graph]
     /\ GoesOn(s)
     /\ IF s.then = "open" THEN LoadWorkflow(s.to, s.copy)
        ELSE dirty' = FALSE /\ UNCHANGED <<workflowId, graph, past, future, touched, failed>>

(* "autosave failed" is logged, and nothing is tried again.                *)
SaveFails ==
  /\ saves # <<>>
  /\ LET s == Head(saves) IN
     /\ GoesOn(s)
     /\ IF s.then = "open" THEN LoadWorkflow(s.to, s.copy)
        ELSE failed' = TRUE /\ UNCHANGED <<store, touched>>
  /\ UNCHANGED disk

-----------------------------------------------------------------------------
(* createWorkflow after its save: the workflow is created and the list     *)
(* read; then it is loaded.                                                *)
Create ==
  /\ creating = "list" /\ known < NumWorkflows
  /\ known' = known + 1
  /\ workflows' = disk
  /\ creating' = "load"
  /\ UNCHANGED <<disk, store, saveTimer, saves, openTabs, bounds, touched, failed>>

LoadCreated ==
  /\ creating = "load"
  /\ creating' = "no"
  /\ LoadWorkflow(known, disk[known])
  /\ openTabs' = openTabs \union {known}
  /\ UNCHANGED <<disk, saveTimer, saves, workflows, known, bounds>>

(* The application is closed and opened: the list is read, and the         *)
(* workflow saved last comes on screen.                                    *)
Restart ==
  /\ workflows' = disk
  /\ \E w \in 1 .. known : LoadWorkflow(w, disk[w]) /\ openTabs' = {w}
  /\ saveTimer' = FALSE /\ saves' = <<>> /\ creating' = "no"
  /\ UNCHANGED <<disk, known, bounds>>

-----------------------------------------------------------------------------
Init ==
  /\ disk = [w \in Workflow |-> Empty(w)]
  /\ workflows = disk /\ openTabs = {1}
  /\ workflowId = 1 /\ graph = Empty(1) /\ dirty = FALSE
  /\ past = <<>> /\ future = <<>>
  /\ saveTimer = FALSE /\ saves = <<>> /\ creating = "no" /\ known = NumListed
  /\ edits = 0 /\ moves = 0 /\ touched = FALSE /\ failed = FALSE

Answer == Saved \/ SaveFails

Next ==
  \/ Edit \/ RestoreGraph \/ EditLive \/ Checkpoint \/ Undo \/ Redo
  \/ SaveNow \/ Autosave \/ ClickNew \/ \E w \in Workflow : ClickTab(w)
  \/ Answer \/ Create \/ LoadCreated \/ Restart

(* The timer fires - the user pauses now and then for as long as it takes  *)
(* - and the database answers.                                             *)
Spec == Init /\ [][Next]_vars /\ WF_vars(Autosave) /\ WF_vars(Answer)

-----------------------------------------------------------------------------
(* An edit is never forgotten: while what the user made of the loaded      *)
(* graph is not what the database holds, an autosave is scheduled, or the  *)
(* last save under way carries it - unless a save has failed.  The dirty   *)
(* flag does not tell (SavedMeansSaved), the timer does.                   *)
CarriedBy(i) ==
  /\ saves[i].graph = graph
  /\ \A j \in DOMAIN saves : j > i => saves[j].graph.of # workflowId
EditsAreOnTheWay ==
  touched /\ disk[workflowId] # graph =>
    saveTimer \/ failed \/ \E i \in DOMAIN saves : CarriedBy(i)

(* So what the user edits, undoes and redoes comes to be in the database,  *)
(* unless a save fails or another workflow is brought on screen before.    *)
EditsReachTheDisk ==
  \A w \in Workflow :
    workflowId = w /\ touched ~> disk[w] = graph \/ failed \/ ~touched

(* The status line says "unsaved" if the store is dirty, and "saved" if it *)
(* is not.  The code does not keep this: an edit made while a save is      *)
(* under way is called saved by its answer.                                *)
SavedMeansSaved == ~dirty => disk[workflowId] = graph

(* A graph that comes on screen is the one the database holds.  The code   *)
(* does not keep this: the page's list is not read again after a save, so  *)
(* a tab brings back the graph from before it, and the next edit or        *)
(* pending autosave writes that over the saved one.                        *)
OpensWhatIsSaved == [][workflowId' # workflowId => graph' = disk'[workflowId']]_vars
=============================================================================
