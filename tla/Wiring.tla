-------------------------------- MODULE Wiring --------------------------------
(***************************************************************************)
(* One workflow's graph and the hands that change it: the user draws and   *)
(* removes on the graph on screen, with undo and redo; what is on screen   *)
(* is saved over the stored graph; an agent that calls the control server  *)
(* reads the stored graph, changes it and queues runs of it.  The screen   *)
(* shows what the agent did only when the application is opened again, and *)
(* a save overwrites it.  Each of them keeps the rules of a graph by       *)
(* checks of its own (GraphChecks).                                        *)
(*                                                                         *)
(* The workflow may have been imported: packageImport takes the graph as   *)
(* the file has it.  Timers, tabs and failed saves are in Editor; templates *)
(* and restored checkpoints, which bring wires of their own, are left out. *)
(* Nothing takes a request from the run queue.                             *)
(***************************************************************************)
EXTENDS GraphChecks

CONSTANTS
  Link,      \* the wires somebody may ask for: [from, fp, to, tp]
  Imported,  \* the graphs the workflow may begin with
  MaxEdits,  \* bound: edits; undo and redo come on top
  MaxCalls   \* bound: calls of the control server

(* A graph that a file or the program can hold.                            *)
IsGraph(g) ==
  /\ g = [nodes |-> g.nodes, wires |-> g.wires, untimed |-> g.untimed]
  /\ g.nodes \subseteq Nodes /\ g.untimed \subseteq g.nodes
  /\ IsABag(g.wires) /\ Wires(g) \subseteq Link /\ IsFiniteSet(Wires(g))

ASSUME WiringAssumption ==
  /\ MaxEdits \in Nat /\ MaxCalls \in Nat
  /\ \A l \in Link : l.from \in Nodes /\ l.to \in Nodes
  /\ \A g \in Imported : IsGraph(g)

VARIABLES
  screen, past, future,  \* the store
  saving,               \* graphs on their way to the database
  stored,               \* workflows.graph_json
  queue,                \* run requests of this workflow
  edits, calls,
  shaped                \* history: the graph it began with was in order

store == <<screen, past, future>>
drawVars == <<store, saving, stored, queue, edits, calls, shaped>>

Held == {screen, stored} \cup ToSet(past) \cup ToSet(future) \cup ToSet(saving)

(* A graph that can be run as far as its wires go, but for their types:    *)
(* every wire joins ports that are there, no port takes more wires than it *)
(* should, nothing waits for itself.                                       *)
Loopless(g) ==
  \A C \in SUBSET g.nodes : C # {} =>
    \E n \in C : \A l \in Wires(g) : l.to = n => l.from \notin C
Shaped(g) ==
  /\ \A l \in Wires(g) : Joined(g, l) /\ HasPorts(l)
  /\ \A l \in Wires(g) : <<l.to, l.tp>> \in Multiple \/ (Copies(g, l) = 1 /\ Into(g, l.to, l.tp) = {l})
  /\ Loopless(g)

DrawTypeOK ==
  /\ \A g \in Held : IsGraph(g)
  /\ queue \in 0 .. MaxCalls /\ Len(saving) <= 1
  /\ edits \in 0 .. MaxEdits /\ calls \in 0 .. MaxCalls /\ shaped \in BOOLEAN

DrawInit ==
  /\ screen \in Imported /\ stored = screen
  /\ past = <<>> /\ future = <<>> /\ saving = <<>>
  /\ queue = 0 /\ edits = 0 /\ calls = 0
  /\ shaped = Shaped(screen)

-----------------------------------------------------------------------------
(* On screen.                                                              *)

AddWire(g, l) == [g EXCEPT !.wires = @ (+) SetToBag({l})]
RemoveWire(g, l) == [g EXCEPT !.wires = @ (-) SetToBag({l})]
WithoutWires(g, ls) == [g EXCEPT !.wires = [l \in DOMAIN @ \ ls |-> @[l]]]

WithHistory(g) ==
  /\ edits < MaxEdits
  /\ edits' = edits + 1
  /\ screen' = g /\ past' = Append(past, screen) /\ future' = <<>>
  /\ UNCHANGED <<saving, stored, queue, calls, shaped>>

(* addNode, duplicateNode, pasteNodes: a node of its own, with no wires.   *)
(* (A copy of a node without a time limit takes a SetTimeout more.)        *)
AddNode(n) ==
  /\ \A g \in Held : n \notin g.nodes \cup {l.from : l \in Wires(g)} \cup {l.to : l \in Wires(g)}
  /\ WithHistory([screen EXCEPT !.nodes = @ \cup {n}])

DeleteNodes(ns) ==
  /\ ns # {} /\ ns \subseteq screen.nodes
  /\ WithHistory(WithoutWires([screen EXCEPT !.nodes = @ \ ns, !.untimed = @ \ ns],
                              {l \in Wires(screen) : l.from \in ns \/ l.to \in ns}))

(* updateNode: the inspector takes any number for a time limit.            *)
SetTimeout(n) ==
  /\ n \in screen.nodes
  /\ WithHistory([screen EXCEPT !.untimed = IF n \in @ THEN @ \ {n} ELSE @ \cup {n}])

Connect(l) == CanConnect(screen, l) /\ WithHistory(AddWire(screen, l))

Disconnect(l) == l \in Wires(screen) /\ WithHistory(RemoveWire(screen, l))

Undo ==
  /\ past # <<>>
  /\ screen' = Last(past) /\ past' = Front(past) /\ future' = <<screen>> \o future
  /\ UNCHANGED <<saving, stored, queue, edits, calls, shaped>>

Redo ==
  /\ future # <<>>
  /\ screen' = Head(future) /\ past' = Append(past, screen) /\ future' = Tail(future)
  /\ UNCHANGED <<saving, stored, queue, edits, calls, shaped>>

(* The autosave, Ctrl+S, or a run: the graph as it is now goes to the      *)
(* database, and is the stored one some time later.                        *)
Save ==
  /\ saving = <<>>
  /\ saving' = <<screen>>
  /\ UNCHANGED <<store, stored, queue, edits, calls, shaped>>

Saved ==
  /\ saving # <<>>
  /\ stored' = Head(saving) /\ saving' = Tail(saving)
  /\ UNCHANGED <<store, queue, edits, calls, shaped>>

(* The application is closed and opened: the screen shows what is stored,  *)
(* and a graph that was on its way is lost.                                *)
Reopen ==
  /\ screen' = stored /\ past' = <<>> /\ future' = <<>> /\ saving' = <<>>
  /\ UNCHANGED <<stored, queue, edits, calls, shaped>>

-----------------------------------------------------------------------------
(* The control server, on the stored graph.                                *)

Calling ==
  /\ calls < MaxCalls
  /\ calls' = calls + 1
  /\ UNCHANGED <<store, saving, edits, shaped>>

(* connect_ports: no type is looked at, and a port that has a wire takes   *)
(* no other, whatever the port says.                                       *)
\* Mutant: the loop is looked for in the graph as it is.
ConnectPortsAsIs(l) ==
  /\ Joined(stored, l) /\ l.from # l.to /\ HasPorts(l)
  /\ Into(stored, l.to, l.tp) = {}
  /\ ~ServerFindsCycle(stored)
  /\ stored' = AddWire(stored, l)
  /\ Calling /\ UNCHANGED queue
ConnectPorts(l) ==
  /\ Joined(stored, l) /\ l.from # l.to /\ HasPorts(l)
  /\ Into(stored, l.to, l.tp) = {}
  /\ ~ServerFindsCycle(AddWire(stored, l))
  /\ stored' = AddWire(stored, l)
  /\ Calling /\ UNCHANGED queue

(* disconnect_ports: one wire by its id, or all between two nodes; a call   *)
(* that names both does both, as two calls.                                *)
DisconnectPorts(l) ==
  /\ l \in Wires(stored)
  /\ stored' \in {RemoveWire(stored, l),
                  WithoutWires(stored, {w \in Wires(stored) : w.from = l.from /\ w.to = l.to})}
  /\ Calling /\ UNCHANGED queue

(* run_workflow.                                                           *)
RunWorkflow ==
  /\ ValidateGraph(stored)
  /\ queue' = queue + 1
  /\ Calling /\ UNCHANGED stored

DrawNext ==
  \/ \E n \in Nodes : AddNode(n) \/ SetTimeout(n)
  \/ \E ns \in SUBSET Nodes : DeleteNodes(ns)
  \/ \E l \in Link : Connect(l) \/ Disconnect(l) \/ ConnectPorts(l) \/ DisconnectPorts(l)
  \/ Undo \/ Redo \/ Save \/ Saved \/ Reopen \/ RunWorkflow

DrawSpec == DrawInit /\ [][DrawNext]_drawVars

-----------------------------------------------------------------------------
(* Properties.                                                             *)

(* A run that the check lets through is put in order: topoSort does not    *)
(* throw, every node has its turn once, and after all that feed it.        *)
RunnableIsOrdered ==
  Errors(screen) = {} =>
    LET order == TopoSort(screen) IN
    /\ ~Throws(screen)
    /\ ToSet(order) = screen.nodes
    /\ \A i, j \in DOMAIN order :
         order[j] \in Onward(screen, order[i]) => i < j

(* "errors refuse the run": the panel has an error exactly when the check  *)
(* before a run has one, but for the three things the panel does not look  *)
(* at: inputs of control nodes, inputs with too many wires, time limits.   *)
Unlinted == {"openControl", "single", "timeout"}
LintAgrees == LintErrors(screen) # {} <=> Errors(screen) \ Unlinted # {}

(* The canvas offers the wires that the check before a run will take, and  *)
(* all of them: on a graph whose only errors are open inputs and limits, a *)
(* wire can be drawn exactly when it brings no error, but for the second   *)
(* between the same ports, which can be drawn into a port that takes many. *)
Tolerated == {"open", "openControl", "timeout", "duplicate"}
ConnectIsExact ==
  Errors(screen) \subseteq Tolerated =>
    \A l \in Link : CanConnect(screen, l) <=>
      screen.nodes # {} /\ Errors(AddWire(screen, l)) \subseteq Tolerated

(* A graph that began in order stays so wherever it is held: on screen, in *)
(* the history, on the way to the database and in it, although user and    *)
(* agent change it unseen by each other, each on a graph of their own.     *)
StaysShaped == shaped => \A g \in Held : Shaped(g)

(* The control server queues no run that the scheduler could not order.    *)
QueuedCanBeOrdered == [][queue' > queue => ~Throws(stored)]_drawVars

-----------------------------------------------------------------------------
(* What comments say and the code does not keep.                           *)

(* Canvas.tsx:282 "the magnet never offers a wire the graph would refuse": *)
(* it offers a second wire between the same ports, an error of the check   *)
(* before a run.                                                           *)
OffersNoRefusedWire ==
  Errors(screen) \subseteq {"open", "openControl", "timeout"} =>
    \A l \in Link : CanConnect(screen, l) => "duplicate" \notin Errors(AddWire(screen, l))

(* "must refuse to queue it rather than queue a promise that cannot        *)
(* deliver" (control_mcp.rs:125): the server looks at no types, no ports   *)
(* and no open inputs, so it queues what the check before a run refuses.   *)
QueuedCanRun == [][queue' > queue => Errors(stored) = {}]_drawVars
=============================================================================
