----------------------------- MODULE GraphChecks -----------------------------
(***************************************************************************)
(* What the program thinks of a workflow's graph.  The same rules are      *)
(* written four times: where a wire is drawn (canConnect), in the check    *)
(* before a run (validateWorkflow), in the preflight panel (lintGraph) and *)
(* in the control server (validate_graph); a loop is looked for by two     *)
(* depth-first walks, by counting wires twice, and by following the wires  *)
(* from one node.                                                          *)
(*                                                                         *)
(* A graph is a set of nodes and a bag of wires: the same ports can be     *)
(* wired twice; and it says which nodes have no time limit that is one.    *)
(* What else a node is (its ports, their types) belongs to the node.       *)
(* Lists of nodes are in the order of the nodes' numbers, which are all    *)
(* different: no check but the control server's looks at that.  Warnings   *)
(* are left out.                                                           *)
(***************************************************************************)
EXTENDS NodeOrder, Bags, SequencesExt

CONSTANTS
  Outputs,   \* of each node: its output ports and the type of each
  Inputs,    \* of each node: its input ports and the type of each
  Required,  \* <<node, port>>: inputs that must be wired
  Multiple,  \* <<node, port>>: inputs that take more than one wire
  Controlling,   \* the nodes of the control category
  Compat     \* of each type: the types it flows into, besides itself

ASSUME ChecksAssumption ==
  /\ Controlling \subseteq Nodes
  /\ \A p \in Required \cup Multiple : p[1] \in Nodes /\ p[2] \in DOMAIN Inputs[p[1]]

Wires(g) == DOMAIN g.wires
Copies(g, l) == IF l \in Wires(g) THEN g.wires[l] ELSE 0
Into(g, n, p) == {l \in Wires(g) : l.to = n /\ l.tp = p}

(* The list of wires: two between the same ports are two.                 *)
Each(g) == UNION {{l} \X (1 .. Copies(g, l)) : l \in Wires(g)}

Onward(g, n) == {l.to : l \in {w \in Wires(g) : w.from = n}}

Joined(g, l) == l.from \in g.nodes /\ l.to \in g.nodes
HasPorts(l) == l.fp \in DOMAIN Outputs[l.from] /\ l.tp \in DOMAIN Inputs[l.to]

PortsCompatible(s, t) == s = "any" \/ t = "any" \/ s = t \/ t \in Compat[s]
Fits(l) == PortsCompatible(Outputs[l.from][l.fp], Inputs[l.to][l.tp])

OpenInputs(g) == {p \in Required : p[1] \in g.nodes /\ Into(g, p[1], p[2]) = {}}

-----------------------------------------------------------------------------
(* The walks.                                                              *)

(* One step of the depth-first walk: from the last node on the way to one  *)
(* that is not done, or, if there is none, back.  With nothing on the way  *)
(* it starts at another node.  Which node is next, where there are several, *)
(* is left to CHOOSE.                                                      *)
Walking == [way : Seq(Nodes), done : SUBSET Nodes, found : BOOLEAN]
WalkOn(succ, nodes) ==
  [st \in Walking |->
    LET open == (IF st.way = <<>> THEN nodes ELSE succ[Last(st.way)]) \ st.done
        next == CHOOSE n \in open : TRUE
    IN  IF st.found \/ (st.way = <<>> /\ open = {}) THEN st
        ELSE IF open = {} THEN [way |-> Front(st.way), done |-> st.done \cup {Last(st.way)},
                                found |-> FALSE]
        ELSE IF next \in ToSet(st.way) THEN [st EXCEPT !.found = TRUE]
        ELSE [st EXCEPT !.way = Append(@, next)]]

(* Some walk from one of the nodes comes back to where it was.  A node is  *)
(* entered once and left once.                                             *)
WalkFindsLoop(succ, nodes) ==
  LET walk[i \in 0 .. 2 * NumNodes] ==
        IF i = 0 THEN [way |-> <<>>, done |-> {}, found |-> FALSE]
        ELSE WalkOn(succ, nodes)[walk[i - 1]]
  IN  walk[2 * NumNodes].found

(* Nodes are taken in turn; one is added when its last wire is taken off.  *)
Counting == [queue : Seq(Nodes), order : Seq(Nodes), left : [Nodes -> Int]]
Between(wires, s, t) == {w \in wires : w[1].from = s /\ w[1].to = t}
\* Mutant: of two wires between the same nodes only one is taken off.
TakeOneOff(wires) ==
  [st \in Counting |->
    IF st.queue = <<>> THEN st
    ELSE LET id    == Head(st.queue)
             left  == [n \in Nodes |-> st.left[n] - (IF Between(wires, id, n) # {} THEN 1 ELSE 0)]
             ready == {n \in Nodes : Between(wires, id, n) # {} /\ left[n] = 0}
         IN  [queue |-> Tail(st.queue) \o InNodeOrder(ready),
              order |-> Append(st.order, id), left |-> left]]
TakeOff(wires) ==
  [st \in Counting |->
    IF st.queue = <<>> THEN st
    ELSE LET id    == Head(st.queue)
             left  == [n \in Nodes |-> st.left[n] - Cardinality(Between(wires, id, n))]
             ready == {n \in Nodes : Between(wires, id, n) # {} /\ left[n] = 0}
         IN  [queue |-> Tail(st.queue) \o InNodeOrder(ready),
              order |-> Append(st.order, id), left |-> left]]

(* Wires that arrive are counted; those among them that can be followed    *)
(* are taken off.                                                          *)
Reduce(arriving, followed, nodes) ==
  LET indeg == [n \in Nodes |-> Cardinality({w \in arriving : w[1].to = n})]
      rounds[i \in 0 .. NumNodes] ==
        IF i = 0
        THEN [queue |-> InNodeOrder({n \in nodes : indeg[n] = 0}), order |-> <<>>, left |-> indeg]
        ELSE TakeOff(followed)[rounds[i - 1]]
  IN  rounds[NumNodes].order

(* The nodes that wires lead to from a node: the search takes any node off *)
(* the stack, and puts there what it has not seen.                         *)
Searching == [stack : SUBSET Nodes, seen : SUBSET Nodes]
LookOn(succ) ==
  [st \in Searching |->
    IF st.stack = {} THEN st
    ELSE LET cur == CHOOSE n \in st.stack : TRUE
         IN  [stack |-> (st.stack \ {cur}) \cup (succ[cur] \ st.seen),
              seen  |-> st.seen \cup succ[cur]]]

Follow(succ, start) ==
  LET search[i \in 0 .. NumNodes + 1] ==
        IF i = 0 THEN [stack |-> {start}, seen |-> {}] ELSE LookOn(succ)[search[i - 1]]
  IN  search[NumNodes + 1].seen

-----------------------------------------------------------------------------
(* validation.ts: the check before a run, and the order of the run.        *)

(* Wires that leave a node that is not there are not followed.             *)
Adjacent(g) == [n \in Nodes |-> IF n \in g.nodes THEN Onward(g, n) ELSE {}]

FindCycle(g) == WalkFindsLoop(Adjacent(g), g.nodes)

(* topoSort counts every wire that arrives.  It throws when the order is   *)
(* not as long as the list of nodes.                                       *)
TopoSort(g) == Reduce(Each(g), {w \in Each(g) : w[1].from \in g.nodes}, g.nodes)
Throws(g) == Len(TopoSort(g)) # Cardinality(g.nodes)

(* The errors of validateWorkflow, by kind.  An empty graph has none.      *)
Errors(g) ==
  LET joined == {l \in Wires(g) : Joined(g, l)}
      whole == {l \in joined : HasPorts(l)}
      found ==
        [open        |-> \E p \in OpenInputs(g) : p[1] \notin Controlling,
         openControl |-> \E p \in OpenInputs(g) : p[1] \in Controlling,
         timeout     |-> g.untimed # {},
         duplicate   |-> \E l \in Wires(g) : Copies(g, l) > 1,
         dangling    |-> joined # Wires(g),
         port        |-> whole # joined,
         type        |-> \E l \in whole : ~Fits(l),
         single      |-> \E l \in whole :
                           /\ <<l.to, l.tp>> \notin Multiple
                           /\ Copies(g, l) > 1 \/ Into(g, l.to, l.tp) # {l},
         cycle       |-> FindCycle(g)]
  IN IF g.nodes = {} THEN {} ELSE {e \in DOMAIN found : found[e]}

-----------------------------------------------------------------------------
(* lint.ts: the errors of the preflight panel.                             *)

(* Whatever the counting leaves over is in a loop, or behind one.          *)
LintCycle(g) ==
  LET inner == {w \in Each(g) : Joined(g, w[1])}
  IN  g.nodes \ ToSet(Reduce(inner, inner, g.nodes)) # {}

\* Mutant: required inputs are not looked at.
LintNoInputs(g) ==
  LET whole == {l \in Wires(g) : Joined(g, l) /\ HasPorts(l)}
      found ==
        [dangling  |-> whole # Wires(g),
         type      |-> \E l \in whole : ~Fits(l),
         duplicate |-> \E l \in whole : Copies(g, l) > 1,
         cycle     |-> LintCycle(g)]
  IN IF g.nodes = {} THEN {} ELSE {e \in DOMAIN found : found[e]}
LintErrors(g) ==
  LET whole == {l \in Wires(g) : Joined(g, l) /\ HasPorts(l)}
      found ==
        [dangling  |-> whole # Wires(g),
         type      |-> \E l \in whole : ~Fits(l),
         duplicate |-> \E l \in whole : Copies(g, l) > 1,
         cycle     |-> LintCycle(g),
         open      |-> \E p \in OpenInputs(g) : p[1] \notin Controlling]
  IN IF g.nodes = {} THEN {} ELSE {e \in DOMAIN found : found[e]}

-----------------------------------------------------------------------------
(* store.ts: may this wire be drawn?                                       *)

\* Mutant: the wires are followed from the wire's source.
CanConnectBackwards(g, l) ==
  /\ l.from # l.to /\ Joined(g, l) /\ HasPorts(l) /\ Fits(l)
  /\ <<l.to, l.tp>> \in Multiple \/ Into(g, l.to, l.tp) = {}
  /\ l.to \notin Follow(Adjacent(g), l.from)
CanConnect(g, l) ==
  /\ l.from # l.to /\ Joined(g, l) /\ HasPorts(l) /\ Fits(l)
  /\ <<l.to, l.tp>> \in Multiple \/ Into(g, l.to, l.tp) = {}
  /\ l.from \notin Follow(Adjacent(g), l.to)

-----------------------------------------------------------------------------
(* control_mcp.rs: the control server's check.                             *)

(* find_cycle starts at the nodes there are, and follows every wire.       *)
ServerFindsCycle(g) == WalkFindsLoop([n \in Nodes |-> Onward(g, n)], g.nodes)

(* An empty graph is refused here.  Wires are taken as the program writes  *)
(* them; the server also reads a list `wires` of [from, to], and before    *)
(* `connections`, which a graph from elsewhere may have.                   *)
\* Mutant: wires of nodes that are not there pass.
ValidateOldWires(g) ==
  /\ g.nodes # {}
  /\ \A l \in Wires(g) : l.from # l.to
  /\ ~ServerFindsCycle(g)
ValidateGraph(g) ==
  /\ g.nodes # {}
  /\ \A l \in Wires(g) : Joined(g, l) /\ l.from # l.to
  /\ ~ServerFindsCycle(g)
=============================================================================
