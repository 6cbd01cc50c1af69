------------------------------- MODULE MCWiring -------------------------------
(* Instance of Wiring for TLC: two agents and a control node, each with an *)
(* output and an input, so that loops of one, two and three nodes can be   *)
(* wired; the second agent has an input that takes many wires.  The types  *)
(* flow one way only.                                                      *)
EXTENDS Wiring

MCOutputs == <<[out |-> "AgentResult"], [out |-> "Text"], [out |-> "any"]>>
MCInputs  == <<[in |-> "Text"], [in |-> "AgentResult", more |-> "any"], [in |-> "any"]>>
MCRequired == {<<2, "more">>, <<3, "in">>}
MCMultiple == {<<2, "more">>}
MCControlling  == {3}

(* An extract of the table in dataTypes.ts.                                *)
MCCompat == [AgentResult |-> {"AgentResult", "Text"}, Text |-> {"Text"}, any |-> {}]

Wire(s, sp, t, tp) == [from |-> s, fp |-> sp, to |-> t, tp |-> tp]

(* Between the plain ports; into the port that takes many; of a node to    *)
(* itself; and "old", a port that the node does not have, or no longer.    *)
Plain == {l \in {Wire(s, "out", t, "in") : s, t \in Nodes} : l.from # l.to}
MCLink ==
  Plain \cup {Wire(1, "out", 2, "more"), Wire(3, "out", 2, "more"), Wire(2, "out", 2, "in"),
              Wire(1, "old", 2, "in"), Wire(2, "out", 3, "old")}

Graph(nodes, wires) == [nodes |-> nodes, wires |-> SetToBag(wires), untimed |-> {}]

(* Files hold anything: no wire, any one wire, any second one beside the   *)
(* one from 1 to 2, loops of three, wires whose node is not there, and a   *)
(* node without a time limit.                                              *)
Pairs == {ls \in kSubset(2, MCLink) : Wire(1, "out", 2, "in") \in ls}
Round(a, b, c) == {Wire(a, "out", b, "in"), Wire(b, "out", c, "in"), Wire(c, "out", a, "in")}
MCImported ==
  {Graph(Nodes, ls) : ls \in kSubset(0, MCLink) \cup kSubset(1, MCLink) \cup Pairs}
  \cup {Graph(Nodes, Round(1, 2, 3)), Graph(Nodes, Round(1, 3, 2))}
  \cup {Graph({1, 3}, {l}) : l \in {w \in Plain : 2 \in {w.from, w.to}}}
  \cup {Graph({}, {}), Graph({1, 2}, {}), [Graph({1, 2}, {}) EXCEPT !.untimed = {1}]}
=============================================================================
