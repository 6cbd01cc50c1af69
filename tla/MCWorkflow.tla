----------------------------- MODULE MCWorkflow -----------------------------
(***************************************************************************)
(* Every way to connect four nodes by some of seven edges, two of which    *)
(* close cycles, for three choices of what the nodes are: a branch over an *)
(* agent and a capability that meet again; an approval before a branch; an *)
(* approval between an agent and a capability.                             *)
(***************************************************************************)
EXTENDS Workflow

MCKinds ==
  { <<"branch", "agent", "cap", "step">>,
    <<"approval", "branch", "agent", "cap">>,
    <<"agent", "approval", "branch", "cap">> }

Edge(m, n, p) == [from |-> m, to |-> n, port |-> p]
MCEdges ==
  { Edge(1, 2, "then"), Edge(1, 3, "else"), Edge(2, 3, "then"), Edge(2, 4, "else"),
    Edge(3, 4, "then"), Edge(3, 2, "then"), Edge(4, 1, "then") }

MCGraphs == [kind : MCKinds, conns : SUBSET MCEdges]
=============================================================================
