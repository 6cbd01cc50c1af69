------------------------------ MODULE NodeOrder ------------------------------
(***************************************************************************)
(* The nodes of a graph are a list, and so are its wires: where the code   *)
(* goes through some of the nodes, it meets them in the order of the list. *)
(***************************************************************************)
EXTENDS Integers, Sequences

CONSTANT NumNodes  \* bound: nodes there can be, named by their place in graph.nodes

ASSUME NodesAssumption == NumNodes \in Nat

Nodes == 1 .. NumNodes

(* The nodes of S, as the list of the graph's nodes has them.              *)
InNodeOrder(S) ==
  LET upTo[n \in 0 .. NumNodes] ==
        IF n = 0 THEN <<>>
        ELSE IF n \in S THEN Append(upTo[n - 1], n) ELSE upTo[n - 1]
  IN  upTo[NumNodes]
=============================================================================
