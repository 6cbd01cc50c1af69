------------------------------ MODULE Workflow ------------------------------
(***************************************************************************)
(* One execution of a workflow graph: runWorkflow walks the nodes in the   *)
(* order of topoSort, one at a time, while the user pauses, resumes and    *)
(* cancels it and a human decides its approval nodes.                      *)
(*                                                                         *)
(* Payloads are left out: what a node collects, prints and costs.  What a  *)
(* branch evaluates to, and whether a capability or an agent throws, is a  *)
(* free choice.                                                            *)
(***************************************************************************)
EXTENDS NodeOrder, FiniteSets, Functions

CONSTANTS
  Graphs,    \* the graphs runWorkflow is started with: [kind, conns]
  Polls      \* times the scheduler looks for a decision (600 in the code)

Kinds == {"step", "branch", "approval", "cap", "agent"}
Ports == {"then", "else"}  \* a node that is no branch has one output: "then"
Conn  == [from : Nodes, to : Nodes, port : Ports]

ASSUME WorkflowAssumption ==
  /\ Polls \in Nat
  /\ \A g \in Graphs : g.kind \in [Nodes -> Kinds] /\ g.conns \subseteq Conn

VARIABLES
  graph,   \* the graph under way
  order,   \* what topoSort returned
  at,      \* place in order of the node under way
  pc,      \* what runWorkflow is awaiting
  node,    \* each node's last NODE_ event
  skip,    \* targets of branches not taken
  taken,   \* the port each branch put its output on
  paused, cancelled,  \* the controller
  asked,   \* the approval record of each approval node
  polls,   \* looks still to be taken
  failures,\* stats.nodesFailed
  exec,    \* status of the execution record
  late     \* history: nodes started after the cancel

wfVars == <<graph, order, at, pc, node, skip, taken, paused, cancelled, asked,
            polls, failures, exec, late>>

TypeOK ==
  /\ graph \in Graphs
  /\ order \in Seq(Nodes)
  /\ at \in 0 .. NumNodes + 1
  /\ pc \in {"start", "next", "held", "acting", "polling", "streaming", "end"}
  /\ node \in [Nodes -> {"none", "running", "waiting", "streaming",
                         "succeeded", "failed", "blocked"}]
  /\ skip \in SUBSET Nodes
  /\ taken \in [Nodes -> Ports \union {"none"}]
  /\ paused \in BOOLEAN /\ cancelled \in BOOLEAN
  /\ asked \in [Nodes -> {"none", "OPEN", "APPROVED", "REJECTED"}]
  /\ polls \in 0 .. Polls
  /\ failures \in 0 .. NumNodes
  /\ exec \in {"RUNNING", "COMPLETED", "FAILED", "CANCELLED"}
  /\ late \in 0 .. NumNodes

-----------------------------------------------------------------------------
(* topoSort.                                                               *)

(* Targets of n whose in-degree, which counts the edges from nodes that    *)
(* are not done yet, n brings down to zero.                                *)
\* Mutant: a target is ready as soon as one of its sources is done.
ReadyEager(conns, done, n) ==
  {c.to : c \in {d \in conns : d.from = n}} \ done
Ready(conns, done, n) ==
  {m \in {c.to : c \in {d \in conns : d.from = n}} :
     \A c \in conns : c.to = m => c.from \in done \union {n}}

(* One round: the head of the queue goes into the order and the targets it *)
(* makes ready into the queue (in the order of the nodes: connections are  *)
(* a set here, a list in the code).                                        *)
Sorting == [queue : Seq(Nodes), order : Seq(Nodes)]
Round(conns) ==
  [st \in Sorting |->
    IF st.queue = <<>> THEN st
    ELSE LET n == Head(st.queue)
         IN  [queue |-> Tail(st.queue) \o InNodeOrder(Ready(conns, Range(st.order), n)),
              order |-> Append(st.order, n)]]

(* The loop ends with the queue, after at most one round per node.  Nodes  *)
(* of a cycle, and those behind one, never come up.                        *)
topoSort(conns) ==
  LET rounds[i \in 0 .. NumNodes] ==
        IF i = 0
        THEN [queue |-> InNodeOrder({n \in Nodes : \A c \in conns : c.to # n}),
              order |-> <<>>]
        ELSE Round(conns)[rounds[i - 1]]
  IN  rounds[NumNodes].order

-----------------------------------------------------------------------------
Init ==
  /\ graph \in Graphs
  /\ order = <<>> /\ at = 0 /\ pc = "start"
  /\ node = [n \in Nodes |-> "none"]
  /\ skip = {}
  /\ taken = [n \in Nodes |-> "none"]
  /\ paused = FALSE /\ cancelled = FALSE
  /\ asked = [n \in Nodes |-> "none"]
  /\ polls = 0 /\ failures = 0 /\ exec = "RUNNING" /\ late = 0

Here == order[at]
Incoming(n) == {c \in graph.conns : c.to = n}
control == <<paused, cancelled>>

(* The nodes are sorted; a cycle fails the execution at once.              *)
Begin ==
  /\ pc = "start"
  /\ order' = topoSort(graph.conns)
  /\ IF Len(order') = NumNodes
     THEN pc' = "next" /\ at' = 1 /\ UNCHANGED exec
     ELSE pc' = "end" /\ exec' = "FAILED" /\ UNCHANGED at
  /\ UNCHANGED <<graph, node, skip, taken, control, asked, polls, failures, late>>

(* The head of the loop looks at the cancel flag first, and only then      *)
(* waits while paused.                                                     *)
StopCancelled ==
  /\ pc = "next" /\ at <= NumNodes
  /\ cancelled
  /\ pc' = "end" /\ exec' = "CANCELLED"
  /\ UNCHANGED <<graph, order, at, node, skip, taken, control, asked, polls, failures, late>>

Hold ==
  /\ pc = "next" /\ at <= NumNodes
  /\ ~cancelled /\ paused
  /\ pc' = "held"
  /\ UNCHANGED <<graph, order, at, node, skip, taken, control, asked, polls, failures, exec, late>>

\* Mutant: a cancel does not end the waiting.
PassedHoldNotByCancel == \/ pc = "next" /\ ~cancelled /\ ~paused
                         \/ pc = "held" /\ ~paused
\* Mutant: the cancel flag is looked at only while paused.
PassedHoldUnlooked == pc \in {"next", "held"} /\ (~paused \/ cancelled)
(* waitWhilePaused lets go on a resume, or on a cancel.                    *)
PassedHold == \/ pc = "next" /\ ~cancelled /\ ~paused
              \/ pc = "held" /\ (~paused \/ cancelled)

(* A node on a branch not taken is passed over when no live edge feeds it; *)
(* any other starts, whatever became of the nodes that feed it.            *)
Bypassed(n) == n \in skip /\ {c \in Incoming(n) : c.from \notin skip} = {}

Visit ==
  /\ at <= NumNodes /\ PassedHold
  /\ IF Bypassed(Here)
     THEN /\ node' = [node EXCEPT ![Here] = "blocked"]
          /\ pc' = "next" /\ at' = at + 1
          /\ UNCHANGED <<skip, asked, polls, late>>
     ELSE /\ skip' = skip \ {Here}
          /\ late' = IF cancelled THEN late + 1 ELSE late
          /\ UNCHANGED at
          /\ IF graph.kind[Here] = "approval"
             THEN /\ node' = [node EXCEPT ![Here] = "waiting"]
                  /\ asked' = [asked EXCEPT ![Here] = "OPEN"]
                  /\ polls' = Polls /\ pc' = "polling"
             ELSE /\ node' = [node EXCEPT ![Here] = "running"]
                  /\ pc' = "acting" /\ UNCHANGED <<asked, polls>>
  /\ UNCHANGED <<graph, order, taken, control, failures, exec>>

Succeed ==
  /\ node' = [node EXCEPT ![Here] = "succeeded"]
  /\ pc' = "next" /\ at' = at + 1
  /\ UNCHANGED <<graph, order, control, asked, polls, failures, exec, late>>

SucceedPlain == Succeed /\ UNCHANGED <<skip, taken>>

(* stats.nodesFailed, and on to the next node.                             *)
\* Mutant: the failure is not counted.
FailUncounted ==
  /\ node' = [node EXCEPT ![Here] = "failed"]
  /\ pc' = "next" /\ at' = at + 1
  /\ UNCHANGED <<graph, order, skip, taken, control, asked, polls, failures, exec, late>>
Fail ==
  /\ node' = [node EXCEPT ![Here] = "failed"]
  /\ failures' = failures + 1
  /\ pc' = "next" /\ at' = at + 1
  /\ UNCHANGED <<graph, order, skip, taken, control, asked, polls, exec, late>>

(* One look for a decision.  A rejection fails the node; an approval lets  *)
(* it pass its input on.                                                   *)
Poll ==
  /\ pc = "polling" /\ polls > 0 /\ ~cancelled
  /\ \/ asked[Here] = "APPROVED" /\ SucceedPlain
     \/ asked[Here] = "REJECTED" /\ Fail
     \/ /\ asked[Here] = "OPEN"
        /\ polls' = polls - 1
        /\ UNCHANGED <<graph, order, at, pc, node, skip, taken, control, asked, failures, exec, late>>

(* No more looks, or a cancel: undecided, whatever the record says by now. *)
\* Mutant: silence is consent.
PollOutPasses ==
  /\ pc = "polling"
  /\ polls = 0 \/ cancelled
  /\ SucceedPlain
PollOut ==
  /\ pc = "polling"
  /\ polls = 0 \/ cancelled
  /\ Fail

(* runControlNode: a branch takes one of its ports and marks what hangs on *)
(* the others; capabilities and agents may throw; an agent's text is typed *)
(* out afterwards.                                                         *)
FinishStep ==
  /\ pc = "acting" /\ graph.kind[Here] = "step"
  /\ SucceedPlain

FinishBranch(port) ==
  /\ pc = "acting" /\ graph.kind[Here] = "branch"
  /\ taken' = [taken EXCEPT ![Here] = port]
  /\ skip' = skip \union {c.to : c \in {d \in graph.conns : d.from = Here /\ d.port # port}}
  /\ Succeed

FinishCap(ok) ==
  /\ pc = "acting" /\ graph.kind[Here] = "cap"
  /\ IF ok THEN SucceedPlain ELSE Fail

FinishAgent(ok) ==
  /\ pc = "acting" /\ graph.kind[Here] = "agent"
  /\ IF ok
     THEN /\ pc' = "streaming"
          /\ node' = [node EXCEPT ![Here] = "streaming"]
          /\ UNCHANGED <<graph, order, at, skip, taken, control, asked, polls, failures, exec, late>>
     ELSE Fail

(* The typing waits while paused and is cut short by a cancel; the node    *)
(* has succeeded either way.                                               *)
FinishStream ==
  /\ pc = "streaming"
  /\ ~paused \/ cancelled
  /\ SucceedPlain

Finish ==
  /\ pc = "next" /\ at = NumNodes + 1
  /\ exec' = IF cancelled THEN "CANCELLED"
             ELSE IF failures > 0 THEN "FAILED" ELSE "COMPLETED"
  /\ pc' = "end"
  /\ UNCHANGED <<graph, order, at, node, skip, taken, control, asked, polls, failures, late>>

(* controlExecution, at any time, even after the end (the toolbar of       *)
(* App.tsx learns the execution's id only when runWorkflow has returned).  *)
Pause  == paused' = TRUE  /\ UNCHANGED cancelled
Resume == paused' = FALSE /\ UNCHANGED cancelled
Cancel == cancelled' = TRUE /\ UNCHANGED paused
Control ==
  /\ Pause \/ Resume \/ Cancel
  /\ UNCHANGED <<graph, order, at, pc, node, skip, taken, asked, polls, failures, exec, late>>

(* approvalDecide: the list shows what is open, however late.              *)
DecideApproval(n, decision) ==
  /\ asked[n] = "OPEN"
  /\ asked' = [asked EXCEPT ![n] = decision]
  /\ UNCHANGED <<graph, order, at, pc, node, skip, taken, control, polls, failures, exec, late>>

Loop ==
  \/ Begin \/ StopCancelled \/ Hold \/ Visit
  \/ Poll \/ PollOut \/ FinishStep \/ FinishStream \/ Finish
  \/ \E port \in Ports : FinishBranch(port)
  \/ \E ok \in BOOLEAN : FinishCap(ok) \/ FinishAgent(ok)

Next ==
  \/ Loop
  \/ Control
  \/ \E n \in Nodes, decision \in {"APPROVED", "REJECTED"} : DecideApproval(n, decision)

(* Timers, capabilities and agents come back; nobody has to resume, cancel *)
(* or decide anything.                                                     *)
Spec == Init /\ [][Next]_wfVars /\ WF_wfVars(Loop)
-----------------------------------------------------------------------------
(* Properties.                                                             *)

Ended == {"succeeded", "failed", "blocked"}

(* Nothing starts before everything that feeds it has come to its end: the *)
(* order topoSort computed is one, for every graph it accepts.             *)
SourcesFirst ==
  \A n \in Nodes : node[n] # "none" =>
    \A c \in Incoming(n) : node[c.from] \in Ended

(* An approval node passes only on a human's approval: not on a timeout, a *)
(* cancel, a pause or a rejection.                                         *)
PassedMeansApproved ==
  \A n \in Nodes : graph.kind[n] = "approval" /\ node[n] = "succeeded"
                     => asked[n] = "APPROVED"

(* The execution record tells what happened to the nodes: COMPLETED means  *)
(* that every one succeeded or was passed over, FAILED that a node failed, *)
(* or that the graph has a cycle, and CANCELLED that it was.               *)
RecordTellsTruth ==
  /\ exec = "COMPLETED" => \A n \in Nodes : node[n] \in {"succeeded", "blocked"}
  /\ exec = "FAILED" => \/ \E n \in Nodes : node[n] = "failed"
                        \/ \A n \in Nodes : node[n] = "none"
  /\ exec = "CANCELLED" => cancelled

(* A cancel lets at most one more node start: the one a pause was holding  *)
(* back, which passed the look at the flag before it was set.              *)
AtMostOneAfterCancel == late <= 1

(* The loop comes to its end when it is cancelled, even while paused or    *)
(* waiting for a human who never answers; and when it is not left paused.  *)
RunEnds == (<>cancelled \/ <>[]~paused) => <>(exec # "RUNNING")

(* "A node is bypassed only when it was targeted by a not-taken branch AND *)
(* no live edge still feeds it."  The code does not keep this the way it   *)
(* is meant: the edge of the branch itself counts as live, so a node fed   *)
(* by nothing but a branch that went the other way runs.                   *)
NotTakenNeverRuns ==
  \A n \in Nodes : node[n] \notin {"none", "blocked"} /\ Incoming(n) # {} =>
    \E c \in Incoming(n) : graph.kind[c.from] = "branch" => taken[c.from] = c.port

(* "Coder does not run before approval."  The code does not keep this: a   *)
(* rejected, or undecided, approval node has failed, and a failed node     *)
(* holds nothing back.                                                     *)
NothingBeforeApproval ==
  \A n \in Nodes : node[n] # "none" =>
    \A c \in Incoming(n) : graph.kind[c.from] = "approval" => node[c.from] = "succeeded"
=============================================================================
