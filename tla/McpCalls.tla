------------------------------ MODULE McpCalls ------------------------------
(***************************************************************************)
(* The MCP face: the capability router's tools/call, its gate tools, MRTR  *)
(* retries and tasks, over runVouchToolCall, the one governed path of a    *)
(* single tool call.                                                       *)
(*                                                                         *)
(* The stdio server handles one message at a time and awaits it: a call    *)
(* that needs no gate holds the loop until its receipt is minted, a gated  *)
(* one gives it back at once and goes on in the background.  Everything    *)
(* lives in the server process, so a restart is a fresh start.             *)
(***************************************************************************)
EXTENDS RiskTiers, Integers, FiniteSets

CONSTANTS
  NumCalls,     \* bound: tools/call messages; a call is its place in order
  Unknown       \* a name runVouchToolCall does not know, or a dispatch without
                \* an objective; it knows all of Tools

ASSUME CallsAssumption == NumCalls \in Nat
ASSUME CallToolsAssumption == Unknown \notin Tools

Calls == 1 .. NumCalls
Free  == 0              \* the serve loop is reading the next line

VARIABLES
  call,     \* what each runVouchToolCall is doing
  task,     \* the task opened for a call, and how it was cancelled
  told,     \* calls of which the client was told: denied, nothing was executed
  server,   \* the call the serve loop awaits, or Free
  callStatus, callWaiting, callAnswer  \* of the card of each call

CallGate == INSTANCE HumanGate WITH
  Card <- Calls, status <- callStatus, waiting <- callWaiting, answer <- callAnswer

callVars == <<call, task, told, server, risky, callStatus, callWaiting, callAnswer>>

CallPC == {"none", "acting", "gate", "running", "minting", "done"}
Call == [pc : CallPC, tool : Tools \union {Unknown}, simulated : BOOLEAN,
         acted : BOOLEAN, ok : BOOLEAN, receipt : BOOLEAN]

CallsTypeOK ==
  /\ call \in [Calls -> Call]
  /\ task \in [Calls -> {"none", "open", "cancelled_gated", "cancelled_running"}]
  /\ told \in SUBSET Calls
  /\ server \in Calls \union {Free}
  /\ risky \in SUBSET Tools
  /\ CallGate!GateTypeOK

-----------------------------------------------------------------------------
(* What a poll reads.                                                      *)

(* toolCallTracks: only gated calls have one; it says "gated" until a      *)
(* refusal is vouched, "running" until an approved call is.                *)
Track(c) ==
  IF ~call[c].simulated THEN "none"
  ELSE IF call[c].pc = "done" THEN "done"
  ELSE IF callAnswer[c] = "yes" THEN "running" ELSE "gated"

(* tasks/get: a cancellation hides whatever the track says from then on.   *)
TaskView(c) ==
  IF task[c] \in {"cancelled_gated", "cancelled_running"} THEN "cancelled"
  ELSE CASE Track(c) = "gated"   -> "input_required"
         [] Track(c) = "running" -> "working"
         [] Track(c) = "done"    -> "completed"
         [] OTHER                -> "failed"

-----------------------------------------------------------------------------
CallsInit ==
  /\ call = [c \in Calls |-> [pc |-> "none", tool |-> Unknown, simulated |-> FALSE,
                              acted |-> FALSE, ok |-> FALSE, receipt |-> FALSE]]
  /\ task = [c \in Calls |-> "none"]
  /\ told = {}
  /\ server = Free
  /\ risky = BuiltinRisky
  /\ CallGate!GateInit

NextCall(c) ==
  /\ server = Free
  /\ call[c].pc = "none"
  /\ \A d \in 1 .. c - 1 : call[d].pc # "none"

(* A refusal never reaches the tool: it goes straight to its receipt.      *)
CallUnknown(c) ==
  /\ NextCall(c)
  /\ call' = [call EXCEPT ![c].pc = "minting"]
  /\ server' = c
  /\ UNCHANGED <<task, told, risky, callStatus, callWaiting, callAnswer>>

(* A safe call acts at once, and the loop awaits it.                       *)
\* Mutant: the tier is not looked up.
CallSafeUntiered(c, tool) ==
  /\ NextCall(c)
  /\ call' = [call EXCEPT ![c].pc = "acting", ![c].tool = tool, ![c].acted = TRUE]
  /\ server' = c
  /\ UNCHANGED <<task, told, risky, callStatus, callWaiting, callAnswer>>
CallSafe(c, tool) ==
  /\ NextCall(c)
  /\ tool \notin risky
  /\ call' = [call EXCEPT ![c].pc = "acting", ![c].tool = tool, ![c].acted = TRUE]
  /\ server' = c
  /\ UNCHANGED <<task, told, risky, callStatus, callWaiting, callAnswer>>

(* A risky call is simulated and asked for; the client has its answer, the *)
(* approval id, already, and a task handle if it declared the extension.   *)
\* Mutant: blockOnGate is set.
CallRiskyBlocks(c, tool, declared) ==
  /\ NextCall(c)
  /\ tool \in risky
  /\ CallGate!Request(c)
  /\ call' = [call EXCEPT ![c].pc = "gate", ![c].tool = tool, ![c].simulated = TRUE]
  /\ server' = c
  /\ UNCHANGED <<task, told, risky>>
CallRisky(c, tool, declared) ==
  /\ NextCall(c)
  /\ tool \in risky
  /\ CallGate!Request(c)
  /\ call' = [call EXCEPT ![c].pc = "gate", ![c].tool = tool, ![c].simulated = TRUE]
  /\ task' = [task EXCEPT ![c] = IF declared THEN "open" ELSE "none"]
  /\ UNCHANGED <<told, server, risky>>

(* What the answer does to the call, if it is the one that settles the     *)
(* card: granted, it runs; denied, the refusal goes to its receipt.        *)
\* Mutant: an answer wakes the call whether it still waits or not.
SettledAgain(c, ok) ==
  IF ok THEN [call EXCEPT ![c].pc = "running", ![c].acted = TRUE]
  ELSE [call EXCEPT ![c].pc = "minting"]
Settled(c, ok) ==
  IF c \notin callWaiting THEN call
  ELSE IF ok THEN [call EXCEPT ![c].pc = "running", ![c].acted = TRUE]
  ELSE [call EXCEPT ![c].pc = "minting"]

(* approve_action, deny_action, the MRTR retry and tasks/update: whichever *)
(* comes, the card is answered; all but tasks/update say what that means.  *)
Decide(c, ok, inWords) ==
  /\ server = Free
  /\ CallGate!Resolve(c, ok)
  /\ call' = Settled(c, ok)
  /\ told' = IF inWords /\ ~ok THEN told \union {c} ELSE told
  /\ UNCHANGED <<task, server, risky>>

(* tasks/cancel: at the gate it is a denial, later only a label.           *)
\* Mutant: the track is not looked at.
CancelAnyTrack(c) ==
  /\ server = Free
  /\ task[c] # "none"
  /\ CallGate!Resolve(c, FALSE)
  /\ call' = Settled(c, FALSE)
  /\ task' = [task EXCEPT ![c] = "cancelled_gated"]
  /\ UNCHANGED <<told, server, risky>>
Cancel(c) ==
  /\ server = Free
  /\ task[c] # "none"
  /\ \/ /\ Track(c) = "gated"
        /\ CallGate!Resolve(c, FALSE)
        /\ call' = Settled(c, FALSE)
        /\ task' = [task EXCEPT ![c] = "cancelled_gated"]
     \/ /\ Track(c) = "running"
        /\ task' = [task EXCEPT ![c] = "cancelled_running"]
        /\ UNCHANGED <<call, callStatus, callWaiting, callAnswer>>
  /\ UNCHANGED <<told, server, risky>>

(* The tool or the mission comes back, or throws.                          *)
FinishCall(c, ok) ==
  /\ call[c].pc \in {"acting", "running"}
  /\ call' = [call EXCEPT ![c].pc = "minting", ![c].ok = ok]
  /\ UNCHANGED <<task, told, server, risky, callStatus, callWaiting, callAnswer>>

(* The receipt is hashed and kept, or the hashing throws and the call is   *)
(* done without one; either way an awaiting serve loop goes on.            *)
\* Mutant: the loop is not given back.
FinalizeHoldsLoop(c, minted) ==
  /\ call[c].pc = "minting"
  /\ call' = [call EXCEPT ![c].pc = "done", ![c].receipt = minted]
  /\ UNCHANGED <<task, told, server, risky, callStatus, callWaiting, callAnswer>>
Finalize(c, minted) ==
  /\ call[c].pc = "minting"
  /\ call' = [call EXCEPT ![c].pc = "done", ![c].receipt = minted,
                          ![c].ok = @ /\ minted]
  /\ server' = IF server = c THEN Free ELSE server
  /\ UNCHANGED <<task, told, risky, callStatus, callWaiting, callAnswer>>

(* The meta-loop, in the same process.                                     *)
RetierCalls(t) ==
  /\ MoveTier(t)
  /\ UNCHANGED <<call, task, told, server, callStatus, callWaiting, callAnswer>>

Background(c) ==
  \/ \E ok \in BOOLEAN : FinishCall(c, ok)
  \/ \E minted \in BOOLEAN : Finalize(c, minted)

CallsNext ==
  \/ \E c \in Calls :
       \/ CallUnknown(c)
       \/ \E t \in Tools : CallSafe(c, t)
       \/ \E t \in Tools, declared \in BOOLEAN : CallRisky(c, t, declared)
       \/ \E ok, inWords \in BOOLEAN : Decide(c, ok, inWords)
       \/ Cancel(c)
       \/ Background(c)
  \/ \E t \in Tools : RetierCalls(t)

(* Tools, missions and hashing come back; the human behind the client      *)
(* answers every card that is waited for.                                  *)
CallsFairness ==
  \A c \in Calls :
    /\ WF_callVars(Background(c))
    /\ WF_callVars(c \in callWaiting /\ \E ok, inWords \in BOOLEAN : Decide(c, ok, inWords))

CallsSpec == CallsInit /\ [][CallsNext]_callVars /\ CallsFairness

-----------------------------------------------------------------------------
(* Properties.                                                             *)

(* A call waits at the gate exactly while its card is undecided: no call   *)
(* is parked under a card whose answer went elsewhere, none is woken twice.*)
ParkedCallsHaveCards ==
  /\ callWaiting = {c \in Calls : call[c].pc = "gate"}
  /\ CallGate!WaitersUndecided

(* "The MCP face cannot bypass any of it": a tool that is risky by         *)
(* definition acts only for a call that was simulated and granted, even    *)
(* when a tier moves while the call is on its way, and a refused call      *)
(* never acts.                                                             *)
NoBypass ==
  \A c \in Calls : call[c].acted =>
    /\ call[c].tool \in Tools
    /\ call[c].tool \in BuiltinRisky => call[c].simulated
    /\ call[c].simulated => callAnswer[c] = "yes"

(* A task that says "cancelled at the gate - nothing was executed" is      *)
(* right, now and later: the cancellation that races an approval either    *)
(* comes first and is the answer, or finds the call running.               *)
CancelledAtGateNeverActs ==
  \A c \in Calls : task[c] = "cancelled_gated" => ~call[c].acted /\ callAnswer[c] = "no"

(* While the loop awaits a call, that call is on its way to its receipt:   *)
(* a gated call never holds the loop, so the gate can always be answered.  *)
LoopNeverAwaitsTheGate ==
  server # Free =>
    /\ ~call[server].simulated
    /\ call[server].pc \in {"acting", "minting"}

(* Every call that is made is done in the end, however calls, answers and  *)
(* cancellations interleave.                                               *)
CallsEnd ==
  \A c \in Calls : call[c].pc # "none" ~> call[c].pc = "done"

(* "Denied <id> - nothing was executed": the answer every deny gets.  The  *)
(* code does not keep this: a card that was approved can be denied again   *)
(* while, or after, its call runs.                                         *)
DeniedMeansNothingExecuted ==
  \A c \in told : ~call[c].acted

-----------------------------------------------------------------------------
(* The promise every face makes: here each call asks for one action.       *)

CallPhase(c) ==
  CASE call[c].pc = "none"    -> "new"
    [] call[c].pc = "acting"  -> "free"
    [] call[c].pc = "gate"    -> "asked"
    [] call[c].pc = "running" -> "granted"
    [] call[c].pc = "done" /\ call[c].receipt ->
         IF call[c].tool = Unknown THEN "dropped" ELSE "vouched"
    [] OTHER -> IF call[c].tool = Unknown THEN "new"
                ELSE IF call[c].acted THEN "acted" ELSE "refused"

CallsPromise == INSTANCE Governed WITH
  Asker <- Calls, Job <- Calls, By <- [c \in Calls |-> c],
  phase <- [c \in Calls |-> CallPhase(c)]

(* Each call keeps the promise of the control plane, the same one the chat *)
(* runs keep.                                                              *)
CallsKeepPromise == CallsPromise!Spec
=============================================================================
