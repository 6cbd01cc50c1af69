----------------------------- MODULE HumanGate -----------------------------
(***************************************************************************)
(* The human gate of the control plane: session.approvals (persisted) and  *)
(* approvalWaiters (memory only).  Every face - a chat run, an MCP call, a *)
(* meta change - asks through Request and is answered through Resolve.     *)
(*                                                                         *)
(* A card is one call of requestVouchApproval; its random id is abstracted *)
(* to the asker's own name for it, which is as unique.                     *)
(***************************************************************************)
CONSTANT Card

VARIABLES
  status,    \* the status written on each card's record, "none": no such card
  waiting,   \* cards whose promise is still unsettled: the keys of approvalWaiters
  answer     \* what each card's promise settled with: the asker sees only this

gateVars == <<status, waiting, answer>>

Status == {"none", "pending", "approved", "denied"}
Answer == {"none", "yes", "no"}

GateTypeOK ==
  /\ status \in [Card -> Status]
  /\ waiting \in SUBSET Card
  /\ answer \in [Card -> Answer]

GateInit ==
  /\ status = [c \in Card |-> "none"]
  /\ waiting = {}
  /\ answer = [c \in Card |-> "none"]

(* requestVouchApproval: the pending record, then the waiter.              *)
Request(c) ==
  /\ status[c] = "none"
  /\ status' = [status EXCEPT ![c] = "pending"]
  /\ waiting' = waiting \union {c}
  /\ UNCHANGED answer

(* resolveVouchApproval: the record is overwritten whatever it said before *)
(* (a card can be answered again), the promise settles only once.          *)
\* Mutant: the waiter is not deleted.
ResolveKeepsWaiter(c, ok) ==
  /\ status[c] # "none"
  /\ status' = [status EXCEPT ![c] = IF ok THEN "approved" ELSE "denied"]
  /\ answer' = [answer EXCEPT ![c] = IF ok THEN "yes" ELSE "no"]
  /\ UNCHANGED waiting
\* Mutant: the promise settles with the record's status.
ResolveSettlesRecord(c, ok) ==
  /\ status[c] # "none"
  /\ status' = [status EXCEPT ![c] = IF ok THEN "approved" ELSE "denied"]
  /\ waiting' = waiting \ {c}
  /\ answer' = IF c \in waiting THEN [answer EXCEPT ![c] = status'[c]] ELSE answer
Resolve(c, ok) ==
  /\ status[c] # "none"
  /\ status' = [status EXCEPT ![c] = IF ok THEN "approved" ELSE "denied"]
  /\ waiting' = waiting \ {c}
  /\ answer' = IF c \in waiting
               THEN [answer EXCEPT ![c] = IF ok THEN "yes" ELSE "no"]
               ELSE answer

(* A restart keeps the records and loses every waiter.                     *)
GateRestart ==
  /\ waiting' = {}
  /\ UNCHANGED <<status, answer>>

(* What the gate owes its askers: a card whose asker is still waiting is   *)
(* undecided, and the asker has seen nothing yet.                          *)
WaitersUndecided ==
  \A c \in waiting : status[c] = "pending" /\ answer[c] = "none"
=============================================================================
