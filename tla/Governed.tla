------------------------------ MODULE Governed ------------------------------
(***************************************************************************)
(* What the control plane promises about one governed action, whichever    *)
(* face asked for it: a risky action is simulated and asked for before it  *)
(* acts, a refused one never acts, and vouching (the signed receipt) comes *)
(* last and is final.  ChatRuns and McpCalls implement this module.        *)
(***************************************************************************)
CONSTANTS
  Asker,  \* who asks: a chat run, a tool call
  Job,    \* the actions asked for
  By      \* each action's asker: By \in [Job -> Asker]

VARIABLE phase

Phase == {"new", "asked", "free", "granted", "refused", "acted", "vouched", "dropped"}

TypeOK == phase \in [Job -> Phase]

Init == phase = [j \in Job |-> "new"]

Move(j, from, to) ==
  /\ phase[j] = from
  /\ phase' = [phase EXCEPT ![j] = to]

Ask(j)    == Move(j, "new", "asked")
Free(j)   == Move(j, "new", "free")
Grant(j)  == Move(j, "asked", "granted")
Refuse(j) == Move(j, "asked", "refused")
Act(j)    == Move(j, "free", "acted") \/ Move(j, "granted", "acted")

Unfinished == {"new", "asked", "free", "granted"}

(* Askers go away - stopped, or lost in a restart - and what they had not  *)
(* completed never will be.                                                *)
Drop(A) ==
  phase' = [j \in Job |-> IF By[j] \in A /\ phase[j] \in Unfinished
                         THEN "dropped" ELSE phase[j]]

(* An asker ends with its receipt, which accounts for every action it took *)
(* or was refused; nothing of it is still open.                            *)
Vouch(a) ==
  /\ \A j \in Job : By[j] = a => phase[j] \in {"new", "acted", "refused"}
  /\ phase' = [j \in Job |-> IF By[j] # a THEN phase[j]
                             ELSE IF phase[j] = "new" THEN "dropped" ELSE "vouched"]

Next ==
  \/ \E A \in SUBSET Asker : Drop(A)
  \/ \E a \in Asker : Vouch(a)
  \/ \E j \in Job : Ask(j) \/ Free(j) \/ Grant(j) \/ Refuse(j) \/ Act(j)

Spec == Init /\ [][Next]_phase
=============================================================================
