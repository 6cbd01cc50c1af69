------------------------------ MODULE MetaLoop ------------------------------
(***************************************************************************)
(* The meta-loop: the product proposes changes to its own control plane -  *)
(* a tool moved to the risky tier, or a standing preference - and reverts  *)
(* them.  Both go through the human gate; what was decided is applied at   *)
(* once and vouched afterwards, asynchronously.                            *)
(*                                                                         *)
(* The ledger of changes and the preferences outlive a restart of the      *)
(* application; RISKY_TOOLS and the promises behind the cards do not.      *)
(***************************************************************************)
EXTENDS Integers, FiniteSets

CONSTANTS
  NumChanges,   \* bound: ledger entries ever made, refusals and reverts too
  Tools,        \* VOUCH_TOOLS: targets of risk.tier
  Prefs,        \* preference texts: targets of preference.set
  BuiltinRisky, \* RISKY_TOOLS as vouch.ts defines it
  Cap,          \* CAP: the ledger keeps the newest Cap entries
  MaxRestarts   \* bound: restarts of the application

ASSUME ChangesAssumption == NumChanges \in Nat /\ Cap \in Nat \ {0}
ASSUME TargetsAssumption == BuiltinRisky \subseteq Tools /\ Tools \cap Prefs = {}
ASSUME MetaBoundsAssumption == MaxRestarts \in Nat

Changes == 1 .. NumChanges
None    == 0            \* revertOf of a change that reverts nothing

VARIABLES
  change,    \* the ledger entries, in the order they were made
  risky,     \* RISKY_TOOLS
  standing,  \* how many preferences with each text stand in the session
  restarts,
  status, waiting, answer

Gate == INSTANCE HumanGate WITH Card <- Changes

metaVars == <<change, risky, standing, restarts, status, waiting, answer>>

Change ==
  [status : {"none", "refused", "proposed", "denied", "applied", "reverted"},
   target : Tools \union Prefs \union {None}, revertOf : Changes \union {None},
   pc : {"none", "parked", "minting", "done", "lost"}]

TypeOK ==
  /\ change \in [Changes -> Change]
  /\ risky \in SUBSET Tools
  /\ standing \in [Prefs -> Nat]
  /\ restarts \in 0 .. MaxRestarts
  /\ Gate!GateTypeOK

-----------------------------------------------------------------------------
Unmade == [status |-> "none", target |-> None, revertOf |-> None,
           pc |-> "none"]

Init ==
  /\ change = [c \in Changes |-> Unmade]
  /\ risky = BuiltinRisky
  /\ standing = [p \in Prefs |-> 0]
  /\ restarts = 0
  /\ Gate!GateInit

Made == {c \in Changes : change[c].status # "none"}

IsNext(c) == c \notin Made /\ \A d \in 1 .. c - 1 : d \in Made

(* Each new entry drops the oldest of a full ledger; metaChange no longer  *)
(* finds those.                                                            *)
Logged(c) == c \in Made /\ Cardinality({d \in Made : d > c}) < Cap

(* A change the validation lets through is parked under its card.          *)
EnterProposed(c, t, orig) ==
  /\ Gate!Request(c)
  /\ change' = [change EXCEPT ![c] = [status |-> "proposed", target |-> t,
                  revertOf |-> orig, pc |-> "parked"]]
  /\ UNCHANGED <<risky, standing, restarts>>

(* One that it does not is an entry of its own, and is vouched too (what   *)
(* it was about is left out).                                              *)
EnterRefused(c) ==
  /\ change' = [change EXCEPT ![c] = [status |-> "refused", target |-> None,
                  revertOf |-> None, pc |-> "minting"]]
  /\ UNCHANGED <<risky, standing, restarts, status, waiting, answer>>

(* The tightening-only rule: a tool that is risky has nothing to tighten.  *)
\* Mutant: the present tier is not looked at.
MayProposeAny(t) == t \in Tools \union Prefs
MayPropose(t) == t \in Prefs \/ (t \in Tools /\ t \notin risky)

Propose(c, t) ==
  /\ IsNext(c)
  /\ IF MayPropose(t) THEN EnterProposed(c, t, None) ELSE EnterRefused(c)

(* No reason, an unknown kind or tool, an empty text, an unknown change.   *)
ProposeNonsense(c) ==
  /\ IsNext(c)
  /\ EnterRefused(c)

(* Only an applied change that is no revert itself, and whose effect is    *)
(* still there to take back.                                               *)
MayRevert(o) ==
  /\ change[o].status = "applied"
  /\ change[o].revertOf = None
  /\ \/ change[o].target \in risky
     \/ change[o].target \in Prefs /\ standing[change[o].target] > 0

Revert(c, o) ==
  /\ IsNext(c)
  /\ Logged(o)
  /\ IF MayRevert(o) THEN EnterProposed(c, change[o].target, o)
                     ELSE EnterRefused(c)

(* applyChange: the tier moves, or one preference with the text comes or   *)
(* goes - if one is still there when a revert is at last approved.         *)
Apply(c) ==
  LET t == change[c].target
      undo == change[c].revertOf # None
  IN  /\ risky' = IF t \notin Tools THEN risky
                  ELSE IF undo THEN risky \ {t} ELSE risky \union {t}
      /\ standing' = [p \in Prefs |->
           IF p # t THEN standing[p]
           ELSE IF ~undo THEN standing[p] + 1
           ELSE IF standing[p] > 0 THEN standing[p] - 1 ELSE 0]

(* The human answers a card, on the Vouch face or over MCP.  The answer    *)
(* that settles the change applies it or not; a later one only overwrites  *)
(* the record.                                                             *)
\* Mutant: the change is applied before the answer is looked at.
DecideAppliesFirst(c, ok) ==
  /\ Gate!Resolve(c, ok)
  /\ IF c \in waiting
     THEN /\ Apply(c)
          /\ change' = [change EXCEPT ![c].status = IF ok THEN "applied" ELSE "denied",
                                      ![c].pc = "minting"]
     ELSE UNCHANGED <<change, risky, standing>>
  /\ UNCHANGED restarts
Decide(c, ok) ==
  /\ Gate!Resolve(c, ok)
  /\ \/ /\ c \in waiting /\ ok
        /\ Apply(c)
        /\ change' = [change EXCEPT ![c].status = "applied", ![c].pc = "minting"]
     \/ /\ c \in waiting /\ ~ok
        /\ change' = [change EXCEPT ![c].status = "denied", ![c].pc = "minting"]
        /\ UNCHANGED <<risky, standing>>
     \/ /\ c \notin waiting
        /\ UNCHANGED <<change, risky, standing>>
  /\ UNCHANGED restarts

(* The receipt is minted, or the hashing throws and there is none.  Only   *)
(* now is the change an approved revert took back marked as reverted.      *)
\* Mutant: whatever became of the revert.
MarkedUnseen(c) ==
  {change[c].revertOf} \ {None}
Marked(c) ==
  {o \in Changes : o = change[c].revertOf /\ Logged(o) /\ change[c].status = "applied"}

\* Mutant: the change is not given its end.
FinishMintUndone(c) ==
  /\ change[c].pc = "minting"
  /\ UNCHANGED change
  /\ UNCHANGED <<risky, standing, restarts, status, waiting, answer>>
FinishMint(c) ==
  /\ change[c].pc = "minting"
  /\ change' = [d \in Changes |->
       IF d = c THEN [change[d] EXCEPT !.pc = "done"]
       ELSE IF d \in Marked(c) THEN [change[d] EXCEPT !.status = "reverted"]
       ELSE change[d]]
  /\ UNCHANGED <<risky, standing, restarts, status, waiting, answer>>

(* The user deletes a preference.  (Those the user says in chat are other  *)
(* texts: a revert of their text would take them too.)                     *)
Delete(p) ==
  /\ standing[p] > 0
  /\ standing' = [standing EXCEPT ![p] = @ - 1]
  /\ UNCHANGED <<change, risky, restarts, status, waiting, answer>>

(* The application is closed and opened: the ledger and the preferences    *)
(* are read back, RISKY_TOOLS is built in again, nothing is under way.     *)
Restart ==
  /\ restarts < MaxRestarts
  /\ restarts' = restarts + 1
  /\ risky' = BuiltinRisky
  /\ change' = [c \in Changes |->
       IF change[c].pc \in {"parked", "minting"} THEN [change[c] EXCEPT !.pc = "lost"]
       ELSE change[c]]
  /\ Gate!GateRestart
  /\ UNCHANGED standing

Next ==
  \/ \E c \in Changes :
       \/ \E t \in Tools \union Prefs : Propose(c, t)
       \/ ProposeNonsense(c)
       \/ \E o \in Changes : Revert(c, o)
       \/ \E ok \in BOOLEAN : Decide(c, ok)
       \/ FinishMint(c)
  \/ \E p \in Prefs : Delete(p)
  \/ Restart

(* Hashing comes back; the human answers every card that is waited for.    *)
Fairness ==
  \A c \in Changes :
    /\ WF_metaVars(FinishMint(c))
    /\ WF_metaVars(c \in waiting /\ \E ok \in BOOLEAN : Decide(c, ok))

Spec == Init /\ [][Next]_metaVars /\ Fairness
-----------------------------------------------------------------------------
(* Properties.                                                             *)

(* A change is parked exactly while its card is undecided, and its status  *)
(* is what the human said first: a card answered twice, or answered after  *)
(* a restart, does not move it.                                            *)
StatusIsTheAnswer ==
  /\ waiting = {c \in Changes : change[c].pc = "parked"}
  /\ Gate!WaitersUndecided
  /\ \A c \in Changes :
       /\ change[c].status \in {"applied", "reverted"} <=> answer[c] = "yes"
       /\ change[c].status = "denied" <=> answer[c] = "no"

(* The floor: whatever is proposed, reverted twice over, raced or          *)
(* restarted, the tools that are risky by definition stay gated.           *)
FloorStays == BuiltinRisky \subseteq risky

(* Applied changes to t that no approved revert has taken back.            *)
Live(t) ==
  {c \in Changes :
     /\ change[c].target = t /\ change[c].status = "applied" /\ change[c].revertOf = None
     /\ \A r \in Changes : change[r].revertOf = c => change[r].status # "applied"}

(* Every edit in force has a change in the ledger's history that explains  *)
(* it: a tool gated beyond the floor has one approved tightening that was  *)
(* not taken back, and no text stands more often than there are such       *)
(* changes for it.                                                         *)
EveryEditExplained ==
  /\ \A t \in risky \ BuiltinRisky : Live(t) # {}
  /\ \A p \in Prefs : standing[p] <= Cardinality(Live(p))

(* A change is called reverted only when an entry of its own reverted it,  *)
(* approved and come to its receipt, for the same target; and reverts are  *)
(* terminal.                                                               *)
RevertsHaveEntries ==
  \A c \in Changes :
    /\ change[c].status = "reverted" =>
         \E r \in Changes : /\ change[r].revertOf = c
                            /\ change[r].status = "applied"
                            /\ change[r].pc = "done"
    /\ change[c].revertOf # None =>
         /\ change[change[c].revertOf].revertOf = None
         /\ change[change[c].revertOf].target = change[c].target

(* Every proposal, revert and refusal comes to its end, unless a restart   *)
(* takes it away.                                                          *)
ChangesSettle ==
  \A c \in Changes :
    change[c].status # "none" ~> change[c].pc \in {"done", "lost"}

(* "Loosening happens only by reverting a change that tightened": a tool   *)
(* leaves the risky tier only in a step that approves its revert.  The     *)
(* code does not keep this: RISKY_TOOLS is not persisted.                  *)
LoosenedOnlyByRevert ==
  [][\A t \in risky \ risky' :
       \E c \in Changes : /\ change[c].target = t /\ change[c].revertOf # None
                          /\ change[c].status = "proposed"
                          /\ change'[c].status = "applied"]_metaVars
=============================================================================
