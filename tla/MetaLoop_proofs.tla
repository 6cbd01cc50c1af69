-------------------------- MODULE MetaLoop_proofs --------------------------
(***************************************************************************)
(* What holds of the meta-loop for any number of changes, any tools and    *)
(* preferences, any cap of the ledger and any number of restarts.  MetaInv *)
(* is the inductive invariant; Entries is what it needs beyond the         *)
(* properties themselves.                                                  *)
(***************************************************************************)
EXTENDS MetaLoop, FiniteSetTheorems, TLAPS

(* A parked change is undecided; a change that is, or may yet be, applied  *)
(* is about a tool above the floor; a revert names a change that was       *)
(* applied, is no revert, and has the same target.                         *)
EntryOK(c) ==
  /\ change[c].pc = "parked" => change[c].status = "proposed"
  /\ change[c].status \in {"proposed", "applied"} => change[c].target \notin BuiltinRisky
  /\ change[c].revertOf # None =>
       /\ change[change[c].revertOf].revertOf = None
       /\ change[change[c].revertOf].target = change[c].target
       /\ change[change[c].revertOf].status \in {"applied", "reverted"}

Entries == \A c \in Changes : EntryOK(c)

MetaInv == TypeOK /\ FloorStays /\ StatusIsTheAnswer /\ Entries

LEMMA NoneIsNoChange == None \notin Changes
BY ChangesAssumption DEF None, Changes

LEMMA InitMetaInv == Init => MetaInv
BY TargetsAssumption, MetaBoundsAssumption, NoneIsNoChange
   DEF Init, Unmade, MetaInv, TypeOK, Change, FloorStays, StatusIsTheAnswer, Entries, EntryOK,
       Gate!GateInit, Gate!GateTypeOK, Gate!Status, Gate!Answer, Gate!WaitersUndecided

-----------------------------------------------------------------------------
(* A new entry takes the place of one that was never made.                 *)
LEMMA EntryEnters ==
  ASSUME MetaInv, NEW c \in Changes, c \notin Made, NEW x \in Change,
         x.status \in {"proposed", "refused"},
         x.pc = "parked" => x.status = "proposed",
         x.status = "proposed" => x.target \notin BuiltinRisky,
         x.revertOf # None =>
           /\ change[x.revertOf].status = "applied"
           /\ change[x.revertOf].revertOf = None
           /\ change[x.revertOf].target = x.target,
         change' = [change EXCEPT ![c] = x]
  PROVE  Entries'
<1>1. change[c].status = "none"
  BY DEF Made
<1>2. \A d \in Changes : change'[d] = IF d = c THEN x ELSE change[d]
  BY DEF MetaInv, TypeOK
<1>3. ASSUME NEW d \in Changes
      PROVE  EntryOK(d)'
  <2>1. change'[d].revertOf \in Changes \union {None}
    BY <1>2 DEF MetaInv, TypeOK, Change
  <2>2. ASSUME change'[d].revertOf # None
        PROVE  /\ change'[d].revertOf \in Changes
               /\ change'[d].revertOf # c
               /\ change[change'[d].revertOf].revertOf = None
               /\ change[change'[d].revertOf].target = change'[d].target
               /\ change[change'[d].revertOf].status \in {"applied", "reverted"}
    BY <1>1, <1>2, <2>1, <2>2 DEF MetaInv, Entries, EntryOK
  <2>3. (change[d].pc = "parked" => change[d].status = "proposed")
        /\ (change[d].status \in {"proposed", "applied"} => change[d].target \notin BuiltinRisky)
    BY DEF MetaInv, Entries, EntryOK
  <2> QED BY <1>2, <2>2, <2>3 DEF EntryOK
<1> QED BY <1>3 DEF Entries

LEMMA RefusedKeeps ==
  ASSUME MetaInv, NEW c \in Changes, IsNext(c), EnterRefused(c)
  PROVE  MetaInv'
<1> DEFINE x == [status |-> "refused", target |-> None, revertOf |-> None, pc |-> "minting"]
<1>1. x \in Change /\ c \notin Made /\ change' = [change EXCEPT ![c] = x]
  BY DEF Change, IsNext, EnterRefused
<1>2. Entries'
  BY <1>1, EntryEnters
<1>3. TypeOK'
  BY <1>1 DEF EnterRefused, MetaInv, TypeOK, Gate!GateTypeOK
<1>4. FloorStays'
  BY DEF EnterRefused, MetaInv, FloorStays
<1>5. StatusIsTheAnswer'
  <2>1. change[c].status = "none" /\ change[c].pc # "parked"
    BY <1>1 DEF Made, MetaInv, Entries, EntryOK
  <2>2. \A d \in Changes : change'[d] = IF d = c THEN x ELSE change[d]
    BY <1>1 DEF MetaInv, TypeOK
  <2>3. /\ waiting' = {d \in Changes : change'[d].pc = "parked"}
        /\ Gate!WaitersUndecided'
    BY <2>1, <2>2 DEF EnterRefused, MetaInv, StatusIsTheAnswer, Gate!WaitersUndecided
  <2>4. \A d \in Changes :
          /\ change'[d].status \in {"applied", "reverted"} <=> answer'[d] = "yes"
          /\ change'[d].status = "denied" <=> answer'[d] = "no"
    BY <2>1, <2>2 DEF EnterRefused, MetaInv, StatusIsTheAnswer
  <2> QED BY <2>3, <2>4 DEF StatusIsTheAnswer
<1> QED BY <1>2, <1>3, <1>4, <1>5 DEF MetaInv

LEMMA ProposedKeeps ==
  ASSUME MetaInv, NEW c \in Changes, IsNext(c),
         NEW t \in Tools \union Prefs, t \notin BuiltinRisky,
         NEW o \in Changes \union {None},
         o # None => /\ change[o].status = "applied"
                     /\ change[o].revertOf = None
                     /\ change[o].target = t,
         EnterProposed(c, t, o)
  PROVE  MetaInv'
<1> DEFINE x == [status |-> "proposed", target |-> t, revertOf |-> o, pc |-> "parked"]
<1>1. x \in Change /\ c \notin Made /\ change' = [change EXCEPT ![c] = x]
  BY DEF Change, IsNext, EnterProposed
<1>2. Entries'
  BY <1>1, EntryEnters
<1>3. TypeOK'
  BY <1>1 DEF EnterProposed, MetaInv, TypeOK, Gate!Request, Gate!GateTypeOK, Gate!Status
<1>4. FloorStays'
  BY DEF EnterProposed, MetaInv, FloorStays
<1>5. StatusIsTheAnswer'
  <2>1. change[c].status = "none"
    BY <1>1 DEF Made
  <2>2. \A d \in Changes : change'[d] = IF d = c THEN x ELSE change[d]
    BY <1>1 DEF MetaInv, TypeOK
  <2>3. answer[c] = "none"
    BY <2>1 DEF MetaInv, TypeOK, StatusIsTheAnswer, Gate!GateTypeOK, Gate!Answer
  <2>4. waiting' = waiting \union {c} /\ answer' = answer
        /\ status' = [status EXCEPT ![c] = "pending"]
    BY DEF EnterProposed, Gate!Request
  <2>5. waiting' = {d \in Changes : change'[d].pc = "parked"}
    BY <2>2, <2>4 DEF MetaInv, StatusIsTheAnswer
  <2>6. Gate!WaitersUndecided'
    BY <2>3, <2>4 DEF MetaInv, TypeOK, StatusIsTheAnswer, Gate!GateTypeOK, Gate!WaitersUndecided
  <2>7. \A d \in Changes :
          /\ change'[d].status \in {"applied", "reverted"} <=> answer'[d] = "yes"
          /\ change'[d].status = "denied" <=> answer'[d] = "no"
    BY <2>1, <2>2, <2>4 DEF MetaInv, StatusIsTheAnswer
  <2> QED BY <2>5, <2>6, <2>7 DEF StatusIsTheAnswer
<1> QED BY <1>2, <1>3, <1>4, <1>5 DEF MetaInv

LEMMA ProposeKeeps ==
  ASSUME MetaInv, NEW c \in Changes, NEW t \in Tools \union Prefs, Propose(c, t)
  PROVE  MetaInv'
<1>1. CASE MayPropose(t)
  <2>1. t \notin BuiltinRisky
    BY <1>1, TargetsAssumption DEF MayPropose, MetaInv, FloorStays
  <2> QED BY <1>1, <2>1, ProposedKeeps DEF Propose
<1>2. CASE ~MayPropose(t)
  BY <1>2, RefusedKeeps DEF Propose
<1> QED BY <1>1, <1>2

LEMMA RevertKeeps ==
  ASSUME MetaInv, NEW c \in Changes, NEW o \in Changes, Revert(c, o)
  PROVE  MetaInv'
<1>1. CASE MayRevert(o)
  <2>1. change[o].target \in Tools \union Prefs /\ change[o].target \notin BuiltinRisky
    BY <1>1 DEF MayRevert, MetaInv, TypeOK, Entries, EntryOK
  <2> QED BY <1>1, <2>1, ProposedKeeps DEF Revert, MayRevert
<1>2. CASE ~MayRevert(o)
  BY <1>2, RefusedKeeps DEF Revert
<1> QED BY <1>1, <1>2

-----------------------------------------------------------------------------
(* Where an answer finds its change.                                       *)
LEMMA WaitedForIsProposed ==
  ASSUME MetaInv, NEW c \in Changes, c \in waiting
  PROVE  change[c].status = "proposed" /\ change[c].pc = "parked" /\ answer[c] = "none"
BY DEF MetaInv, StatusIsTheAnswer, Entries, EntryOK, Gate!WaitersUndecided

(* The answer that settles a change writes its status and moves it on.     *)
LEMMA SettledEntry ==
  ASSUME MetaInv, NEW c \in Changes, NEW ok \in BOOLEAN, Gate!Resolve(c, ok), c \in waiting,
         change' = [change EXCEPT ![c].status = IF ok THEN "applied" ELSE "denied",
                                  ![c].pc = "minting"]
  PROVE  change' \in [Changes -> Change] /\ StatusIsTheAnswer' /\ Entries'
<1> DEFINE x == [change[c] EXCEPT !.status = IF ok THEN "applied" ELSE "denied",
                                  !.pc = "minting"]
<1>1. change[c].status = "proposed" /\ answer[c] = "none"
  BY WaitedForIsProposed
<1>2. /\ x \in Change /\ x.pc = "minting"
      /\ x.status = IF ok THEN "applied" ELSE "denied"
      /\ x.target = change[c].target /\ x.revertOf = change[c].revertOf
  BY DEF MetaInv, TypeOK, Change
<1>3. \A d \in Changes : change'[d] = IF d = c THEN x ELSE change[d]
  BY DEF MetaInv, TypeOK
<1>4. change' \in [Changes -> Change]
  BY <1>2 DEF MetaInv, TypeOK
<1>5. StatusIsTheAnswer'
  <2>1. /\ waiting' = waiting \ {c}
        /\ answer' = [answer EXCEPT ![c] = IF ok THEN "yes" ELSE "no"]
        /\ status' = [status EXCEPT ![c] = IF ok THEN "approved" ELSE "denied"]
    BY DEF Gate!Resolve
  <2>2. waiting' = {d \in Changes : change'[d].pc = "parked"}
    <3>1. waiting = {d \in Changes : change[d].pc = "parked"}
      BY DEF MetaInv, StatusIsTheAnswer
    <3>2. \A d \in Changes : change'[d].pc = "parked" <=> d # c /\ change[d].pc = "parked"
      BY <1>2, <1>3
    <3> QED BY <2>1, <3>1, <3>2
  <2>3. Gate!WaitersUndecided'
    BY <2>1 DEF MetaInv, StatusIsTheAnswer, TypeOK, Gate!GateTypeOK, Gate!WaitersUndecided
  <2>4. \A d \in Changes : answer'[d] = IF d = c THEN IF ok THEN "yes" ELSE "no" ELSE answer[d]
    BY <2>1 DEF MetaInv, TypeOK, Gate!GateTypeOK
  <2>5. \A d \in Changes :
          /\ change'[d].status \in {"applied", "reverted"} <=> answer'[d] = "yes"
          /\ change'[d].status = "denied" <=> answer'[d] = "no"
    <3> TAKE d \in Changes
    <3>1. CASE d = c /\ ok
      <4>1. change'[d].status = "applied" /\ answer'[d] = "yes"
        BY <1>2, <1>3, <2>4, <3>1
      <4> QED BY <4>1
    <3>2. CASE d = c /\ ~ok
      <4>1. change'[d].status = "denied" /\ answer'[d] = "no"
        BY <1>2, <1>3, <2>4, <3>2
      <4> QED BY <4>1
    <3>3. CASE d # c
      <4>1. change'[d] = change[d] /\ answer'[d] = answer[d]
        BY <1>3, <2>4, <3>3
      <4>2. /\ change[d].status \in {"applied", "reverted"} <=> answer[d] = "yes"
            /\ change[d].status = "denied" <=> answer[d] = "no"
        BY DEF MetaInv, StatusIsTheAnswer
      <4> QED BY <4>1, <4>2
    <3> QED BY <3>1, <3>2, <3>3
  <2> QED BY <2>2, <2>3, <2>5 DEF StatusIsTheAnswer
<1>6. ASSUME NEW d \in Changes
      PROVE  EntryOK(d)'
  <2>1. EntryOK(d) /\ EntryOK(c)
    BY DEF MetaInv, Entries
  <2>2. change'[d].revertOf = change[d].revertOf /\ change'[d].target = change[d].target
    BY <1>2, <1>3
  <2>3. change[d].revertOf \in Changes \union {None}
    BY DEF MetaInv, TypeOK, Change
  <2>4. ASSUME change[d].revertOf # None
        PROVE  /\ change'[change[d].revertOf].revertOf = None
               /\ change'[change[d].revertOf].target = change[d].target
               /\ change'[change[d].revertOf].status \in {"applied", "reverted"}
    <3> DEFINE o == change[d].revertOf
    <3>1. o \in Changes /\ change[o].status \in {"applied", "reverted"}
      BY <2>1, <2>3, <2>4 DEF EntryOK
    <3>2. o # c
      BY <1>1, <3>1
    <3>3. change'[o] = change[o]
      BY <1>3, <3>1, <3>2
    <3> QED BY <2>1, <2>4, <3>3 DEF EntryOK
  <2>5. change'[d].pc = "parked" => change'[d].status = "proposed"
    BY <1>2, <1>3, <2>1 DEF EntryOK
  <2>6. change'[d].status \in {"proposed", "applied"} => change'[d].target \notin BuiltinRisky
    BY <1>1, <1>2, <1>3, <2>1 DEF EntryOK
  <2> QED BY <2>2, <2>4, <2>5, <2>6 DEF EntryOK
<1> QED BY <1>4, <1>5, <1>6 DEF Entries

LEMMA ApplyTypes ==
  ASSUME MetaInv, NEW c \in Changes, Apply(c)
  PROVE  risky' \in SUBSET Tools /\ standing' \in [Prefs -> Nat]
<1>1. change[c].target \in Tools \union Prefs \union {None}
  BY DEF MetaInv, TypeOK, Change
<1>2. risky' \in SUBSET Tools
  BY <1>1 DEF Apply, MetaInv, TypeOK
<1>3. standing' \in [Prefs -> Nat]
  BY DEF Apply, MetaInv, TypeOK
<1> QED BY <1>2, <1>3

LEMMA DecideKeeps ==
  ASSUME MetaInv, NEW c \in Changes, NEW ok \in BOOLEAN, Decide(c, ok)
  PROVE  MetaInv'
<1>1. Gate!Resolve(c, ok)
  BY DEF Decide
<1>2. Gate!GateTypeOK'
  BY <1>1 DEF Gate!Resolve, Gate!GateTypeOK, Gate!Status, Gate!Answer, MetaInv, TypeOK
<1>3. CASE c \in waiting
  <2>1. change' = [change EXCEPT ![c].status = IF ok THEN "applied" ELSE "denied",
                                 ![c].pc = "minting"]
    BY <1>3 DEF Decide
  <2>2. change' \in [Changes -> Change] /\ StatusIsTheAnswer' /\ Entries'
    BY <1>1, <1>3, <2>1, SettledEntry
  <2>3. risky' \in SUBSET Tools /\ standing' \in [Prefs -> Nat] /\ FloorStays'
    <3>1. CASE ok
      <4>1. Apply(c)
        BY <1>3, <3>1 DEF Decide
      <4>2. change[c].target \notin BuiltinRisky
        BY <1>3, WaitedForIsProposed DEF MetaInv, Entries, EntryOK
      <4>3. FloorStays'
        BY <4>1, <4>2 DEF Apply, MetaInv, FloorStays
      <4> QED BY <4>1, <4>3, ApplyTypes
    <3>2. CASE ~ok
      BY <1>3, <3>2 DEF Decide, MetaInv, TypeOK, FloorStays
    <3> QED BY <3>1, <3>2
  <2> QED BY <1>2, <2>2, <2>3 DEF Decide, MetaInv, TypeOK
<1>4. CASE c \notin waiting
  <2>1. UNCHANGED <<change, risky, standing, restarts, waiting, answer>>
    BY <1>1, <1>4 DEF Decide, Gate!Resolve, MetaInv, TypeOK, Gate!GateTypeOK
  <2>2. \A d \in Changes : d # c => status'[d] = status[d]
    BY <1>1 DEF Gate!Resolve, MetaInv, TypeOK, Gate!GateTypeOK
  <2>3. StatusIsTheAnswer'
    BY <1>4, <2>1, <2>2 DEF MetaInv, StatusIsTheAnswer, TypeOK, Gate!GateTypeOK, Gate!WaitersUndecided
  <2> QED BY <1>2, <2>1, <2>3 DEF MetaInv, TypeOK, FloorStays, Entries, EntryOK
<1> QED BY <1>3, <1>4

(* Coming to the receipt moves the change on and marks what it reverted;   *)
(* neither was parked, and what is marked had been applied.                *)
LEMMA FinishMintKeeps ==
  ASSUME MetaInv, NEW c \in Changes, FinishMint(c)
  PROVE  MetaInv'
<1>1. ASSUME NEW d \in Changes
      PROVE  /\ change'[d] \in Change
             /\ change'[d].target = change[d].target
             /\ change'[d].revertOf = change[d].revertOf
             /\ change'[d].pc = "parked" <=> change[d].pc = "parked"
             /\ \/ change'[d].status = change[d].status
                \/ change[d].status \in {"applied", "reverted"} /\ change'[d].status = "reverted"
  <2>1. change[d] \in Change
    BY DEF MetaInv, TypeOK
  <2>2. CASE d = c
    BY <2>1, <2>2 DEF FinishMint, Change
  <2>3. CASE d # c /\ d \in Marked(c)
    <3>1. change[d].status \in {"applied", "reverted"}
      BY <2>3, NoneIsNoChange DEF Marked, MetaInv, Entries, EntryOK
    <3> QED BY <2>1, <2>3, <3>1 DEF FinishMint, Change
  <2>4. CASE d # c /\ d \notin Marked(c)
    BY <2>1, <2>4 DEF FinishMint
  <2> QED BY <2>2, <2>3, <2>4
<1>2. TypeOK'
  <2>1. change' = [d \in Changes |-> change'[d]]
    BY DEF FinishMint
  <2>2. change' \in [Changes -> Change]
    BY <1>1, <2>1
  <2> QED BY <2>2 DEF FinishMint, MetaInv, TypeOK, Gate!GateTypeOK
<1>3. FloorStays'
  BY DEF FinishMint, MetaInv, FloorStays
<1>4. StatusIsTheAnswer'
  <2>1. UNCHANGED <<status, waiting, answer>>
    BY DEF FinishMint
  <2>2. waiting' = {d \in Changes : change'[d].pc = "parked"}
    <3>1. waiting = {d \in Changes : change[d].pc = "parked"}
      BY DEF MetaInv, StatusIsTheAnswer
    <3> QED BY <1>1, <2>1, <3>1
  <2>3. Gate!WaitersUndecided'
    BY <2>1 DEF MetaInv, StatusIsTheAnswer, Gate!WaitersUndecided
  <2>4. ASSUME NEW d \in Changes
        PROVE  /\ change'[d].status \in {"applied", "reverted"} <=> answer'[d] = "yes"
               /\ change'[d].status = "denied" <=> answer'[d] = "no"
    <3>1. /\ change[d].status \in {"applied", "reverted"} <=> answer[d] = "yes"
          /\ change[d].status = "denied" <=> answer[d] = "no"
      BY DEF MetaInv, StatusIsTheAnswer
    <3> QED BY <1>1, <2>1, <3>1
  <2> QED BY <2>2, <2>3, <2>4 DEF StatusIsTheAnswer
<1>5. ASSUME NEW d \in Changes
      PROVE  EntryOK(d)'
  <2>1. EntryOK(d) /\ change[d].revertOf \in Changes \union {None}
    BY DEF MetaInv, Entries, TypeOK, Change
  <2>2. change'[d].pc = "parked" => change'[d].status = "proposed"
    BY <1>1, <2>1 DEF EntryOK
  <2> QED BY <1>1, <2>1, <2>2 DEF EntryOK
<1> QED BY <1>2, <1>3, <1>4, <1>5 DEF MetaInv, Entries

LEMMA DeleteKeeps ==
  ASSUME MetaInv, NEW p \in Prefs, Delete(p)
  PROVE  MetaInv'
<1>1. standing' \in [Prefs -> Nat]
  BY DEF Delete, MetaInv, TypeOK
<1> QED BY <1>1 DEF Delete, MetaInv, TypeOK, FloorStays, StatusIsTheAnswer, Entries, EntryOK,
           Gate!GateTypeOK, Gate!WaitersUndecided

LEMMA RestartKeeps ==
  ASSUME MetaInv, Restart
  PROVE  MetaInv'
<1>1. ASSUME NEW d \in Changes
      PROVE  /\ change'[d] \in Change
             /\ change'[d].status = change[d].status
             /\ change'[d].target = change[d].target
             /\ change'[d].revertOf = change[d].revertOf
             /\ change'[d].pc # "parked"
  BY DEF Restart, MetaInv, TypeOK, Change
<1>2. TypeOK'
  <2>1. change' = [d \in Changes |-> change'[d]]
    BY DEF Restart
  <2>2. change' \in [Changes -> Change]
    BY <1>1, <2>1
  <2> QED BY <2>2, TargetsAssumption, MetaBoundsAssumption
          DEF Restart, MetaInv, TypeOK, Gate!GateTypeOK, Gate!GateRestart
<1>3. FloorStays'
  BY DEF Restart, FloorStays
<1>4. StatusIsTheAnswer'
  BY <1>1 DEF Restart, MetaInv, StatusIsTheAnswer, Gate!GateRestart, Gate!WaitersUndecided
<1>5. ASSUME NEW d \in Changes
      PROVE  EntryOK(d)'
  <2>1. EntryOK(d) /\ change[d].revertOf \in Changes \union {None}
    BY DEF MetaInv, Entries, TypeOK, Change
  <2> QED BY <1>1, <2>1 DEF EntryOK
<1> QED BY <1>2, <1>3, <1>4, <1>5 DEF MetaInv, Entries

LEMMA NextKeeps == MetaInv /\ [Next]_metaVars => MetaInv'
<1> SUFFICES ASSUME MetaInv, [Next]_metaVars PROVE MetaInv'
  OBVIOUS
<1>1. ASSUME NEW c \in Changes, NEW t \in Tools \union Prefs, Propose(c, t) PROVE MetaInv'
  BY <1>1, ProposeKeeps
<1>2. ASSUME NEW c \in Changes, ProposeNonsense(c) PROVE MetaInv'
  BY <1>2, RefusedKeeps DEF ProposeNonsense
<1>3. ASSUME NEW c \in Changes, NEW o \in Changes, Revert(c, o) PROVE MetaInv'
  BY <1>3, RevertKeeps
<1>4. ASSUME NEW c \in Changes, NEW ok \in BOOLEAN, Decide(c, ok) PROVE MetaInv'
  BY <1>4, DecideKeeps
<1>5. ASSUME NEW c \in Changes, FinishMint(c) PROVE MetaInv'
  BY <1>5, FinishMintKeeps
<1>6. ASSUME NEW p \in Prefs, Delete(p) PROVE MetaInv'
  BY <1>6, DeleteKeeps
<1>7. CASE Restart
  BY <1>7, RestartKeeps
<1>8. CASE UNCHANGED metaVars
  BY <1>8 DEF metaVars, MetaInv, TypeOK, FloorStays, StatusIsTheAnswer, Entries, EntryOK,
              Gate!GateTypeOK, Gate!WaitersUndecided
<1> QED BY <1>1, <1>2, <1>3, <1>4, <1>5, <1>6, <1>7, <1>8 DEF Next

LEMMA MetaInvHolds == Spec => []MetaInv
BY InitMetaInv, NextKeeps, PTL DEF Spec

(* Every value the meta-loop keeps has the type the code declares.         *)
THEOREM TypeCorrect == Spec => []TypeOK
<1>1. MetaInv => TypeOK
  BY DEF MetaInv
<1> QED BY <1>1, MetaInvHolds, PTL

(* The tools that are risky by definition stay gated, whatever is proposed,*)
(* reverted, raced or restarted.                                           *)
THEOREM FloorCorrect == Spec => []FloorStays
<1>1. MetaInv => FloorStays
  BY DEF MetaInv
<1> QED BY <1>1, MetaInvHolds, PTL

(* A change waits exactly while its card is undecided, and its status is   *)
(* the human's first answer.                                               *)
THEOREM AnswerCorrect == Spec => []StatusIsTheAnswer
<1>1. MetaInv => StatusIsTheAnswer
  BY DEF MetaInv
<1> QED BY <1>1, MetaInvHolds, PTL

-----------------------------------------------------------------------------
(* What explains the edits in force, step by step.                         *)

Explained == MetaInv /\ EveryEditExplained /\ RevertsHaveEntries

LEMMA LiveIsFinite ==
  \A t : IsFiniteSet(Live(t)) /\ Cardinality(Live(t)) \in Nat
<1> TAKE t
<1>1. IsFiniteSet(1 .. NumChanges)
  BY ChangesAssumption, FS_Interval
<1>2. Live(t) \subseteq 1 .. NumChanges
  BY DEF Live, Changes
<1>3. IsFiniteSet(Live(t))
  BY <1>1, <1>2, FS_Subset
<1> QED BY <1>3, FS_CardinalityType

LEMMA SameLiveKeeps ==
  ASSUME EveryEditExplained, \A t \in Tools \union Prefs : Live(t)' = Live(t),
         risky \in SUBSET Tools, risky' \subseteq risky,
         standing \in [Prefs -> Nat], standing' \in [Prefs -> Nat],
         \A p \in Prefs : standing'[p] <= standing[p]
  PROVE  EveryEditExplained'
<1>1. \A t \in risky' \ BuiltinRisky : Live(t)' # {}
  BY DEF EveryEditExplained
<1>2. ASSUME NEW p \in Prefs
      PROVE  standing'[p] <= Cardinality(Live(p))'
  <2>1. Cardinality(Live(p))' = Cardinality(Live(p)) /\ Cardinality(Live(p)) \in Nat
    BY LiveIsFinite
  <2>2. standing[p] <= Cardinality(Live(p)) /\ standing[p] \in Nat /\ standing'[p] \in Nat
    BY DEF EveryEditExplained
  <2> QED BY <2>1, <2>2
<1> QED BY <1>1, <1>2 DEF EveryEditExplained

(* A change whose status is none of those Live and RevertsHaveEntries ask  *)
(* for, before and after, changes neither.                                 *)
LEMMA SilentEntry ==
  ASSUME MetaInv, MetaInv', RevertsHaveEntries, NEW c \in Changes,
         \A d \in Changes : d # c => change'[d] = change[d],
         change[c].status \notin {"applied", "reverted"},
         change'[c].status \notin {"applied", "reverted"}
  PROVE  (\A t : Live(t)' = Live(t)) /\ RevertsHaveEntries'
<1>1. ASSUME NEW t
      PROVE  Live(t)' = Live(t)
  <2>1. ASSUME NEW d \in Changes
        PROVE  d \in Live(t)' <=> d \in Live(t)
    <3>1. CASE d = c
      BY <3>1 DEF Live
    <3>2. CASE d # c
      <4>1. change'[d] = change[d]
        BY <3>2
      <4>2. (\A r \in Changes : change'[r].revertOf = d => change'[r].status # "applied")
              <=> \A r \in Changes : change[r].revertOf = d => change[r].status # "applied"
        OBVIOUS
      <4> QED BY <4>1, <4>2 DEF Live
    <3> QED BY <3>1, <3>2
  <2> QED BY <2>1 DEF Live
<1>2. ASSUME NEW d \in Changes, change'[d].status = "reverted"
      PROVE  \E r \in Changes : /\ change'[r].revertOf = d
                                /\ change'[r].status = "applied"
                                /\ change'[r].pc = "done"
  <2>1. change[d].status = "reverted"
    BY <1>2
  <2>2. PICK r \in Changes : /\ change[r].revertOf = d
                             /\ change[r].status = "applied"
                             /\ change[r].pc = "done"
    BY <2>1 DEF RevertsHaveEntries
  <2> QED BY <2>2
<1> QED BY <1>1, <1>2 DEF RevertsHaveEntries, MetaInv, Entries, EntryOK

LEMMA EnterExplained ==
  ASSUME Explained, MetaInv', NEW c \in Changes, IsNext(c),
         change'[c].status \in {"proposed", "refused"},
         \A d \in Changes : d # c => change'[d] = change[d],
         UNCHANGED <<risky, standing>>
  PROVE  Explained'
<1>1. change[c].status = "none"
  BY DEF IsNext, Made
<1>2. (\A t : Live(t)' = Live(t)) /\ RevertsHaveEntries'
  BY <1>1, SilentEntry DEF Explained
<1>3. EveryEditExplained'
  BY <1>2, SameLiveKeeps DEF Explained, MetaInv, TypeOK
<1> QED BY <1>2, <1>3 DEF Explained

(* An approved tightening or preference is one more that is live.          *)
LEMMA AppliedExplained ==
  ASSUME Explained, MetaInv', NEW c \in Changes, c \in waiting, Decide(c, TRUE),
         change[c].revertOf = None
  PROVE  EveryEditExplained'
<1> DEFINE t == change[c].target
<1>1. change[c].status = "proposed" /\ EntryOK(c)
  BY WaitedForIsProposed DEF Explained, MetaInv, Entries
<1>2. \A d \in Changes :
        /\ change'[d].target = change[d].target /\ change'[d].revertOf = change[d].revertOf
        /\ change'[d].status = IF d = c THEN "applied" ELSE change[d].status
  BY DEF Decide, Explained, MetaInv, TypeOK, Change
<1>3. ASSUME NEW u
      PROVE  Live(u)' = IF u = t THEN Live(u) \union {c} ELSE Live(u)
  <2>1. ASSUME NEW d \in Changes
        PROVE  d \in Live(u)' <=> d \in Live(u) \/ (u = t /\ d = c)
    <3>1. CASE d = c
      <4>1. \A r \in Changes : change'[r].revertOf = c => change'[r].status # "applied"
        <5> SUFFICES ASSUME NEW r \in Changes, change[r].revertOf = c PROVE FALSE
          BY <1>2
        <5>1. EntryOK(r) /\ c # None
          BY NoneIsNoChange DEF Explained, MetaInv, Entries
        <5> QED BY <1>1, <5>1 DEF EntryOK
      <4>2. change'[c].status = "applied" /\ change'[c].revertOf = None /\ change'[c].target = t
        BY <1>2
      <4> QED BY <1>1, <3>1, <4>1, <4>2 DEF Live
    <3>2. CASE d # c
      <4>1. (\A r \in Changes : change'[r].revertOf = d => change'[r].status # "applied")
              <=> \A r \in Changes : change[r].revertOf = d => change[r].status # "applied"
        <5>1. d # None
          BY NoneIsNoChange
        <5> QED BY <1>2, <5>1
      <4> QED BY <1>2, <3>2, <4>1 DEF Live
    <3> QED BY <3>1, <3>2
  <2>2. Live(u)' \subseteq Changes /\ Live(u) \subseteq Changes
    BY DEF Live
  <2> QED BY <2>1, <2>2
<1>4. c \notin Live(t)
  BY <1>1 DEF Live
<1>5. Apply(c)
  BY DEF Decide
<1>6. ASSUME NEW u \in risky' \ BuiltinRisky
      PROVE  Live(u)' # {}
  <2>1. u \in risky \/ u = t
    BY <1>5 DEF Apply
  <2> QED BY <1>3, <2>1 DEF Explained, EveryEditExplained
<1>7. ASSUME NEW p \in Prefs
      PROVE  standing'[p] <= Cardinality(Live(p))'
  <2>1. standing[p] \in Nat /\ standing[p] <= Cardinality(Live(p))
        /\ Cardinality(Live(p)) \in Nat
    BY LiveIsFinite DEF Explained, EveryEditExplained, MetaInv, TypeOK
  <2>2. standing'[p] = IF p = t THEN standing[p] + 1 ELSE standing[p]
    BY <1>5 DEF Apply
  <2>4. CASE p = t
    <3>1. Cardinality(Live(p) \union {c}) = Cardinality(Live(p)) + 1
      BY <1>4, <2>4, LiveIsFinite, FS_AddElement
    <3>2. Cardinality(Live(p))' = Cardinality(Live(p) \union {c})
      BY <1>3, <2>4
    <3> QED BY <2>1, <2>2, <2>4, <3>1, <3>2
  <2>5. CASE p # t
    <3>1. Cardinality(Live(p))' = Cardinality(Live(p))
      BY <1>3, <2>5
    <3> QED BY <2>1, <2>2, <2>5, <3>1
  <2> QED BY <2>4, <2>5
<1> QED BY <1>6, <1>7 DEF EveryEditExplained

(* An approved revert takes away what it reverts, from the live changes    *)
(* and from what stands.                                                   *)
LEMMA RevertedExplained ==
  ASSUME Explained, MetaInv', NEW c \in Changes, c \in waiting, Decide(c, TRUE),
         change[c].revertOf # None
  PROVE  EveryEditExplained'
<1> DEFINE t == change[c].target
           o == change[c].revertOf
<1>1. change[c].status = "proposed" /\ EntryOK(c) /\ o \in Changes
  BY WaitedForIsProposed DEF Explained, MetaInv, Entries, TypeOK, Change
<1>2. \A d \in Changes :
        /\ change'[d].target = change[d].target /\ change'[d].revertOf = change[d].revertOf
        /\ change'[d].status = IF d = c THEN "applied" ELSE change[d].status
  BY DEF Decide, Explained, MetaInv, TypeOK, Change
<1>3. ASSUME NEW u
      PROVE  Live(u)' = Live(u) \ {o}
  <2>1. ASSUME NEW d \in Changes
        PROVE  d \in Live(u)' <=> d \in Live(u) /\ d # o
    <3>1. CASE d = o
      <4>1. d \notin Live(u)'
        BY <1>1, <1>2, <3>1 DEF Live
      <4> QED BY <3>1, <4>1
    <3>2. CASE d = c /\ d # o
      BY <1>1, <1>2, <3>2 DEF Live
    <3>3. CASE d # c /\ d # o
      <4>1. (\A r \in Changes : change'[r].revertOf = d => change'[r].status # "applied")
              <=> \A r \in Changes : change[r].revertOf = d => change[r].status # "applied"
        BY <1>2, <3>3
      <4> QED BY <1>2, <3>3, <4>1 DEF Live
    <3> QED BY <3>1, <3>2, <3>3
  <2>2. Live(u)' \subseteq Changes /\ Live(u) \subseteq Changes
    BY DEF Live
  <2> QED BY <2>1, <2>2
<1>4. \A u : u # t => o \notin Live(u)
  BY <1>1 DEF Live, EntryOK
<1>5. Apply(c)
  BY DEF Decide
<1>6. ASSUME NEW u \in risky' \ BuiltinRisky
      PROVE  Live(u)' # {}
  <2>1. u \in risky /\ u # t
    BY <1>5 DEF Apply, Explained, MetaInv, TypeOK
  <2>2. Live(u)' = Live(u)
    BY <1>3, <1>4, <2>1
  <2> QED BY <2>1, <2>2 DEF Explained, EveryEditExplained
<1>7. ASSUME NEW p \in Prefs
      PROVE  standing'[p] <= Cardinality(Live(p))'
  <2>1. standing[p] \in Nat /\ standing[p] <= Cardinality(Live(p))
        /\ Cardinality(Live(p)) \in Nat
    BY LiveIsFinite DEF Explained, EveryEditExplained, MetaInv, TypeOK
  <2>2. standing'[p] = IF p # t THEN standing[p]
                       ELSE IF standing[p] > 0 THEN standing[p] - 1 ELSE 0
    BY <1>5 DEF Apply
  <2>3. Cardinality(Live(p))' = Cardinality(Live(p) \ {o})
    BY <1>3
  <2>4. CASE p = t
    <3>1. CASE o \in Live(p)
      <4>1. Cardinality(Live(p) \ {o}) = Cardinality(Live(p)) - 1
        BY <3>1, LiveIsFinite, FS_RemoveElement
      <4>2. Cardinality(Live(p)) # 0
        BY <3>1, LiveIsFinite, FS_EmptySet
      <4> QED BY <2>1, <2>2, <2>3, <2>4, <4>1, <4>2
    <3>2. CASE o \notin Live(p)
      <4>1. Live(p) \ {o} = Live(p)
        BY <3>2
      <4> QED BY <2>1, <2>2, <2>3, <2>4, <4>1
    <3> QED BY <3>1, <3>2
  <2>5. CASE p # t
    <3>1. Live(p) \ {o} = Live(p)
      BY <1>4, <2>5
    <3> QED BY <2>1, <2>2, <2>3, <2>5, <3>1
  <2> QED BY <2>4, <2>5
<1> QED BY <1>6, <1>7 DEF EveryEditExplained

LEMMA DecideExplained ==
  ASSUME Explained, MetaInv', NEW c \in Changes, NEW ok \in BOOLEAN, Decide(c, ok)
  PROVE  Explained'
<1>1. CASE c \notin waiting
  <2>1. UNCHANGED <<change, risky, standing>>
    BY <1>1 DEF Decide
  <2> QED BY <2>1 DEF Explained, EveryEditExplained, RevertsHaveEntries, Live
<1>2. CASE c \in waiting
  <2>1. change[c].status = "proposed"
    BY <1>2, WaitedForIsProposed DEF Explained
  <2>2. \A d \in Changes : d # c => change'[d] = change[d]
    BY <1>2 DEF Decide, Explained, MetaInv, TypeOK
  <2>3. CASE ~ok
    <3>1. change'[c].status = "denied"
      BY <1>2, <2>3 DEF Decide, Explained, MetaInv, TypeOK, Change
    <3>2. (\A t : Live(t)' = Live(t)) /\ RevertsHaveEntries'
      BY <2>1, <2>2, <3>1, SilentEntry DEF Explained
    <3>3. UNCHANGED <<risky, standing>>
      BY <1>2, <2>3 DEF Decide
    <3>4. EveryEditExplained'
      BY <3>2, <3>3, SameLiveKeeps DEF Explained, MetaInv, TypeOK
    <3> QED BY <3>2, <3>4 DEF Explained
  <2>4. CASE ok
    <3>1. EveryEditExplained'
      BY <1>2, <2>4, AppliedExplained, RevertedExplained
    <3>2. change'[c].status = "applied"
      BY <1>2, <2>4 DEF Decide, Explained, MetaInv, TypeOK, Change
    <3>3. ASSUME NEW d \in Changes, change'[d].status = "reverted"
          PROVE  \E r \in Changes : /\ change'[r].revertOf = d
                                    /\ change'[r].status = "applied"
                                    /\ change'[r].pc = "done"
      <4>1. change[d].status = "reverted"
        BY <2>2, <3>2, <3>3
      <4>2. PICK r \in Changes : /\ change[r].revertOf = d
                                 /\ change[r].status = "applied"
                                 /\ change[r].pc = "done"
        BY <4>1 DEF Explained, RevertsHaveEntries
      <4> QED BY <2>1, <2>2, <4>2
    <3> QED BY <3>1, <3>3 DEF Explained, RevertsHaveEntries, MetaInv, Entries, EntryOK
  <2> QED BY <2>3, <2>4
<1> QED BY <1>1, <1>2

(* What a finished revert marks was not live any more, and the finished    *)
(* revert is the entry that explains the mark.                             *)
LEMMA FinishMintExplained ==
  ASSUME Explained, MetaInv', NEW c \in Changes, FinishMint(c)
  PROVE  Explained'
<1>1. ASSUME NEW d \in Changes
      PROVE  /\ change'[d].target = change[d].target
             /\ change'[d].revertOf = change[d].revertOf
             /\ change'[d].status = IF d # c /\ d \in Marked(c) THEN "reverted"
                                    ELSE change[d].status
             /\ change[d].pc = "done" \/ d = c => change'[d].pc = "done"
  <2>1. change[d] \in Change /\ change[c].pc = "minting"
    BY DEF FinishMint, Explained, MetaInv, TypeOK
  <2> QED BY <2>1 DEF FinishMint, Change
<1>2. ASSUME NEW d \in Marked(c)
      PROVE  /\ d \in Changes /\ d # c /\ change[c].revertOf = d
             /\ change[c].status = "applied" /\ change[d].revertOf = None
  <2>1. d \in Changes /\ change[c].revertOf = d /\ change[c].status = "applied"
    BY DEF Marked
  <2>2. EntryOK(c) /\ d # None
    BY <2>1, NoneIsNoChange DEF Explained, MetaInv, Entries
  <2> QED BY <2>1, <2>2 DEF EntryOK
<1>3. c \notin Marked(c)
  BY <1>2
<1>4. ASSUME NEW t
      PROVE  Live(t)' = Live(t)
  <2>1. ASSUME NEW d \in Changes
        PROVE  d \in Live(t)' <=> d \in Live(t)
    <3>1. CASE d \in Marked(c)
      <4>1. d \notin Live(t)
        BY <1>2, <3>1 DEF Live
      <4>2. d \notin Live(t)'
        BY <1>1, <1>2, <3>1 DEF Live
      <4> QED BY <4>1, <4>2
    <3>2. CASE d \notin Marked(c)
      <4>1. ASSUME NEW r \in Changes, change[r].revertOf = d
            PROVE  change'[r].status = change[r].status
        <5>1. r \notin Marked(c)
          <6>1. d # None
            BY NoneIsNoChange
          <6> QED BY <1>2, <4>1, <6>1
        <5> QED BY <1>1, <5>1
      <4>2. (\A r \in Changes : change'[r].revertOf = d => change'[r].status # "applied")
              <=> \A r \in Changes : change[r].revertOf = d => change[r].status # "applied"
        BY <1>1, <4>1
      <4> QED BY <1>1, <3>2, <4>2 DEF Live
    <3> QED BY <3>1, <3>2
  <2> QED BY <2>1 DEF Live
<1>5. EveryEditExplained'
  <2>1. UNCHANGED <<risky, standing>>
    BY DEF FinishMint
  <2> QED BY <1>4, <2>1, SameLiveKeeps DEF Explained, MetaInv, TypeOK
<1>6. ASSUME NEW d \in Changes, change'[d].status = "reverted"
      PROVE  \E r \in Changes : /\ change'[r].revertOf = d
                                /\ change'[r].status = "applied"
                                /\ change'[r].pc = "done"
  <2>1. CASE d \in Marked(c)
    BY <1>1, <1>2, <1>3, <2>1
  <2>2. CASE d \notin Marked(c)
    <3>1. change[d].status = "reverted"
      BY <1>1, <1>6, <2>2
    <3>2. PICK r \in Changes : /\ change[r].revertOf = d
                               /\ change[r].status = "applied"
                               /\ change[r].pc = "done"
      BY <3>1 DEF Explained, RevertsHaveEntries
    <3>3. r \notin Marked(c)
      <4>1. d # None
        BY NoneIsNoChange
      <4> QED BY <1>2, <3>2, <4>1
    <3> QED BY <1>1, <3>2, <3>3
  <2> QED BY <2>1, <2>2
<1> QED BY <1>5, <1>6 DEF Explained, RevertsHaveEntries, MetaInv, Entries, EntryOK

LEMMA DeleteExplained ==
  ASSUME Explained, MetaInv', NEW p \in Prefs, Delete(p)
  PROVE  Explained'
<1>1. (\A t : Live(t)' = Live(t)) /\ RevertsHaveEntries'
  BY DEF Delete, Live, Explained, RevertsHaveEntries
<1>2. \A q \in Prefs : standing'[q] <= standing[q]
  BY DEF Delete, Explained, MetaInv, TypeOK
<1>3. EveryEditExplained'
  BY <1>1, <1>2, SameLiveKeeps DEF Delete, Explained, MetaInv, TypeOK
<1> QED BY <1>1, <1>3 DEF Explained

LEMMA RestartExplained ==
  ASSUME Explained, MetaInv', Restart
  PROVE  Explained'
<1>1. ASSUME NEW d \in Changes
      PROVE  /\ change'[d].target = change[d].target
             /\ change'[d].revertOf = change[d].revertOf
             /\ change'[d].status = change[d].status
             /\ change[d].pc = "done" => change'[d].pc = "done"
  BY DEF Restart, Explained, MetaInv, TypeOK, Change
<1>2. \A t : Live(t)' = Live(t)
  BY <1>1 DEF Live
<1>3. RevertsHaveEntries'
  <2>1. ASSUME NEW d \in Changes, change'[d].status = "reverted"
        PROVE  \E r \in Changes : /\ change'[r].revertOf = d
                                  /\ change'[r].status = "applied"
                                  /\ change'[r].pc = "done"
    <3>1. PICK r \in Changes : /\ change[r].revertOf = d
                               /\ change[r].status = "applied"
                               /\ change[r].pc = "done"
      BY <1>1, <2>1 DEF Explained, RevertsHaveEntries
    <3> QED BY <1>1, <3>1
  <2> QED BY <2>1 DEF RevertsHaveEntries, MetaInv, Entries, EntryOK
<1>4. EveryEditExplained'
  <2>1. risky' = BuiltinRisky /\ standing' = standing
    BY DEF Restart
  <2>2. risky' \subseteq risky
    BY <2>1 DEF Explained, MetaInv, FloorStays
  <2> QED BY <1>2, <2>1, <2>2, SameLiveKeeps DEF Explained, MetaInv, TypeOK
<1> QED BY <1>3, <1>4 DEF Explained

LEMMA InitExplained == Init => Explained
<1> SUFFICES ASSUME Init PROVE Explained
  OBVIOUS
<1>1. \A p \in Prefs : standing[p] = 0 /\ Cardinality(Live(p)) \in Nat
  BY LiveIsFinite DEF Init
<1>2. EveryEditExplained
  BY <1>1 DEF Init, EveryEditExplained
<1>3. RevertsHaveEntries
  BY DEF Init, Unmade, RevertsHaveEntries
<1> QED BY <1>2, <1>3, InitMetaInv DEF Explained

LEMMA NextExplained == Explained /\ [Next]_metaVars => Explained'
<1> SUFFICES ASSUME Explained, [Next]_metaVars PROVE Explained'
  OBVIOUS
<1>1. MetaInv'
  BY NextKeeps DEF Explained
<1>2. ASSUME NEW c \in Changes, IsNext(c), EnterRefused(c) PROVE Explained'
  <2>1. /\ change'[c].status \in {"proposed", "refused"}
        /\ \A d \in Changes : d # c => change'[d] = change[d]
        /\ UNCHANGED <<risky, standing>>
    BY <1>2 DEF EnterRefused, Explained, MetaInv, TypeOK
  <2> QED BY <1>1, <1>2, <2>1, EnterExplained
<1>3. ASSUME NEW c \in Changes, IsNext(c), NEW t, NEW o, EnterProposed(c, t, o) PROVE Explained'
  <2>1. /\ change'[c].status \in {"proposed", "refused"}
        /\ \A d \in Changes : d # c => change'[d] = change[d]
        /\ UNCHANGED <<risky, standing>>
    BY <1>3 DEF EnterProposed, Explained, MetaInv, TypeOK
  <2> QED BY <1>1, <1>3, <2>1, EnterExplained
<1>4. ASSUME NEW c \in Changes, NEW t \in Tools \union Prefs, Propose(c, t) PROVE Explained'
  BY <1>2, <1>3, <1>4 DEF Propose
<1>5. ASSUME NEW c \in Changes, ProposeNonsense(c) PROVE Explained'
  BY <1>2, <1>5 DEF ProposeNonsense
<1>6. ASSUME NEW c \in Changes, NEW o \in Changes, Revert(c, o) PROVE Explained'
  BY <1>2, <1>3, <1>6 DEF Revert
<1>7. ASSUME NEW c \in Changes, NEW ok \in BOOLEAN, Decide(c, ok) PROVE Explained'
  BY <1>1, <1>7, DecideExplained
<1>8. ASSUME NEW c \in Changes, FinishMint(c) PROVE Explained'
  BY <1>1, <1>8, FinishMintExplained
<1>9. ASSUME NEW p \in Prefs, Delete(p) PROVE Explained'
  BY <1>1, <1>9, DeleteExplained
<1>10. CASE Restart
  BY <1>1, <1>10, RestartExplained
<1>11. CASE UNCHANGED metaVars
  BY <1>1, <1>11 DEF Explained, metaVars, EveryEditExplained, RevertsHaveEntries, Live
<1> QED BY <1>4, <1>5, <1>6, <1>7, <1>8, <1>9, <1>10, <1>11 DEF Next

LEMMA ExplainedHolds == Spec => []Explained
BY InitExplained, NextExplained, PTL DEF Spec

(* Every edit in force is explained by an approved change that was not     *)
(* taken back, and no preference stands more often than there are such.    *)
THEOREM EditsCorrect == Spec => []EveryEditExplained
<1>1. Explained => EveryEditExplained
  BY DEF Explained
<1> QED BY <1>1, ExplainedHolds, PTL

(* What is called reverted has an approved, finished entry that reverted   *)
(* it; reverts are terminal and stay on their target.                      *)
THEOREM RevertsCorrect == Spec => []RevertsHaveEntries
<1>1. Explained => RevertsHaveEntries
  BY DEF Explained
<1> QED BY <1>1, ExplainedHolds, PTL
=============================================================================
