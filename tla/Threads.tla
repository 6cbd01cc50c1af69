------------------------------- MODULE Threads -------------------------------
(***************************************************************************)
(* The conversations of a Vouch session and the page that shows one.       *)
(*                                                                         *)
(* The session keeps each thread's messages, the id of the active thread   *)
(* and, once more, the messages the page shows; a run (sendVouchMessage)   *)
(* writes into the thread it was sent in, whichever is active by then.     *)
(* What a run does between its writes is ChatRuns' subject: here a run is  *)
(* somewhere in its sleeps, at the human gate, or hashing its receipt.     *)
(***************************************************************************)
EXTENDS Integers, FiniteSets

CONSTANTS
  NumThreads,  \* bound: threads, named by the order they are opened in
  NumRuns,     \* bound: messages sent, named by their order
  MaxSaid,     \* bound: how far a message's growth is told apart
  MaxToken,    \* bound: sends and stops in one process life
  MaxRestarts  \* bound: restarts of the process

ASSUME ThreadsAssumption == NumThreads \in Nat \ {0}
ASSUME CountsAssumption ==
  /\ NumRuns \in Nat
  /\ MaxSaid \in Nat
  /\ MaxToken \in Nat
  /\ MaxRestarts \in Nat

Thread == 1 .. NumThreads
Run    == 1 .. NumRuns

VARIABLES
  threads,        \* session.threads: each thread's status and messages
  activeThreadId, \* session.activeThreadId
  messages,       \* session.messages: what the page shows
  run,            \* each run's place, token and captured threadId
  runToken,       \* the run that may still write
  restarts

sessionVars == <<threads, activeThreadId, messages>>
vars == <<threads, activeThreadId, messages, run, runToken, restarts>>

(* A message (and the user's text it answers): how much it says, and       *)
(* whether it is still streaming or how it ended.                          *)
Message == [said : 0 .. MaxSaid, state : {"streaming", "final", "interrupted"}]

(* The messages of one thread, by the run that writes each.                *)
Conversation == UNION {[R -> Message] : R \in SUBSET Run}
NoMessages == [r \in {} |-> [said |-> 0, state |-> "final"]]

(* card: the gate's buttons in the run's message.  Their id is written by  *)
(* patchMsg, which does nothing for a stale run: the card stays hidden.    *)
RunState == [pc : {"idle", "asleep", "simulate", "gate", "mint", "done", "lost"},
             token : 0 .. MaxToken, thread : Thread,
             card : {"none", "shown", "hidden", "answered"}]

TypeOK ==
  /\ threads \in [Thread -> [status : {"none", "open", "dropped"},
                             messages : Conversation]]
  /\ activeThreadId \in Thread
  /\ threads[activeThreadId].status # "none"
  /\ messages \in Conversation
  /\ run \in [Run -> RunState]
  /\ \A r \in Run : run[r].pc # "idle" => r \in DOMAIN threads[run[r].thread].messages
  /\ runToken \in 0 .. MaxToken
  /\ restarts \in 0 .. MaxRestarts

-----------------------------------------------------------------------------
Current(r) == run[r].token = runToken

MessageOf(r) == threads[run[r].thread].messages[r]

Streams(r) ==
  /\ r \in DOMAIN threads[run[r].thread].messages
  /\ MessageOf(r).state = "streaming"

(* The page's lock: Send gives way to Stop while a shown message streams.  *)
Busy == \E r \in DOMAIN messages : messages[r].state = "streaming"

(* updateActive: the captured thread is rewritten and becomes what the     *)
(* page shows.                                                             *)
\* Mutant: the thread that is active now is rewritten instead.
UpdatesTheActive(r, m) ==
  LET t   == activeThreadId
      now == IF r \in DOMAIN threads[t].messages
             THEN [threads[t].messages EXCEPT ![r] = m] ELSE threads[t].messages
  IN
  /\ threads' = [threads EXCEPT ![t].messages = now]
  /\ messages' = now
\* Mutant: the mirror is taken before the rewrite.
MirrorsTheOld(r, m) ==
  LET t == run[r].thread IN
  /\ threads' = [threads EXCEPT ![t].messages[r] = m]
  /\ messages' = threads[t].messages
UpdateActive(r, m) ==
  LET t   == run[r].thread
      now == [threads[t].messages EXCEPT ![r] = m]
  IN
  /\ threads' = [threads EXCEPT ![t].messages = now]
  /\ messages' = now

(* patchMsg: only the run that holds the token writes.                     *)
\* Mutant: the token is not compared.
PatchUnchecked(r, m) == UpdateActive(r, m)
PatchMsg(r, m) ==
  IF Current(r) THEN UpdateActive(r, m) ELSE UNCHANGED <<threads, messages>>

(* A new message joins a conversation.                                     *)
Joined(conversation, r, m) ==
  [q \in DOMAIN conversation \union {r} |-> IF q = r THEN m ELSE conversation[q]]

Longer(m) == [m EXCEPT !.said = IF @ < MaxSaid THEN @ + 1 ELSE @]

(* finalizeIfAborted: the streaming message of a stale run is closed.      *)
FinalizeAborted(r) == UpdateActive(r, [MessageOf(r) EXCEPT !.state = "interrupted"])

(* setActiveVouchThread: the threads and what is shown once t is active.   *)
Activated(t) ==
  [u \in Thread |->
     [threads[u] EXCEPT !.status = IF u = t THEN "open"
                                   ELSE IF u = activeThreadId THEN "dropped"
                                   ELSE @]]

-----------------------------------------------------------------------------
(* One empty main thread, shown.                                           *)
Init ==
  /\ threads = [t \in Thread |->
                  [status |-> IF t = 1 THEN "open" ELSE "none", messages |-> NoMessages]]
  /\ activeThreadId = 1
  /\ messages = NoMessages
  /\ run = [r \in Run |-> [pc |-> "idle", token |-> 0, thread |-> 1, card |-> "none"]]
  /\ runToken = 0
  /\ restarts = 0

(* newVouchThread, a button of the page that is never locked.              *)
NewThread ==
  \E t \in Thread :
    /\ threads[t].status = "none"
    /\ \A u \in 1 .. t - 1 : threads[u].status # "none"
    /\ threads' = Activated(t)
    /\ activeThreadId' = t
    /\ messages' = NoMessages
    /\ UNCHANGED <<run, runToken, restarts>>

(* setActiveVouchThread by a click on a thread, the active one included.   *)
OpenThread(t) ==
  /\ threads[t].status # "none"
  /\ threads' = Activated(t)
  /\ activeThreadId' = t
  /\ messages' = threads[t].messages
  /\ UNCHANGED <<run, runToken, restarts>>

(* The page sends: "continue <thread>" first activates the thread it       *)
(* names, any other text stays with the active one.  The run takes the     *)
(* token - which makes every earlier run stale - and remembers the thread. *)
SendVouchMessage(r, t) ==
  /\ ~Busy
  /\ run[r].pc = "idle"
  /\ \A q \in 1 .. r - 1 : run[q].pc # "idle"
  /\ runToken < MaxToken
  /\ threads[t].status # "none"
  /\ LET opened == Activated(t)
         now    == Joined(opened[t].messages, r, [said |-> 0, state |-> "streaming"])
     IN
     /\ threads' = [opened EXCEPT ![t].messages = now]
     /\ messages' = now
  /\ activeThreadId' = t
  /\ runToken' = runToken + 1
  /\ run' = [run EXCEPT ![r] = [pc |-> "asleep", token |-> runToken + 1,
                                thread |-> t, card |-> "none"]]
  /\ UNCHANGED restarts

(* stopVouch: its button is shown while the page is busy.                  *)
StopVouch ==
  /\ Busy
  /\ runToken < MaxToken
  /\ runToken' = runToken + 1
  /\ UNCHANGED <<threads, activeThreadId, messages, run, restarts>>

(* A sleep or a tool of the live run ends, and it writes on ...            *)
WriteOn(r) ==
  /\ run[r].pc = "asleep"
  /\ Current(r)
  /\ MessageOf(r).said < MaxSaid
  /\ PatchMsg(r, Longer(MessageOf(r)))
  /\ UNCHANGED <<activeThreadId, run, runToken, restarts>>

(* ... or it simulates a risky action ...                                  *)
Simulate(r) ==
  /\ run[r].pc = "asleep"
  /\ Current(r)
  /\ run[r].card = "none"
  /\ PatchMsg(r, Longer(MessageOf(r)))
  /\ run' = [run EXCEPT ![r].pc = "simulate"]
  /\ UNCHANGED <<activeThreadId, runToken, restarts>>

(* ... or it has said all and hashes its receipt.                          *)
BeginMint(r) ==
  /\ run[r].pc = "asleep"
  /\ Current(r)
  /\ PatchMsg(r, Longer(MessageOf(r)))
  /\ run' = [run EXCEPT ![r].pc = "mint"]
  /\ UNCHANGED <<activeThreadId, runToken, restarts>>

(* The sleep of a stale run ends: so does the run.                         *)
\* Mutant: the early return leaves the message as it is.
AbortLeavesStreaming(r) ==
  /\ run[r].pc = "asleep"
  /\ ~Current(r)
  /\ run' = [run EXCEPT ![r].pc = "done"]
  /\ UNCHANGED <<threads, activeThreadId, messages, runToken, restarts>>
Abort(r) ==
  /\ run[r].pc = "asleep"
  /\ ~Current(r)
  /\ FinalizeAborted(r)
  /\ run' = [run EXCEPT ![r].pc = "done"]
  /\ UNCHANGED <<activeThreadId, runToken, restarts>>

(* After the simulation's sleep the gate is asked without a look at the    *)
(* token; the card's buttons are a write like any other.                   *)
AskGate(r) ==
  /\ run[r].pc = "simulate"
  /\ PatchMsg(r, Longer(MessageOf(r)))
  /\ run' = [run EXCEPT ![r].pc = "gate",
                        ![r].card = IF Current(r) THEN "shown" ELSE "hidden"]
  /\ UNCHANGED <<activeThreadId, runToken, restarts>>

(* The human presses a button of a card the page shows: the run goes on,   *)
(* granted or denied, or ends if it is stale.                              *)
Answer(r) ==
  /\ run[r].pc = "gate"
  /\ run[r].card = "shown"
  /\ r \in DOMAIN messages
  /\ \/ /\ Current(r)
        /\ PatchMsg(r, Longer(MessageOf(r)))
        /\ run' = [run EXCEPT ![r].pc = "asleep", ![r].card = "answered"]
     \/ /\ ~Current(r)
        /\ FinalizeAborted(r)
        /\ run' = [run EXCEPT ![r].pc = "done", ![r].card = "answered"]
  /\ UNCHANGED <<activeThreadId, runToken, restarts>>

(* The receipt is minted, whoever holds the token by now; then the message *)
(* is closed, by the last patch or by finalizeIfAborted.                   *)
Mint(r) ==
  /\ run[r].pc = "mint"
  /\ IF Current(r)
     THEN PatchMsg(r, [Longer(MessageOf(r)) EXCEPT !.state = "final"])
     ELSE FinalizeAborted(r)
  /\ run' = [run EXCEPT ![r].pc = "done"]
  /\ UNCHANGED <<activeThreadId, runToken, restarts>>

(* The process ends; loadVouchSession brings the session back as it was,   *)
(* with the messages that were streaming.                                  *)
Restart ==
  /\ restarts < MaxRestarts
  /\ restarts' = restarts + 1
  /\ runToken' = 0
  /\ run' = [r \in Run |->
               [run[r] EXCEPT !.token = 0,
                              !.pc = IF @ \in {"idle", "done"} THEN @ ELSE "lost"]]
  /\ UNCHANGED sessionVars

RunStep(r) ==
  \/ WriteOn(r)
  \/ Simulate(r)
  \/ BeginMint(r)
  \/ Abort(r)
  \/ AskGate(r)
  \/ Mint(r)

Next ==
  \/ NewThread
  \/ \E t \in Thread : OpenThread(t)
  \/ \E r \in Run, t \in Thread : SendVouchMessage(r, t)
  \/ StopVouch
  \/ \E r \in Run : RunStep(r)
  \/ \E r \in Run : Answer(r)
  \/ Restart

(* Timers fire and hashing ends.  The human looks for the thread of a card *)
(* with buttons and presses one, however often the page turns away.        *)
LookForCard(r) ==
  /\ run[r].pc = "gate"
  /\ run[r].card = "shown"
  /\ r \notin DOMAIN messages
  /\ OpenThread(run[r].thread)

Fairness ==
  \A r \in Run :
    /\ WF_vars(RunStep(r))
    /\ WF_vars(LookForCard(r))
    /\ SF_vars(Answer(r))

Spec == Init /\ [][Next]_vars /\ Fairness

-----------------------------------------------------------------------------
(* Properties.                                                             *)

(* One thread is open, the active one, and whatever the page shows is some *)
(* thread as it is now: the double bookkeeping of session.messages and     *)
(* session.threads never leaves an outdated copy on screen, although runs  *)
(* of several threads write both.                                          *)
NothingShownIsOutdated ==
  /\ \A t \in Thread : threads[t].status = "open" <=> t = activeThreadId
  /\ \E t \in Thread : messages = threads[t].messages /\ threads[t].status # "none"

(* A message that ended stays as it is, and one that streams is changed    *)
(* only by the run that holds the token, or to close it: a run that was    *)
(* stopped or superseded writes nothing more, in whichever thread it is,   *)
(* and switching threads touches no message.                               *)
StaleRunsOnlyClose ==
  [][\A r \in Run : run[r].pc \notin {"idle", "lost"} =>
       LET before == MessageOf(r)
           after  == threads'[run[r].thread].messages[r]
       IN after # before =>
            /\ before.state = "streaming"
            /\ Current(r) \/ (after.said = before.said /\ after.state = "interrupted")]_vars

(* Whatever threads are opened and messages sent meanwhile, a message that *)
(* streams is closed in the end - unless the process ends under it, or its *)
(* run was stopped inside the simulation's sleep: its card has no buttons. *)
MessagesClose ==
  \A r \in Run :
    Streams(r) ~> ~Streams(r) \/ run[r].pc = "lost" \/ run[r].card = "hidden"

(* "Aborted runs end the message HONESTLY: streaming stops".  The code     *)
(* does not keep this: Stop during the simulation's sleep leaves the run   *)
(* at a gate whose card was never written, and the thread locked.          *)
StoppedMessagesClose ==
  \A r \in Run :
    Streams(r) /\ ~Current(r) ~> ~Streams(r) \/ run[r].pc = "lost"

(* "mirror of the active thread's messages".  The code does not keep this: *)
(* a run of a thread that is no longer active brings its thread on screen, *)
(* and the next message goes to the one that is active.                    *)
ShownIsActive == messages = threads[activeThreadId].messages
=============================================================================
