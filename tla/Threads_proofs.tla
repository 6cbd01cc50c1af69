---------------------------- MODULE Threads_proofs ----------------------------
(***************************************************************************)
(* What holds of the conversations for any number of threads, runs, sends, *)
(* stops and restarts.  TInv is the inductive invariant.                   *)
(***************************************************************************)
EXTENDS Threads, TLAPS

Working == {"asleep", "simulate", "gate", "mint"}

(* A run's thread was opened, and holds its message; a thread that was not *)
(* opened holds none.                                                      *)
Homes ==
  /\ \A r \in Run : run[r].pc # "idle" => threads[run[r].thread].status # "none"
  /\ \A t \in Thread : threads[t].status = "none" => threads[t].messages = NoMessages

(* The message of a run that works is streaming.                           *)
Writing == \A r \in Run : run[r].pc \in Working => MessageOf(r).state = "streaming"

TInv == TypeOK /\ NothingShownIsOutdated /\ Homes /\ Writing

(* What a run does, in any of its steps: it may rewrite its message to m,  *)
(* and becomes x.                                                          *)
Writes(r, m, x) ==
  /\ run[r].pc \in Working
  /\ UpdateActive(r, m) \/ (UNCHANGED <<threads, messages>> /\ m = MessageOf(r))
  /\ \/ m = MessageOf(r)
     \/ Current(r)
     \/ m.said = MessageOf(r).said /\ m.state = "interrupted"
  /\ run' = [run EXCEPT ![r] = x]
  /\ x.thread = run[r].thread
  /\ x.pc # "idle"
  /\ x.pc \in Working => m.state = "streaming"
  /\ UNCHANGED <<activeThreadId, runToken, restarts>>

-----------------------------------------------------------------------------
(* Conversations.                                                          *)

LEMMA ConversationEmpty == NoMessages \in Conversation
<1>1. NoMessages \in [{} -> Message]
  BY DEF NoMessages
<1>2. {} \in SUBSET Run
  OBVIOUS
<1> QED BY <1>1, <1>2 DEF Conversation

LEMMA ConversationRead ==
  ASSUME NEW c \in Conversation
  PROVE  /\ DOMAIN c \in SUBSET Run
         /\ c \in [DOMAIN c -> Message]
         /\ \A r \in DOMAIN c : c[r] \in Message
<1>1. PICK R \in SUBSET Run : c \in [R -> Message]
  BY DEF Conversation
<1> QED BY <1>1

LEMMA ConversationRewritten ==
  ASSUME NEW c \in Conversation, NEW r \in DOMAIN c, NEW m \in Message
  PROVE  /\ [c EXCEPT ![r] = m] \in Conversation
         /\ DOMAIN [c EXCEPT ![r] = m] = DOMAIN c
         /\ [c EXCEPT ![r] = m][r] = m
         /\ \A q \in DOMAIN c : q # r => [c EXCEPT ![r] = m][q] = c[q]
<1>1. DOMAIN c \in SUBSET Run /\ c \in [DOMAIN c -> Message]
  BY ConversationRead
<1>2. [c EXCEPT ![r] = m] \in [DOMAIN c -> Message]
  BY <1>1
<1>3. [c EXCEPT ![r] = m] \in Conversation
  BY <1>1, <1>2 DEF Conversation
<1> QED BY <1>1, <1>3

LEMMA ConversationJoined ==
  ASSUME NEW c \in Conversation, NEW r \in Run, NEW m \in Message
  PROVE  /\ Joined(c, r, m) \in Conversation
         /\ DOMAIN Joined(c, r, m) = DOMAIN c \union {r}
         /\ Joined(c, r, m)[r] = m
         /\ \A q \in DOMAIN c : q # r => Joined(c, r, m)[q] = c[q]
<1>1. DOMAIN c \in SUBSET Run /\ \A q \in DOMAIN c : c[q] \in Message
  BY ConversationRead
<1>2. DOMAIN c \union {r} \in SUBSET Run
  BY <1>1
<1>3. Joined(c, r, m) \in [DOMAIN c \union {r} -> Message]
  BY <1>1 DEF Joined
<1>4. Joined(c, r, m) \in Conversation
  BY <1>2, <1>3 DEF Conversation
<1> QED BY <1>4 DEF Joined

LEMMA MessageHeld ==
  ASSUME TypeOK, NEW r \in Run, run[r].pc # "idle"
  PROVE  /\ run[r].thread \in Thread
         /\ threads[run[r].thread].messages \in Conversation
         /\ r \in DOMAIN threads[run[r].thread].messages
         /\ MessageOf(r) \in Message
<1>1. /\ run[r].thread \in Thread
      /\ threads[run[r].thread].messages \in Conversation
      /\ r \in DOMAIN threads[run[r].thread].messages
  BY DEF TypeOK, RunState
<1> QED BY <1>1, ConversationRead DEF MessageOf

-----------------------------------------------------------------------------
(* Every step of a run is of the one kind.                                 *)

(* Fields of a run may be rewritten.                                       *)
LEMMA RunRewritten ==
  ASSUME NEW P, NEW K, NEW T, NEW C,
         NEW x \in [pc : P, token : K, thread : T, card : C],
         NEW p \in P, NEW k \in K, NEW c \in C
  PROVE  /\ [x EXCEPT !.pc = p] \in [pc : P, token : K, thread : T, card : C]
         /\ [x EXCEPT !.pc = p, !.card = c] \in [pc : P, token : K, thread : T, card : C]
         /\ [x EXCEPT !.token = k, !.pc = p] \in [pc : P, token : K, thread : T, card : C]
OBVIOUS

LEMMA LongerSame ==
  ASSUME NEW m \in Message
  PROVE  Longer(m) \in Message /\ Longer(m).state = m.state
BY CountsAssumption DEF Message, Longer

LEMMA Closed ==
  ASSUME NEW m \in Message, NEW s \in {"streaming", "final", "interrupted"}
  PROVE  /\ [m EXCEPT !.state = s] \in Message
         /\ [m EXCEPT !.state = s].said = m.said /\ [m EXCEPT !.state = s].state = s
BY DEF Message

LEMMA RunWrites ==
  ASSUME TInv, NEW r \in Run, RunStep(r) \/ Answer(r)
  PROVE  \E m \in Message, x \in RunState : Writes(r, m, x)
<1> DEFINE old == MessageOf(r)
           closed == [old EXCEPT !.state = "interrupted"]
<1>1. run[r].pc \in Working
  BY DEF RunStep, WriteOn, Simulate, BeginMint, Abort, AskGate, Mint, Answer, Working
<1>2. /\ run \in [Run -> RunState] /\ run[r] \in RunState /\ run[r].pc # "idle"
      /\ old \in Message /\ old.state = "streaming"
  BY <1>1, MessageHeld DEF TInv, TypeOK, Writing, Working
<1>3. /\ Longer(old) \in Message /\ Longer(old).state = "streaming"
      /\ [Longer(old) EXCEPT !.state = "final"] \in Message
      /\ closed \in Message /\ closed.said = old.said /\ closed.state = "interrupted"
  BY <1>2, LongerSame, Closed
<1>4. CASE WriteOn(r)
  <2>1. run' = [run EXCEPT ![r] = run[r]]
    BY <1>2, <1>4 DEF WriteOn
  <2>2. Writes(r, Longer(old), run[r])
    BY <1>1, <1>2, <1>3, <1>4, <2>1 DEF WriteOn, PatchMsg, Writes
  <2> QED BY <1>2, <1>3, <2>2
<1>5. CASE Simulate(r)
  <2> DEFINE x == [run[r] EXCEPT !.pc = "simulate"]
  <2>1. x \in RunState /\ x.thread = run[r].thread /\ x.pc = "simulate"
    BY <1>2, RunRewritten DEF RunState
  <2>2. Writes(r, Longer(old), x)
    BY <1>1, <1>2, <1>3, <1>5, <2>1 DEF Simulate, PatchMsg, Writes
  <2> QED BY <1>3, <2>1, <2>2
<1>6. CASE BeginMint(r)
  <2> DEFINE x == [run[r] EXCEPT !.pc = "mint"]
  <2>1. x \in RunState /\ x.thread = run[r].thread /\ x.pc = "mint"
    BY <1>2, RunRewritten DEF RunState
  <2>2. Writes(r, Longer(old), x)
    BY <1>1, <1>2, <1>3, <1>6, <2>1 DEF BeginMint, PatchMsg, Writes
  <2> QED BY <1>3, <2>1, <2>2
<1>7. CASE Abort(r)
  <2> DEFINE x == [run[r] EXCEPT !.pc = "done"]
  <2>1. x \in RunState /\ x.thread = run[r].thread /\ x.pc = "done"
    BY <1>2, RunRewritten DEF RunState
  <2>2. Writes(r, closed, x)
    BY <1>1, <1>2, <1>3, <1>7, <2>1 DEF Abort, FinalizeAborted, Writes, Working
  <2> QED BY <1>3, <2>1, <2>2
<1>8. CASE AskGate(r)
  <2> DEFINE x == [run[r] EXCEPT !.pc = "gate",
                                 !.card = IF Current(r) THEN "shown" ELSE "hidden"]
  <2>1. x \in RunState /\ x.thread = run[r].thread /\ x.pc = "gate"
    BY <1>2, RunRewritten DEF RunState
  <2>2. run' = [run EXCEPT ![r] = x]
    BY <1>2, <1>8 DEF AskGate
  <2>3. CASE Current(r)
    <3>1. Writes(r, Longer(old), x)
      BY <1>1, <1>2, <1>3, <1>8, <2>1, <2>2, <2>3 DEF AskGate, PatchMsg, Writes
    <3> QED BY <1>3, <2>1, <3>1
  <2>4. CASE ~Current(r)
    <3>1. Writes(r, old, x)
      BY <1>1, <1>2, <1>8, <2>1, <2>2, <2>4 DEF AskGate, PatchMsg, Writes
    <3> QED BY <1>2, <2>1, <3>1
  <2> QED BY <2>3, <2>4
<1>9. CASE Mint(r)
  <2> DEFINE x == [run[r] EXCEPT !.pc = "done"]
             last == [Longer(old) EXCEPT !.state = "final"]
  <2>1. x \in RunState /\ x.thread = run[r].thread /\ x.pc = "done"
    BY <1>2, RunRewritten DEF RunState
  <2>2. CASE Current(r)
    <3>1. Writes(r, last, x)
      BY <1>1, <1>9, <2>1, <2>2 DEF Mint, PatchMsg, Writes, Working
    <3> QED BY <1>3, <2>1, <3>1
  <2>3. CASE ~Current(r)
    <3>1. Writes(r, closed, x)
      BY <1>1, <1>3, <1>9, <2>1, <2>3 DEF Mint, FinalizeAborted, Writes, Working
    <3> QED BY <1>3, <2>1, <3>1
  <2> QED BY <2>2, <2>3
<1>10. CASE Answer(r)
  <2>1. CASE Current(r)
    <3> DEFINE x == [run[r] EXCEPT !.pc = "asleep", !.card = "answered"]
    <3>1. x \in RunState /\ x.thread = run[r].thread /\ x.pc = "asleep"
      BY <1>2, RunRewritten DEF RunState
    <3>2. Writes(r, Longer(old), x)
      BY <1>1, <1>2, <1>3, <1>10, <2>1, <3>1 DEF Answer, PatchMsg, Writes
    <3> QED BY <1>3, <3>1, <3>2
  <2>2. CASE ~Current(r)
    <3> DEFINE x == [run[r] EXCEPT !.pc = "done", !.card = "answered"]
    <3>1. x \in RunState /\ x.thread = run[r].thread /\ x.pc = "done"
      BY <1>2, RunRewritten DEF RunState
    <3>2. Writes(r, closed, x)
      BY <1>1, <1>2, <1>3, <1>10, <2>2, <3>1 DEF Answer, FinalizeAborted, Writes, Working
    <3> QED BY <1>3, <3>1, <3>2
  <2> QED BY <2>1, <2>2
<1> QED BY <1>4, <1>5, <1>6, <1>7, <1>8, <1>9, <1>10 DEF RunStep

-----------------------------------------------------------------------------
(* The invariant: the steps of a run.                                      *)

(* What a rewritten message leaves alone.                                  *)
LEMMA WritesLeaves ==
  ASSUME TInv, NEW r \in Run, NEW m \in Message, NEW x \in RunState, Writes(r, m, x)
  PROVE  LET t == run[r].thread IN
         /\ threads' \in [Thread -> [status : {"none", "open", "dropped"},
                                     messages : Conversation]]
         /\ \A u \in Thread : threads'[u].status = threads[u].status
         /\ \A u \in Thread : u # t => threads'[u] = threads[u]
         /\ DOMAIN threads'[t].messages = DOMAIN threads[t].messages
         /\ threads'[t].messages[r] = m
         /\ \A q \in DOMAIN threads[t].messages :
              q # r => threads'[t].messages[q] = threads[t].messages[q]
         /\ \/ messages' = threads'[t].messages
            \/ messages' = messages /\ threads' = threads
<1> DEFINE t == run[r].thread
           now == [threads[t].messages EXCEPT ![r] = m]
<1>1. run[r].pc # "idle"
  BY DEF Writes, Working
<1>2. t \in Thread /\ threads[t].messages \in Conversation /\ r \in DOMAIN threads[t].messages
  BY <1>1, MessageHeld DEF TInv
<1>3. threads \in [Thread -> [status : {"none", "open", "dropped"}, messages : Conversation]]
  BY DEF TInv, TypeOK
<1>4. CASE UpdateActive(r, m)
  <2>1. threads' = [threads EXCEPT ![t].messages = now] /\ messages' = now
    BY <1>4 DEF UpdateActive
  <2>2. /\ now \in Conversation /\ DOMAIN now = DOMAIN threads[t].messages /\ now[r] = m
        /\ \A q \in DOMAIN threads[t].messages : q # r => now[q] = threads[t].messages[q]
    BY <1>2, ConversationRewritten
  <2> HIDE DEF now
  <2> QED BY <1>2, <1>3, <2>1, <2>2
<1>5. CASE UNCHANGED <<threads, messages>> /\ m = MessageOf(r)
  BY <1>3, <1>5 DEF MessageOf
<1> QED BY <1>4, <1>5 DEF Writes

LEMMA WritesInv ==
  ASSUME TInv, NEW r \in Run, NEW m \in Message, NEW x \in RunState, Writes(r, m, x)
  PROVE  TInv'
<1> DEFINE t == run[r].thread
<1>1. /\ threads' \in [Thread -> [status : {"none", "open", "dropped"}, messages : Conversation]]
      /\ \A u \in Thread : threads'[u].status = threads[u].status
      /\ \A u \in Thread : u # t => threads'[u] = threads[u]
      /\ DOMAIN threads'[t].messages = DOMAIN threads[t].messages
      /\ threads'[t].messages[r] = m
      /\ \A q \in DOMAIN threads[t].messages :
           q # r => threads'[t].messages[q] = threads[t].messages[q]
      /\ \/ messages' = threads'[t].messages
         \/ messages' = messages /\ threads' = threads
  BY WritesLeaves
<1>2. /\ run[r].pc # "idle" /\ run[r].pc \in Working
      /\ run' = [run EXCEPT ![r] = x] /\ x.thread = t /\ x.pc # "idle"
      /\ x.pc \in Working => m.state = "streaming"
      /\ activeThreadId' = activeThreadId /\ runToken' = runToken /\ restarts' = restarts
  BY DEF Writes, Working
<1>3. /\ t \in Thread /\ r \in DOMAIN threads[t].messages /\ threads[t].status # "none"
      /\ threads[t].messages \in Conversation
  BY <1>2, MessageHeld DEF TInv, Homes
<1>4. /\ run' \in [Run -> RunState] /\ run'[r] = x
      /\ \A q \in Run : q # r => run'[q] = run[q]
      /\ \A q \in Run : run'[q].thread = run[q].thread /\ run[q].thread \in Thread
      /\ \A q \in Run : run'[q].pc # "idle" => run[q].pc # "idle"
  BY <1>2 DEF TInv, TypeOK, RunState
<1>5. messages' \in Conversation
  BY <1>1, <1>3 DEF TInv, TypeOK
<1>6. \A u \in Thread : DOMAIN threads'[u].messages = DOMAIN threads[u].messages
  BY <1>1
<1>7. TypeOK'
  BY <1>1, <1>2, <1>4, <1>5, <1>6 DEF TInv, TypeOK
<1>8. NothingShownIsOutdated'
  BY <1>1, <1>2, <1>3 DEF TInv, NothingShownIsOutdated
<1>9. Homes'
  BY <1>1, <1>3, <1>4 DEF TInv, Homes
<1>10. ASSUME NEW q \in Run, run'[q].pc \in Working
       PROVE  MessageOf(q)'.state = "streaming"
  <2>1. CASE q = r
    BY <1>1, <1>2, <1>4, <1>10, <2>1 DEF MessageOf
  <2>2. CASE q # r
    <3>1. /\ run'[q] = run[q] /\ MessageOf(q).state = "streaming"
          /\ run[q].thread \in Thread /\ q \in DOMAIN threads[run[q].thread].messages
      BY <1>4, <1>10, <2>2, MessageHeld DEF TInv, Writing, Working
    <3>2. threads'[run[q].thread].messages[q] = threads[run[q].thread].messages[q]
      BY <1>1, <2>2, <3>1
    <3> QED BY <3>1, <3>2 DEF MessageOf
  <2> QED BY <2>1, <2>2
<1>11. Writing'
  BY <1>10 DEF Writing
<1> QED BY <1>7, <1>8, <1>9, <1>11 DEF TInv

-----------------------------------------------------------------------------
(* The invariant: the page and the process.                                *)

LEMMA ActivatedThreads ==
  ASSUME TInv, NEW t \in Thread, threads' = Activated(t)
  PROVE  /\ threads' \in [Thread -> [status : {"none", "open", "dropped"},
                                     messages : Conversation]]
         /\ \A u \in Thread : threads'[u].messages = threads[u].messages
         /\ \A u \in Thread : threads'[u].status = "open" <=> u = t
         /\ \A u \in Thread : u # t => (threads'[u].status = "none" <=> threads[u].status = "none")
BY DEF TInv, TypeOK, NothingShownIsOutdated, Activated

LEMMA NewThreadInv == ASSUME TInv, NewThread PROVE TInv'
<1>1. PICK t \in Thread :
        /\ threads[t].status = "none" /\ threads' = Activated(t)
        /\ activeThreadId' = t /\ messages' = NoMessages
        /\ UNCHANGED <<run, runToken, restarts>>
  BY DEF NewThread
<1>2. /\ threads' \in [Thread -> [status : {"none", "open", "dropped"}, messages : Conversation]]
      /\ \A u \in Thread : threads'[u].messages = threads[u].messages
      /\ \A u \in Thread : threads'[u].status = "open" <=> u = t
      /\ \A u \in Thread : u # t => (threads'[u].status = "none" <=> threads[u].status = "none")
  BY <1>1, ActivatedThreads
<1>3. \A r \in Run : run[r].thread \in Thread
  BY DEF TInv, TypeOK, RunState
<1>4. TypeOK'
  BY <1>1, <1>2, <1>3, ConversationEmpty DEF TInv, TypeOK
<1>5. NothingShownIsOutdated'
  BY <1>1, <1>2 DEF TInv, Homes, NothingShownIsOutdated
<1>6. Homes'
  BY <1>1, <1>2, <1>3 DEF TInv, Homes
<1>7. Writing'
  BY <1>1, <1>2, <1>3 DEF TInv, Writing, MessageOf
<1> QED BY <1>4, <1>5, <1>6, <1>7 DEF TInv

LEMMA OpenThreadInv == ASSUME TInv, NEW t \in Thread, OpenThread(t) PROVE TInv'
<1>1. /\ threads[t].status # "none" /\ threads' = Activated(t)
      /\ activeThreadId' = t /\ messages' = threads[t].messages
      /\ UNCHANGED <<run, runToken, restarts>>
  BY DEF OpenThread
<1>2. /\ threads' \in [Thread -> [status : {"none", "open", "dropped"}, messages : Conversation]]
      /\ \A u \in Thread : threads'[u].messages = threads[u].messages
      /\ \A u \in Thread : threads'[u].status = "open" <=> u = t
      /\ \A u \in Thread : u # t => (threads'[u].status = "none" <=> threads[u].status = "none")
  BY <1>1, ActivatedThreads
<1>3. \A r \in Run : run[r].thread \in Thread
  BY DEF TInv, TypeOK, RunState
<1>4. TypeOK'
  BY <1>1, <1>2, <1>3 DEF TInv, TypeOK
<1>5. NothingShownIsOutdated'
  BY <1>1, <1>2 DEF NothingShownIsOutdated
<1>6. Homes'
  BY <1>1, <1>2, <1>3 DEF TInv, Homes
<1>7. Writing'
  BY <1>1, <1>2, <1>3 DEF TInv, Writing, MessageOf
<1> QED BY <1>4, <1>5, <1>6, <1>7 DEF TInv

LEMMA SendInv ==
  ASSUME TInv, NEW r \in Run, NEW t \in Thread, SendVouchMessage(r, t)
  PROVE  TInv'
<1> DEFINE opened == Activated(t)
           first == [said |-> 0, state |-> "streaming"]
           now == Joined(opened[t].messages, r, first)
           x == [pc |-> "asleep", token |-> runToken + 1, thread |-> t, card |-> "none"]
<1>1. /\ run[r].pc = "idle" /\ runToken < MaxToken /\ threads[t].status # "none"
      /\ threads' = [opened EXCEPT ![t].messages = now] /\ messages' = now
      /\ activeThreadId' = t /\ runToken' = runToken + 1
      /\ run' = [run EXCEPT ![r] = x] /\ restarts' = restarts
  BY DEF SendVouchMessage
<1>2. /\ opened \in [Thread -> [status : {"none", "open", "dropped"}, messages : Conversation]]
      /\ \A u \in Thread : opened[u].messages = threads[u].messages
      /\ \A u \in Thread : opened[u].status = "open" <=> u = t
      /\ \A u \in Thread : u # t => (opened[u].status = "none" <=> threads[u].status = "none")
  BY DEF TInv, TypeOK, NothingShownIsOutdated, Activated
<1>3. first \in Message
  BY CountsAssumption DEF Message
<1>4. /\ now \in Conversation /\ DOMAIN now = DOMAIN threads[t].messages \union {r}
      /\ now[r] = first
      /\ \A q \in DOMAIN threads[t].messages : q # r => now[q] = threads[t].messages[q]
  BY <1>2, <1>3, ConversationJoined
<1>5. runToken + 1 \in 0 .. MaxToken
  BY <1>1, CountsAssumption DEF TInv, TypeOK
<1>6. x \in RunState
  BY <1>5 DEF RunState
<1> HIDE DEF opened, now, x
<1>7. /\ threads' \in [Thread -> [status : {"none", "open", "dropped"}, messages : Conversation]]
      /\ \A u \in Thread : threads'[u].status = opened[u].status
      /\ \A u \in Thread : u # t => threads'[u].messages = threads[u].messages
      /\ threads'[t].messages = now
  BY <1>1, <1>2, <1>4
<1>8. /\ run' \in [Run -> RunState] /\ run'[r] = x
      /\ \A q \in Run : q # r => run'[q] = run[q]
      /\ \A q \in Run : run[q].thread \in Thread
      /\ x.thread = t /\ x.pc = "asleep"
  BY <1>1, <1>6 DEF TInv, TypeOK, RunState, x
<1>9. ASSUME NEW q \in Run, run'[q].pc # "idle"
      PROVE  q \in DOMAIN threads'[run'[q].thread].messages
  <2>1. CASE q = r
    BY <1>4, <1>7, <1>8, <2>1
  <2>2. CASE q # r
    <3>1. /\ run'[q] = run[q] /\ run[q].thread \in Thread
          /\ q \in DOMAIN threads[run[q].thread].messages
      BY <1>8, <1>9, <2>2 DEF TInv, TypeOK
    <3>2. CASE run[q].thread = t
      BY <1>4, <1>7, <3>1, <3>2
    <3>3. CASE run[q].thread # t
      BY <1>7, <3>1, <3>3
    <3> QED BY <3>2, <3>3
  <2> QED BY <2>1, <2>2
<1>10. TypeOK'
  BY <1>1, <1>2, <1>4, <1>5, <1>7, <1>8, <1>9 DEF TInv, TypeOK
<1>11. NothingShownIsOutdated'
  BY <1>1, <1>2, <1>7 DEF NothingShownIsOutdated
<1>12. Homes'
  BY <1>1, <1>2, <1>7, <1>8 DEF TInv, Homes
<1>13. ASSUME NEW q \in Run, run'[q].pc \in Working
       PROVE  MessageOf(q)'.state = "streaming"
  <2>1. CASE q = r
    BY <1>4, <1>7, <1>8, <2>1 DEF MessageOf, first
  <2>2. CASE q # r
    <3>1. /\ run'[q] = run[q] /\ MessageOf(q).state = "streaming"
          /\ run[q].thread \in Thread /\ q \in DOMAIN threads[run[q].thread].messages
      BY <1>8, <1>13, <2>2, MessageHeld DEF TInv, Writing, Working
    <3>2. threads'[run[q].thread].messages[q] = threads[run[q].thread].messages[q]
      BY <1>4, <1>7, <2>2, <3>1
    <3> QED BY <3>1, <3>2 DEF MessageOf
  <2> QED BY <2>1, <2>2
<1>14. Writing'
  BY <1>13 DEF Writing
<1> QED BY <1>10, <1>11, <1>12, <1>14 DEF TInv

LEMMA StopInv == ASSUME TInv, StopVouch PROVE TInv'
<1>1. runToken' \in 0 .. MaxToken
  BY CountsAssumption DEF TInv, TypeOK, StopVouch
<1> QED BY <1>1 DEF StopVouch, TInv, TypeOK, NothingShownIsOutdated, Homes, Writing, MessageOf

LEMMA RestartInv == ASSUME TInv, Restart PROVE TInv'
<1> DEFINE pc(r) == IF run[r].pc \in {"idle", "done"} THEN run[r].pc ELSE "lost"
<1>1. ASSUME NEW r \in Run
      PROVE  /\ run'[r] \in RunState /\ run'[r].thread = run[r].thread
             /\ run'[r].pc \notin Working
             /\ run'[r].pc # "idle" => run[r].pc # "idle"
  <2>1. run'[r] = [run[r] EXCEPT !.token = 0, !.pc = pc(r)]
    BY DEF Restart
  <2>2. run[r] \in RunState
    BY DEF TInv, TypeOK
  <2>3. 0 \in 0 .. MaxToken
    BY CountsAssumption
  <2>4. run'[r] \in RunState
    <3>1. ASSUME NEW p \in {"idle", "asleep", "simulate", "gate", "mint", "done", "lost"}
          PROVE  [run[r] EXCEPT !.token = 0, !.pc = p] \in RunState
      BY <2>2, <2>3, RunRewritten DEF RunState
    <3>2. pc(r) \in {"idle", "asleep", "simulate", "gate", "mint", "done", "lost"}
      OBVIOUS
    <3> HIDE DEF pc
    <3> QED BY <2>1, <3>1, <3>2
  <2>5. run'[r].thread = run[r].thread /\ run'[r].pc = pc(r)
    BY <2>1, <2>2 DEF RunState
  <2> QED BY <2>4, <2>5 DEF Working
<1>2. run' \in [Run -> RunState]
  BY <1>1 DEF Restart
<1>3. runToken' \in 0 .. MaxToken /\ restarts' \in 0 .. MaxRestarts /\ UNCHANGED sessionVars
  <2>1. restarts \in 0 .. MaxRestarts
    BY DEF TInv, TypeOK
  <2>2. /\ restarts < MaxRestarts /\ restarts' = restarts + 1 /\ runToken' = 0
        /\ UNCHANGED sessionVars
    BY DEF Restart
  <2> QED BY <2>1, <2>2, CountsAssumption
<1>4. TypeOK'
  BY <1>1, <1>2, <1>3 DEF TInv, TypeOK, sessionVars
<1>5. NothingShownIsOutdated'
  BY <1>3 DEF TInv, NothingShownIsOutdated, sessionVars
<1>6. Homes' /\ Writing'
  BY <1>1, <1>3 DEF TInv, Homes, Writing, sessionVars
<1> QED BY <1>4, <1>5, <1>6 DEF TInv

LEMMA InitInv == Init => TInv
<1> SUFFICES ASSUME Init PROVE TInv
  OBVIOUS
<1>1. 1 \in Thread
  BY ThreadsAssumption DEF Thread
<1>2. TypeOK
  BY <1>1, ConversationEmpty, CountsAssumption DEF Init, TypeOK, RunState
<1> QED BY <1>1, <1>2 DEF Init, TInv, NothingShownIsOutdated, Homes, Writing, Working

LEMMA InvStep == TInv /\ [Next]_vars => TInv'
<1> SUFFICES ASSUME TInv, [Next]_vars PROVE TInv'
  OBVIOUS
<1>1. CASE UNCHANGED vars
  BY <1>1 DEF vars, TInv, TypeOK, NothingShownIsOutdated, Homes, Writing, MessageOf
<1>2. CASE NewThread
  BY <1>2, NewThreadInv
<1>3. CASE \E t \in Thread : OpenThread(t)
  BY <1>3, OpenThreadInv
<1>4. CASE \E r \in Run, t \in Thread : SendVouchMessage(r, t)
  BY <1>4, SendInv
<1>5. CASE StopVouch
  BY <1>5, StopInv
<1>6. CASE \E r \in Run : RunStep(r) \/ Answer(r)
  BY <1>6, RunWrites, WritesInv
<1>7. CASE Restart
  BY <1>7, RestartInv
<1> QED BY <1>1, <1>2, <1>3, <1>4, <1>5, <1>6, <1>7 DEF Next

LEMMA Invariance == Spec => []TInv
<1>1. Init => TInv
  BY InitInv
<1>2. TInv /\ [Next]_vars => TInv'
  BY InvStep
<1> QED BY <1>1, <1>2, PTL DEF Spec

(* Every variable keeps its type, and a run's message is in its thread.    *)
THEOREM TypeCorrect == Spec => []TypeOK
<1>1. TInv => TypeOK
  BY DEF TInv
<1> QED BY <1>1, Invariance, PTL

(* The page never shows an outdated copy of a conversation, and one thread *)
(* is open, the active one, however many runs write in however many others.*)
THEOREM ShownCorrect == Spec => []NothingShownIsOutdated
<1>1. TInv => NothingShownIsOutdated
  BY DEF TInv
<1> QED BY <1>1, Invariance, PTL

(* A stopped or superseded run changes its message only to close it, and   *)
(* a closed message stays as it is.                                        *)
THEOREM StaleCorrect == Spec => StaleRunsOnlyClose
<1> DEFINE A ==
      \A r \in Run : run[r].pc \notin {"idle", "lost"} =>
        LET before == MessageOf(r)
            after  == threads'[run[r].thread].messages[r]
        IN after # before =>
             /\ before.state = "streaming"
             /\ Current(r) \/ (after.said = before.said /\ after.state = "interrupted")
<1>1. TInv /\ [Next]_vars => [A]_vars
  <2> SUFFICES ASSUME TInv, Next, NEW r \in Run, run[r].pc \notin {"idle", "lost"},
                      threads'[run[r].thread].messages[r] # MessageOf(r)
               PROVE  /\ MessageOf(r).state = "streaming"
                      /\ \/ Current(r)
                         \/ /\ threads'[run[r].thread].messages[r].said = MessageOf(r).said
                            /\ threads'[run[r].thread].messages[r].state = "interrupted"
    OBVIOUS
  <2> DEFINE t == run[r].thread
  <2>1. t \in Thread /\ r \in DOMAIN threads[t].messages /\ threads[t].messages \in Conversation
    BY MessageHeld DEF TInv
  <2>2. CASE NewThread \/ \E u \in Thread : OpenThread(u)
    <3>1. \E u \in Thread : threads' = Activated(u)
      BY <2>2 DEF NewThread, OpenThread
    <3> QED BY <2>1, <3>1, ActivatedThreads DEF MessageOf
  <2>3. CASE \E q \in Run, u \in Thread : SendVouchMessage(q, u)
    <3>1. PICK q \in Run, u \in Thread : SendVouchMessage(q, u)
      BY <2>3
    <3> DEFINE now == Joined(Activated(u)[u].messages, q, [said |-> 0, state |-> "streaming"])
    <3>2. threads' = [Activated(u) EXCEPT ![u].messages = now] /\ q # r
      BY <3>1 DEF SendVouchMessage
    <3>3. /\ Activated(u) \in [Thread -> [status : {"none", "open", "dropped"}, messages : Conversation]]
          /\ \A v \in Thread : Activated(u)[v].messages = threads[v].messages
      BY DEF TInv, TypeOK, Activated
    <3>4. \A p \in DOMAIN threads[u].messages : p # q => now[p] = threads[u].messages[p]
      BY <3>3 DEF Joined
    <3> HIDE DEF now
    <3> QED BY <2>1, <3>2, <3>3, <3>4 DEF MessageOf
  <2>4. CASE \E q \in Run : RunStep(q) \/ Answer(q)
    <3>1. PICK q \in Run, m \in Message, x \in RunState : Writes(q, m, x)
      BY <2>4, RunWrites
    <3>2. LET u == run[q].thread IN
          /\ \A v \in Thread : v # u => threads'[v] = threads[v]
          /\ threads'[u].messages[q] = m
          /\ \A p \in DOMAIN threads[u].messages :
               p # q => threads'[u].messages[p] = threads[u].messages[p]
      BY <3>1, WritesLeaves
    <3>3. q = r
      BY <2>1, <3>2 DEF MessageOf
    <3>4. MessageOf(r).state = "streaming"
      BY <3>1, <3>3 DEF Writes, TInv, Writing
    <3> QED BY <3>1, <3>2, <3>3, <3>4 DEF Writes
  <2>5. CASE StopVouch \/ Restart
    BY <2>5 DEF StopVouch, Restart, sessionVars, MessageOf
  <2> QED BY <2>2, <2>3, <2>4, <2>5 DEF Next
<1> QED BY <1>1, Invariance, PTL DEF Spec, StaleRunsOnlyClose
=============================================================================
