# Vouch Harbor in TLA+

TLA+ models of the control plane of this repository (Vouch Harbor, a desktop
"agent OS": TypeScript under `src/`, a Tauri shell in Rust under `src-tauri/`),
the TLC configurations that check them on small instances, and theorems about
them that TLAPS checks for every value of the constants.

Paths are relative to the repository's root. All modules are translations of
the code; where a comment or a document says something else, the model follows
the code and the difference is a finding (below).

## 1. The system

Six "doors" - Teammate (Vouch), Mission Loop, Workflows, Proof, Audit, System -
over one TypeScript engine. Everything in `src/` runs in one JavaScript thread,
so a *step* of the system is what runs between two suspensions (`await`,
timer, promise), and the hard part is what other steps may come in between.

| component | code | state it keeps | operations | what makes it correct |
|---|---|---|---|---|
| Human gate | `src/vouch/engine/vouch.ts` 700-740 | `session.approvals` (persisted), `approvalWaiters` (memory) | request, resolve | a waiter is settled once; no asker is parked under a decided card |
| Vouch Cycle | `vouch.ts`, `src/vouch/pages/VouchPage.tsx` | session (threads and their mirror, receipts, skills, missions; persisted), `runToken`, `lastMission`, `RISKY_TOOLS` (memory) | send, stop, decide, switch or open a thread, learn, mint | consent before effect; a stale run never acts; what is shown as complete is vouched, and as it is in its thread; every run ends |
| MCP capability router | `src/vouch/engine/mcpRouter.ts`, `vouch.ts` `runVouchToolCall` | tool call tracks, tasks, MRTR states | tools/call, approve/deny, tasks/*, the serial stdio loop | no bypass of the gate; the loop never waits for a human; a cancelled task tells the truth |
| Meta-loop | `src/vouch/engine/meta.ts` | ledger of changes, preferences (persisted), `RISKY_TOOLS` (memory) | propose, revert, decide, vouch | the floor stays; every edit in force has an approved, unreverted change |
| Workflow scheduler | `src/engine/scheduler.ts`, `src/graph/validation.ts` `topoSort`, `src/ipc/localDb.ts` | controller flags, node events, approvals, execution record | run, pause, resume, cancel, decide | order; no pass without approval; a truthful record; it ends |
| Capability genome | `src/vouch/engine/genome.ts` | versions with a status, gates passed and a parent | observe, promote, reopen, monitor, roll back, derive, import | what runs earned it here; transitions of the table only; nothing is rewritten |
| Mission Loop | `src/mission/missionLoop.ts`, `teamEvolution.ts`, `src/pages/LoopPage.tsx` | ledger of cycles, `running`, what is known of a seat, candidates, the crew (persisted) | cycle, batch, rate, decide a candidate | numbers once, `running` means running; evidence is used once; praise holds |
| Team executor | `src/mission/teamExecutor.ts`, `collaboration.ts`, `caps.ts`, `verifyGate.ts`, `mergePlan.ts`, `mergeExecutor.ts`, `fleet.ts` | waves of seats, branches, cap ledger | execute a team, review, verify, merge | reviewers see every writer's work; nothing unverified is merged; budgets hold |
| Mission runtime | `src/mission/missionRuntime.ts`, `organization.ts`, `approvals.ts`, `checkpoints.ts`, `supervisor.ts`, `graphMutator.ts`, `src/pages/MissionPage.tsx` | status, tasks, requests, checkpoints (persisted); plan, pause flag, repairs (memory) | prepare, run, pause, resume, approve, reject, checkpoint, roll back, save and restore | a human before each gated turn; nothing ahead of what it depends on; one repair of a task at a time; done stays done; no question without an asker; every run ends |
| Evolution | `src/mission/evolutionBandit.ts`, `selfImprove.ts` and others | arms, scores | score, promote | floating point; what a seat's candidates do is in the Mission Loop |
| Receipts and proofs | `src/mission/receiptVault.ts`, `src/vouch/engine/proof.ts`, `signing.ts` | hash chains over canonical JSON, signatures | build, verify | a change of any entry is detected |
| Graph editor | `src/graph/store.ts`, `validation.ts`, `lint.ts`, `src/App.tsx`, `src/panels/CheckpointsPanel.tsx` | graph, undo and redo stacks, dirty flag, autosave timer, the page's list of workflows and its tabs | edit, wire, undo, redo, checkpoint, restore, save, open, create, check | what is edited comes to be in the database, under the name of its own workflow; the history keeps to its cap; all checks of a graph agree, and what they pass can be run |
| Native shell | `src-tauri/src/*.rs` | SQLite with the stored graphs and the run queue, processes, keychain | Tauri commands; the control server's connect, disconnect, run | a stored graph in order stays so; no run is queued that cannot be put in order |
| Analyses, agent harnesses, drill, pages, domain tables, probes, vendored code | rest of `src/`, `probe/`, `tools/`, `verify/`, `vendor/` | none, or I/O | | |

How they interact. A **chat run** (`sendVouchMessage`) and an **MCP call**
(`runVouchToolCall`) are two faces of the same tools: each looks a tool's tier
up in `RISKY_TOOLS`, asks the **human gate** for a risky one, executes it
(possibly a **mission**, which is the Mission Loop over the team executor) and
mints a receipt. The **meta-loop** changes `RISKY_TOOLS` while both are under
way, and goes through the same gate. The cards of the gate are answered on the
Vouch page, over MCP, or both. **Workflows** and the **mission runtime** have
approvals of their own. An agent that calls the **control server** changes the
same stored graphs as the **graph editor**, and neither sees the other until the
application is opened again. A **cycle** of the Mission Loop runs a crew through
the **team executor** and folds the outcome into what is known of its seats.
The session is written by `commit()` at once, so a restart finds what was last
written and none of the promises.

What is hard to test here is: two runs at once with one module variable
(`runToken`, `lastMission`), cards answered twice or after a restart, a tier
that moves between look-up and use, a Stop while a receipt is hashed or a
simulation sleeps, a thread left while its run writes, a cancellation racing an
approval, a workflow paused and cancelled, seats that are admitted under the
same remaining budget, a git command that fails halfway through a snapshot, a
merge of what nobody read, two loops over one mission's tasks, a wait that
times out against an answer, two cycles that fold into one seat, and versions
of a capability promoted, imported and rolled back in any order, saves that are
answered when another graph is on screen, and a graph whose rules are written
four times. `hazards` in `PROJECT.json` lists 40 of them with their lines and
the properties meant for them.

## 2. Modules

| module | models | is |
|---|---|---|
| `HumanGate` | `requestVouchApproval`, `resolveVouchApproval` | a component, instantiated by the three below |
| `RiskTiers` | `RISKY_TOOLS`, and how a tool moves between the tiers | extended by `ChatRuns` and `McpCalls` |
| `Governed` | what the control plane promises of one governed action | abstract specification |
| `ChatRuns` | `sendVouchMessage`, `stopVouch`, skills, tiers, restarts | implements `Governed` |
| `McpCalls` | `tools/call`, gate tools, MRTR, tasks, `runVouchToolCall` | implements `Governed` |
| `MetaLoop` | `proposeChange`, `revertChange`, `applyChange`, the ledger | |
| `Workflow` | `runWorkflow`, `topoSort`, `controlExecution`, approvals | |
| `TeamRun` | `executeTeam`, `runSeat`, `buildReviewSnapshot`, `CapLedger`, the verify gate, `planMerge`, `executeMergePlan` | |
| `Threads` | `updateActive`, `setActiveVouchThread`, `newVouchThread`, the page's lock, the writes of a run | beside `ChatRuns`: the conversations instead of the actions |
| `MissionRuntime` | `run`, `executeTask`, `repair`, `reorganize`, `finish`, `ApprovalGateService`, checkpoints, the Mission page | |
| `MissionLoop` | `runMissionLoopCycle`, `evolveTeamAfterRun`, ratings, candidates, batches | |
| `Genome` | `promote`, `governorReopen`, `monitor`, `rollbackActive`, `deriveChild`, `importPackage` | |
| `Editor` | `withHistory`, `undo`, `redo`, `save`, `scheduleAutosave`, `loadWorkflow`, `openWorkflow`, `createWorkflow`, the bootstrap | |
| `NodeOrder` | the nodes of a graph as a list | extended by `Workflow` and `GraphChecks` |
| `GraphChecks` | `canConnect`, `validateWorkflow`, `findCycle`, `topoSort`, `lintGraph`, `validate_graph`, `portsCompatible` | rules without state |
| `Wiring` | `connect`, `disconnect`, `deleteNodes`, undo, redo and saves on screen; `connect_ports`, `disconnect_ports`, `run_workflow` on the stored graph | over `GraphChecks`; beside `Editor`: the wires instead of the timers |
| `MC*` | constants of the eleven for TLC | |
| `ChatRuns_proofs` | theorems about `ChatRuns` and `McpCalls` | |
| `MissionRuntime_proofs` | theorems about `MissionRuntime` and `MissionLoop` | |
| `Workflow_proofs` | theorems about `Workflow`, `Wiring` and the rules of `GraphChecks` | |
| `MetaLoop_proofs`, `TeamRun_proofs`, `Threads_proofs`, `Genome_proofs`, `Editor_proofs` | theorems about the module of that name | |

Three of the proof modules extend two components each, so the second of each
pair has names of its own where the two would meet: `Calls...` in `McpCalls`,
`Crew...` in `MissionLoop`, `Draw...` in `Wiring` (`CallsSpec`, `CrewTypeOK`,
`DrawNext`). The rest have the plain `Spec`, `TypeOK` and `Next`.

### HumanGate

`status` is the record of a card, `waiting` the keys of `approvalWaiters`,
`answer` what the promise settled with. `Resolve` overwrites the record whether
or not anybody waits, as the code does; that a late or second answer has no
other effect is what the properties of the users show.

### ChatRuns

`run[r].pc` names the suspension a run is in.

| `pc` | suspended in | left by |
|---|---|---|
| `ready` | the sleep before the next action, or the decision | `Abort`, `BeginAction`, `BeginStream` |
| `simulate` | the simulation's sleep | `RequestGate` |
| `gate` | the promise of the card | `DecideWaiting` |
| `act` | the tool or the mission | `FinishAct` |
| `stream` | typing the answer | `Abort`, `TypeLastChunk` |
| `typed` | the sleep after the last chunk | `BeginMint` |
| `mint` | hashing the receipt | `Mint` |

The token is compared where the code compares it, and nowhere else: not before
the card is asked for, and not after the last chunk. `resolve()` and the
continuation behind it run in one turn of the event loop, so `DecideWaiting` is
one action. A failed replay of a skill makes a fresh plan and resets the loop
index (`ai = -1`); `Index` is that index. Plans are lists of tool names; what
a brain writes and what a tool computes is left out, and whether a tool
succeeds is a free choice. The page locks its input while a message streams,
`sendVouchMessage` does not, and switching thread lifts the lock (`Threads` has
that): runs overlap freely here.

### McpCalls

The stdio loop handles one message at a time and awaits it (`server`). A call
that needs no gate holds it until its receipt is there; a gated one hands back
the approval id and goes on in the background. `Decide` is whatever of
approve/deny, MRTR retry or `tasks/update` comes; `Cancel` reads the track the
way `tasks/cancel` does. `blockOnGate` has no caller and is left out. The
server's state is in memory only, so there is no restart action.

### MetaLoop

`change[c]` is an entry of the ledger, in the order they were made; `Logged`
says which of them the capped ledger still holds. `Decide` applies the change
in the turn of the answer; `FinishMint` is the hashing behind it, after which
an approved revert marks its original. `risky` returns to `BuiltinRisky` at a
restart, the ledger and the preferences do not. Preferences the user types are
left out (a revert of the same text would take them too; `hazards`).

### Workflow

`Begin` sorts the graph with `topoSort`, written as a recursive function over
the rounds of the queue. `pc` is what `runWorkflow` awaits: the pause at the
head of its loop (`held`), a node (`acting`), a decision (`polling`), the typing
of an agent's text (`streaming`). The look at the cancel flag, the pause, and
the start of a node are one step unless the run is held, since nothing is
awaited between them. `skip` is the code's set of the same name, added to by a
branch and taken from by a visit. Payloads, tokens and dead letters are left
out, and so is the evolution gate of an agent.

### TeamRun

`pc` is what `executeTeam` is at (`setup`, between two waves `next`, in one
`wave`, `reported`), then the merge (`merging`, `over`); `at[s]` what seat `s`
of the open wave is at: before the ledger (`ask`), in its CLI (`cli`), in the
check, the diff and the commit (`check`). Seats of a wave interleave freely.
A branch is named by the seat that writes it, and a review snapshot by the
branches merged into it, so that `sees[s]` says whose work a seat was shown.
`Prepare` is the creation of the writers' worktrees and the look-up of the
binaries; `OpenWave`, `NothingToReview`, `SnapshotFails` and `SnapshotBuilt`
are the four ways a wave opens. Whether a git command succeeds is a free
choice wherever the code looks at the answer; `git checkout` of the base after
the snapshot, at which it does not look, is taken to succeed.

The reservation of budget shares is not a variable: a wave opens only while
something is left, so it refuses nobody. Each record carries the charge of its
turn, so the sum `executeTeam` compares with the budget is `spent`. The wall
clock of the ledger is a refusal at any moment. A seat has one turn, since no
caller sets `followUp`. The name of a seat does not begin with "review": such a
branch is taken for the snapshot's (a finding). `mergeOrder` puts branches of
one role in the order of their sizes; here they may come in any order.

### Threads

`threads[t].messages` and `messages` are the two copies the session keeps: a
thread's conversation and what the page shows. `UpdateActive` is the function
of that name, which rewrites the thread its run was sent in and then shows it;
`PatchMsg` is its guarded form. `run[r].pc` has one value for all sleeps between
which the token is looked at (`asleep`), and one for each place where it is
not: `simulate`, `gate` and `mint`. `card` says whether the page has the buttons
of the run's request: their id is written by `patchMsg`, so a run that was
stopped while it simulated has a card nobody sees (`hidden`). A message is how
much it says and whether it streams. `Busy` is the page's lock, taken from what
is shown.

### MissionRuntime

`loop[l]` is one press of the Run button, since several `run()`s may be under
way. A loop gives way where it awaits: at the head of its turn (`turn`), at the
approval (`gate`), at the harness (`work`), for open requests (`drain`). The
other values of `pc` are the phases between two such points; `Quiet` keeps every
other step out while a loop is in one of them, so that an action stays the size
of one decision of the code and interleavings are those of the event loop.
`Transition` is `transition()` with its table: an illegal one is an exception,
which ends the run that asked (`dead`). What a task depends on is looked at when
its wave is formed (`DispatchableWave`), when its turn comes (`ExecuteTask`), when
it is handed to an agent behind the human's answer, where the exception of
`delegate()` ends the run (`Approved`), and after a repair (`RepairWorks`).
`Repairs`, `LastRepair`, `RepairThrows`
and `NoOtherHarness` are `repairInner` rung by rung, up to the three that
`maxRetriesPerTask` lets it reach; `repairing` is `repairInFlight`. `TimeOut` is
the timeout of one of the waits for a request, which settles it as refused for
everyone. Roll back is `restoreCheckpoint`; `Restart` is a save, the end of the
application, and the page's restore, which has tasks, requests and checkpoints
but no plan.

Of the supervisor, REPEATED_FAILURE and STALL are there, the two whose
recommendations touch what the module keeps; what `evaluate()` finds is a free
choice (`shortfall`); under the default policy every task has another harness.

### MissionLoop

`cycle[c]` is a call of `runMissionLoopCycle`: `executing` in the executor,
`sealing` while its receipt is hashed, then what the ledger says of it.
`StartCycle`, `Adapt` and the three ends are what runs between these. `seat` is
the evolution store's entry of the crew's one seat and `Folded` what
`evolveTeamAfterRun` makes of it; the counters stop where the code's thresholds
no longer ask. A piece of evidence says which cycle it is of; a human's rating
is of none (0).
`Again` is a later cycle of the page's batch, which runs with the crew the page
had. Instructions are the sequence of accepted corrections.

### Genome

`genomes[c][v]` is the registry. Operations are synchronous and find the
version they move themselves, as the newest live one; an action is one call, in
any order. The five gates are operators; `climbed` is the part of a genome's
history that the properties ask for, and `granted` a history variable. A package
brings its lineage and its evidence as they are: nothing is assumed of the
parent it names. `rollback`
by hand and `monitor` with a regression make the same step (`RollbackActive`).
`Body` keeps of a declaration what a gate reads.

### Editor

A graph is named by its workflow and by the edit that made it. `saves` are the
calls of `save()` that wait for the database, in the order they were made: the
native commands are synchronous, so they are answered in that order. Each has
the graph it took, and what its caller does behind it (`then`): nothing, load
the workflow of a tab (`ClickTab`, with the copy in the page's list), or create
one (`Create`, `LoadCreated`). `Saved` and `SaveFails` are the answer and what
follows in the same turn. `saveTimer` says that an autosave is scheduled; no
load cancels it. `WithHistory` stands for all the edits that make an entry of
the history, `EditLive` for those that make none. `touched` and `failed` are
history variables. Restarting brings any of the workflows on screen where the
code takes the one saved last. The autosave is taken to be on.

### GraphChecks and Wiring

A graph is a set of nodes and a bag of wires, because the same two ports can be
wired twice (`topoSort` counts both), and says which nodes lack a time limit
that is one (`untimed`: no contract, or a number that is not positive). What
else a node is - its ports, their types,
whether an input is required or takes many wires - belongs to the node and does
not change. `GraphChecks` has the rules as the code has them, each where it is
written, with the walk it uses, as steps of a record from which a recursive
function takes as many as the walk can need. `WalkOn` is a step of the
depth-first walk of `findCycle` and of the control server (which differ in the
wires they follow): from the last node on the way (`way`, the nodes in state 1)
to one that is not done, or back. `TakeOff` is a round of the counting of
`topoSort` and of the preflight panel (which differ in the wires they count):
`Reduce` counts `Each` wire of the list, two between the same ports twice.
`LookOn` is a turn of the search of `canConnect`, `Follow` all of them. `Errors`
and `LintErrors` are the kinds of error found, without wording and warnings.

`Wiring` is one workflow: `screen` with `past` and `future` in the editor, `saving`
what is on its way, `stored` what the database has. The editor's actions check
and change `screen` (`SetTimeout` is the inspector's field, which takes any
number); the control server's read and write `stored`. `Saved`
overwrites what an agent did meanwhile, and `Reopen` brings it on screen. A call
that is refused changes nothing and is no step. The workflow may have come out
of a file (`package_import` looks at no wire), so any graph of `Imported` may be
the first one; `shaped` remembers whether it was in order. `queue` counts the
requests of `run_workflow`, which nobody takes.

## 3. Runs

| run | shows | states | deadlock check |
|---|---|---|---|
| `chat_runs` | types, `ConsentBeforeEffect`, `FinalMeansVouched`, `StaleRunNeverActs`, `RunsEnd`, and `KeepsPromise`: each run implements `Governed` | 320 552 | on |
| `mcp_calls` | `CancelledAtGateNeverActs`, `CallsEnd`, and `CallsKeepPromise` | 103 510 | on |
| `meta_loop` | `FloorStays`, `EveryEditExplained` | 94 409 | off: when the bound on entries is used up and nothing stands, nothing is left to do |
| `workflow` | `PassedMeansApproved`, `RecordTellsTruth`, `AtMostOneAfterCancel`, `RunEnds` | 284 352 | on |
| `team_run` | `ReviewersSeeAllWork`, `SpendBounded`, `MergedWasReviewed`, `RunEnds` | 105 869 | on |
| `threads` | `NothingShownIsOutdated`, `StaleRunsOnlyClose`, `MessagesClose` | 298 615 | off: a user may stop sending |
| `mission_runtime` | `ApprovedBeforeRun`, `CompletedStands`, `OneRepairPerTask`, `AskedIsSettled`, `RunsEnd` | 302 214 | off: a mission that was completed stays |
| `mission_loop` | `LedgerIsStraight`, `EvidenceSpentOnce`, `PraiseHolds` | 759 006 | off: nobody has to ask for another cycle |
| `genome` | `ActiveEarnedItHere`, `FollowsTheTable` | 230 230 | off: a registry of terminal versions has no step |
| `editor` | types, `EditsAreOnTheWay`, `EditsReachTheDisk` | 320 800 | on |
| `wiring` | `RunnableIsOrdered`, `LintAgrees`, `ConnectIsExact`, `StaysShaped`, `QueuedCanBeOrdered` | 205 750 | on |
| `rejected_merge` | a finding of section 6 | | |

The modules define more properties than the runs check. Some are proved
(`ParkedRunsHaveCards`, `StatusIsTheAnswer`, `RevertsHaveEntries`,
`StartsInItsOwnTree`, `RunsOnFinishedWork`, `NoBypass`, `ParkedCallsHaveCards`,
`LoopNeverAwaitsTheGate`, `SourcesFirst`, `OrderKept`, `StartsInOrder`: section
5), some are what a comment says and the code does not keep (section 6), and
some are weaker than, or close to, one that is checked (`SkillsFromCleanRuns`, `ChangesSettle`). Of the
modules' `TypeOK` the runs check those of `ChatRuns` and `Editor`, which bound
more than types; all are proved. All but those of section 6 hold on the same
instances; adding one to a configuration checks it.

Every property has a mutant: a plausible bug in a mapped definition that makes
TLC find the property violated under the same configuration.

Bounds, and why they are enough:

* `chat_runs`: two runs (`NumRuns`), which is what `runToken` and `lastMission`
  need to be wrong - one run that holds the variable and one that does not.
  Plans `<<search, write>>` (a safe action, then a risky one) and
  `<<dispatch>>`, or the one-step plan of a learned skill; with a fallback that
  is up to three results. `MaxToken = 2` sends and stops in one process life,
  so that a Stop and a second Send are both reached, `MaxRestarts = 1`. One
  card can be answered again after it was settled (`Reanswered`): more cards
  answered again multiply states, and each only rewrites a record.
* `mcp_calls`: two calls, one that can be behind the loop and one that holds
  it; one tool of the floor and one that is re-tiered.
* `meta_loop`: three entries are a tightening and two reverts of it, or a
  tightening, its revert and a second tightening; `Cap = 2` makes the ledger
  drop an entry while its revert is open. The code's cap is 50. The same
  properties were also checked with four entries and no restart (721 125
  states).
* `workflow`: four nodes, all 128 sets of wires out of seven (two of which
  close cycles), three assignments of kinds. Two looks for a decision stand
  for the code's 600: one with time left, one that is the last.
* `team_run`: nine requests, each for a case of its own: two writers of which
  one may fail or be merged without the other; a reviewer of the writer's
  vendor; a planner, which is a wave that is skipped; a writer in the first
  wave; a team without writers; a tester that writes; one seat at a time with
  two readers of one snapshot, and with a writer behind the reviewer; a capped
  budget under the advisory policy. Three seats are what a wave with a sibling
  and a wave behind it need. A turn costs 0 or 1, the ledger's ceiling and the
  budget are 2: the ceiling is reached by the seats of one wave or of two.

* `threads`: with three threads a run's own, the active one and the one shown
  can be three different ones; with two runs there is one that holds the token
  and one that does not. `MaxToken = 4` are two sends and two stops;
  `MaxSaid = 2` tells a message that grew from one that did not, twice.
* `mission_runtime`: one gated task and one behind it, which is also the task a
  reorganization adds; two loops; retries as every template has them (three
  repairs, with the fourth refused); two turns of the loop, one in which a task
  fails or is refused and one that finds it so, stand for the code's 200.
  Checkpoints that no rollback within the bound can reach are forgotten, and so
  are equal ones in a row.
  In this plan no second task of a wave can be overtaken, and no task behind
  another needs a human: that `ExecuteTask` postpones a task and that `Approved`
  ends the run are not reached. These, `OrderKept` and `StartsInOrder` were
  checked with three tasks, two of which wait for the first, `Gated = {1, 3}`,
  one repair, one rollback and no reorganization (1 762 779 states). There
  `StartsInOrder` is violated when nobody looks at the dependencies behind the
  answer, and `OrderKept` when finished tasks are rolled back, too. The theorems
  about both hold for every plan.
* `mission_loop`: three cycles, two of them at once: two that overlap and one
  before or behind them. The thresholds (`MinRuns = 2`, `MinRealRuns = 1`,
  `MinWeight = 3`, `PraiseRuns = 1`, `EvidenceCap = 3`) are not larger than
  the code's (3, 2, 3, 3, 8), so that each is reached, passed and reached again.
* `genome`: two capabilities, of which one leans on the other, and three
  versions: a parent, its child, and an import that has to move on. Packages
  bring foreign evidence and a lineage of their own: none, or a number that may
  be free here, taken by something else, or the one the package is filed under.

* `editor`: two workflows, one of them created on the way, so that a save can be
  answered over another workflow; two edits, two moves and two saves under way
  at once: one save in front of the other, an edit or an undo between them.
  `HistoryCap = 2` (the code's is 100) is reached by an edit and a checkpoint
  or a move.
* `wiring`: three nodes, which is what loops of one, two and three need; eleven
  wires: between the plain ports of any two, two into a port that takes many,
  and three that nobody could draw (a node to itself, ports that are not
  there). The workflow begins with no wire, any one, any two of which one is a
  given one, a loop of three, wires without their node, or a node without a
  time limit: every rule has a graph that breaks it, and most pairs of rules have one that breaks both. One
  edit with its undo and redo and two calls are the least in which user and
  agent change the graph apart and then together: a call, a save, a reopen, the
  other call. The types are three of the code's nineteen, among which flowing is
  not symmetric.

## 4. Fairness

* `ChatRuns`: weak fairness of what a run does by itself - timers fire, tools
  and missions come back (they are local computations, a web search with a
  timeout of six seconds, a mission under its caps), hashing ends. Nobody has
  to press Stop, send, restart or answer: the gate has no timeout, so `RunsEnd`
  excludes a run whose card is open and one that a restart has lost.
* `McpCalls`: the calls and the loop; the human's answer to a card that is
  waited for is an assumption on the user. `MetaLoop`: hashing and answers.
* `Threads`: weak fairness of a run's steps. `MessagesClose` also needs a human
  who looks for the thread of a card with buttons, and who presses one that is
  shown again and again however often the page turns away (strong fairness of
  `Answer`: weak fairness would be defeated by switching threads in time).
* `MissionRuntime`: weak fairness of each loop: a harness has a deadline, a
  request its timeout, the turns of a loop are counted. Nothing of the user is
  fair; `RunsEnd` excludes a run that is left paused.
* `MissionLoop`, `Genome`, `Wiring`: safety only, so none. Whether a cycle ends is
  `TeamRun`'s `RunEnds`, nothing in the registry has to happen, and that edits
  reach the database is `Editor`'s `EditsReachTheDisk`.
* `Editor`: weak fairness of the timer (a user who edits without a pause of 1.2
  seconds puts it off, so one is assumed now and then) and of the database's
  answer, which may be a failure.
* `Workflow`: weak fairness of the loop only. The looks for a decision are
  counted in the code, so no human is needed. `RunEnds` excludes only a run
  that is left paused and never cancelled.
* `TeamRun`: weak fairness of the run itself (`Execute`): every CLI call races
  its deadline (`withDeadline`), the native calls for git and checks have
  timeouts. `Decide` and the merge are the human's, and nothing is fair about
  them; `RunEnds` is about the report.

## 5. Proofs

The eight proof modules prove, for every number of runs, calls, changes, cycles,
threads, capabilities, versions, workflows and edits, every set of tools, every
bound on plans, answers and restarts, every graph of a workflow and every type
of its ports, every plan of a mission, every set of teams, and any prices and
thresholds:

| theorem | statement |
|---|---|
| `ChatRuns_proofs!TypeCorrect` | `Spec => []TypeOK` |
| `ChatRuns_proofs!ParkedCorrect` | `Spec => []ParkedRunsHaveCards` |
| `ChatRuns_proofs!ConsentCorrect` | `Spec => []ConsentBeforeEffect` |
| `ChatRuns_proofs!StaleRunsCorrect` | `Spec => StaleRunNeverActs` |
| `ChatRuns_proofs!FinalCorrect` | `Spec => []FinalMeansVouched` |
| `ChatRuns_proofs!PromiseKept` | `Spec => KeepsPromise` (`Governed!Spec` under the mapping) |
| `ChatRuns_proofs!CancelCorrect` | `CallsSpec => []CancelledAtGateNeverActs` |
| `ChatRuns_proofs!ParkedCallsCorrect` | `CallsSpec => []ParkedCallsHaveCards` |
| `ChatRuns_proofs!NoBypassCorrect` | `CallsSpec => []NoBypass` |
| `ChatRuns_proofs!LoopCorrect` | `CallsSpec => []LoopNeverAwaitsTheGate` |
| `ChatRuns_proofs!CallsPromiseKept` | `CallsSpec => CallsKeepPromise` (the same, of a call) |
| `MetaLoop_proofs!TypeCorrect` | `Spec => []TypeOK` |
| `MetaLoop_proofs!FloorCorrect` | `Spec => []FloorStays` |
| `MetaLoop_proofs!AnswerCorrect` | `Spec => []StatusIsTheAnswer` |
| `MetaLoop_proofs!EditsCorrect` | `Spec => []EveryEditExplained` |
| `MetaLoop_proofs!RevertsCorrect` | `Spec => []RevertsHaveEntries` |
| `Workflow_proofs!AcceptsAcyclic` | a graph no walk of which comes back to its start is put in order by `topoSort` |
| `Workflow_proofs!TypeCorrect` | `Spec => []TypeOK` |
| `Workflow_proofs!OrderCorrect` | `Spec => []SourcesFirst` |
| `Workflow_proofs!ApprovalCorrect` | `Spec => []PassedMeansApproved` |
| `Workflow_proofs!RecordCorrect` | `Spec => []RecordTellsTruth` |
| `Workflow_proofs!CancelCorrect` | `Spec => []AtMostOneAfterCancel` |
| `Workflow_proofs!DrawTypeCorrect` | `DrawSpec => []DrawTypeOK` |
| `Workflow_proofs!StaysShapedCorrect` | `DrawSpec => []StaysShaped` |
| `Workflow_proofs!RunnableCorrect` | `DrawSpec => []RunnableIsOrdered` |
| `Workflow_proofs!LintCorrect` | `DrawSpec => []LintAgrees` |
| `Workflow_proofs!ConnectCorrect` | `DrawSpec => []ConnectIsExact` |
| `Workflow_proofs!QueuedCorrect` | `DrawSpec => QueuedCanBeOrdered` |
| `Workflow_proofs!CheckedIsAccepted` | a graph of all the nodes that the check before a run has no error on is put in order by the scheduler's `topoSort`; the two models of `topoSort` refuse the same |
| `MissionRuntime_proofs!TypeCorrect` | `Spec => []TypeOK` |
| `MissionRuntime_proofs!ApprovedCorrect` | `Spec => []ApprovedBeforeRun` |
| `MissionRuntime_proofs!AskedCorrect` | `Spec => []AskedIsSettled` |
| `MissionRuntime_proofs!RepairCorrect` | `Spec => []OneRepairPerTask` |
| `MissionRuntime_proofs!CompletedCorrect` | `Spec => []CompletedStands` |
| `MissionRuntime_proofs!StartsCorrect` | `Spec => StartsInOrder` |
| `MissionRuntime_proofs!OrderCorrect` | `Spec => []OrderKept` |
| `MissionRuntime_proofs!CrewTypeCorrect` | `CrewSpec => []CrewTypeOK` |
| `MissionRuntime_proofs!LedgerCorrect` | `CrewSpec => []LedgerIsStraight` |
| `MissionRuntime_proofs!EvidenceCorrect` | `CrewSpec => []EvidenceSpentOnce` |
| `MissionRuntime_proofs!PraiseCorrect` | `CrewSpec => PraiseHolds` |
| `TeamRun_proofs!TypeCorrect` | `Spec => []TypeOK` |
| `TeamRun_proofs!StartsCorrect` | `Spec => StartsInItsOwnTree` |
| `TeamRun_proofs!RunsCorrect` | `Spec => []RunsOnFinishedWork` |
| `TeamRun_proofs!ReviewersCorrect` | `Spec => []ReviewersSeeAllWork` |
| `TeamRun_proofs!SpendCorrect` | `Spec => []SpendBounded` |
| `TeamRun_proofs!MergedCorrect` | `Spec => []MergedWasReviewed` |
| `Threads_proofs!TypeCorrect` | `Spec => []TypeOK` |
| `Threads_proofs!ShownCorrect` | `Spec => []NothingShownIsOutdated` |
| `Threads_proofs!StaleCorrect` | `Spec => StaleRunsOnlyClose` |
| `Genome_proofs!TypeCorrect` | `Spec => []TypeOK` |
| `Genome_proofs!ClimbsCorrect` | `Spec => []Climbs`: the gates a version passed here fit its status |
| `Genome_proofs!ActiveCorrect` | `Spec => []ActiveEarnedItHere` |
| `Genome_proofs!TableCorrect` | `Spec => FollowsTheTable` |
| `Editor_proofs!TypeCorrect` | `Spec => []TypeOK` |
| `Editor_proofs!EditsCorrect` | `Spec => []EditsAreOnTheWay` |

Assumptions are the named `ASSUME`s of the modules and no others; no theorem
about a component has a hypothesis besides its specification. They say: the
bounds and the number of a graph's nodes are naturals, the built-in risky tools
are tools (in `ChatRuns`, dispatching a mission is one of them), a name
`runVouchToolCall` does not know is no tool, plans are lists of tools no
longer than `MaxPlan`, tools and preference texts are different things, the cap
is not 0; a request has a team of at least one seat and a policy, the ledger's
ceiling is not 0 and what a turn costs is a natural number; there is at least
one thread and one version, what is permitted are classes, nothing is observed
as derived; there is at least one workflow, and a history has room for one entry; a workflow's wires join its
nodes, and what is imported is a finite graph over the wires there can be; a
mission's tasks depend on tasks, the presses of Run are finitely many, and a
task is retried once to three times, as every template has it.

*ChatRuns.* `TypeOK` is not inductive: that a card's name is in its type, and
that the next action exists, needs that a run's index is within its plan while
an action is under way. `LoopInv` says so, and that a replayed skill is a plan
of one action which has not fallen back yet (so that the index after a fallback
starts again at 0). `TInv == TypeOK /\ LoopInv` is inductive (`StepTInv`). The
gate properties need to know which cards exist: `CardInv` says that a card
exists only for steps a run has asked for, that a run acting without one does
nothing of a tool that is risky by definition, and that no tier moves those.
`GateInv`, which adds it to `ParkedRunsHaveCards` and `ConsentBeforeEffect`, is
inductive given `TInv`; most actions leave all of it alone (`QuietSteps`), and
the others have a lemma each. `StaleRunNeverActs` follows from the guards of the
two actions that start an effect, given that no other step enters `act`.

`ReceiptInv` accounts for each run's record: what is recorded since the plan at
hand was made are its actions, in its order (`Follows`), and all of them once
the answer is typed (`Complete`); only a run that is over has a receipt, and a
final message has one. `FinalMeansVouched` reads the last two together. With
`TInv` and `GateInv` it carries the refinement too: every step is one of a job's
(`JobPhase` of one card moves as `Governed` lets it), one that drops or vouches
for a run's finished jobs, or a stutter.

*McpCalls.* `McpInv` says of each call how far its fields go together (`Fits`:
parked exactly when its card is waited for, simulated exactly when the card was
written, and acted after that exactly when the answer was yes) and that a task
belongs to a call that was asked about (`TaskFits`: one cancelled at the gate
was refused). `TierInv` adds that the built-in risky tools stay risky and are
never called without the gate. With these the four invariants and the refinement
of `Governed` follow; a call is one job, so each step is one of its job's or a
stutter.

*MetaLoop.* `MetaInv` adds `Entries` to the properties: a parked change is
undecided, no change that is or may yet be applied is about a tool of the
floor, and a revert names a change that was applied, is no revert and has the
same target. Without the second conjunct an approved revert could lower the
floor; it holds because a tool of the floor is always risky, and so never
proposed. `Explained` then counts: the number of times a text stands is at most
the number of live changes for it, where approving a revert removes at most one
live change (and at least one standing text, if there is one). Two reverts of
the same change, both approved, are the case that makes it interesting: the
first takes the change out, the second finds nothing to take out.

*Workflow.* That every node comes after what feeds it is what `topoSort`
computes, so its rounds are gone through by induction. The library's induction
theorems take an operator as a parameter, which the provers cannot instantiate,
but its fact that the naturals are well-founded can: the smallest number missing
from a set that has 0 and is closed under successor gives `UpTo`, and with it
the recursive function is shown to exist and to obey its definition
(`Recursion`). `RoundSorts` is the invariant of the rounds: the order so far has
its nodes once, what feeds them before them, and what is queued is what has
nothing left to wait for. `AcceptsAcyclic` is the consequence: a graph is
refused exactly when some nodes of it feed each other round. In the walk
`OrderInv` says the order is that one, `WalkInv` that what is behind has ended
and what is ahead has not begun, `CountInv` that failures are nodes behind, and
`late` at most one (a node started after a cancel had been let go from a pause);
`GateInv` that only an agent streams. None of them is inductive without
`WalkInv`: the node under way must not be one that was visited before.

*Wiring.* Each walk has an invariant and a measure. For the depth-first walk
(`Walked`, `Paced`): what is on the way is a path, what is done leads only to
what is done and has no nodes that lead to each other round, and the nodes on
the way with twice the nodes done are as many as the steps taken; so it is over
after two steps for each node, and has found a loop exactly if some of the nodes
lead to each other round (`WalkFound`, with `Looped`). For the search (`Found`):
what it has seen is in every set that wires do not leave, and what was taken off
the stack has had its successors seen (`Searched`). For the counting (`Counted`):
`RoundSorts` again, with a list of wires in place of a set, and `left` the number
of wires that were not taken off (`Reduced`); what is left over is fed by what is
left over, so all are in order exactly if nothing is (`Ordered`). `LintLoops`,
`CheckLoops` and `ServerLoops` then say of the three checks that they find a loop
in the same graphs, as far as the wires they follow are the same, and `OneLoop`
that the wire `canConnect` refuses would have closed one. The invariant of the
module is small (`DrawInv`): every graph that is held is a graph, and in order
if the first was; the steps that matter are adding a wire, which must close no
loop and meet no open port (`AddedWire`), and removing some (`RemovedWire`,
`WithoutSome`). `LintCorrect` and `ConnectCorrect` compare two lists of errors,
kind by kind (`ErrorsAre`). `CheckedIsAccepted` joins the two halves of the
module: `AcceptsAcyclic` says which sets of connections the scheduler's
`topoSort` refuses, `CheckLoops` which lists of wires the editor's does, and
both are those where some nodes feed each other round. So nothing the check
before a run lets through is refused when the run begins (`Workflow` numbers the
nodes of a graph from 1, so the theorem is about graphs of all `Nodes`).

*MissionRuntime.* Many steps are alike: they move one loop and leave requests
and tasks. `Sane` says what such a step makes of its loop, `StepMoves` that all
steps of a loop but a timeout are of this kind, and `LoopInv` (a loop that works
has a task, a repair is under way at one loop per task, a live loop has a plan)
follows of the kind. `AskInv` is an exact ledger: a loop at the gate has a
request for its job, a mission that was not restored has no other, and the
approvals of a task that are not spent number as many as its requests that read
APPROVED. Anything less than equality is not inductive: an answer adds one on
each side, the start of the task takes one from each. `StatusInv` says that
where runs do not overlap at most one loop lives, and that nothing lives in a
completed mission. `StartsInOrder` holds in every step by what `delegate()`
looks at last, and `Sane` carries it. `OrderKept` is about states, and needs
more (`OrderInv`): that what a checkpoint has as running or done is ahead of
nothing either, or a rollback would bring back half a plan; and that what a loop
is about to work on or to repair is not done (`Serves`), or a late failure would
take from under others what they were built on. A loop with a recommendation
left is at its head or at a repair that it was recommended, which is why tasks
it was told of are still not done when their turn comes.

*MissionLoop.* `Straight` says what the ledger looks like as long as cycles do
not overlap: one under way, with the number the next one would get, and smaller
ones recorded. Evidence is followed through `EvidenceMoves`: when a cycle is
folded, every list of evidence stays, is forgotten, or is the store's, cut at
its old end and with what this cycle showed, now in one place. `NotYet` (a cycle
that was not folded has left nothing) makes that addition the first of its kind.
`PraiseHolds` rests on `Armed`: the folds left in suppression and the folds
since the praise are together more than the number of folds it is for. The type
invariant `CrewTypeOK` needs none of these: every action keeps it by itself. The
step behind `AdaptTyped` is the one with something in it: what a fold leaves is
of its type and within the cap (`FoldedTyped`), whatever ratings were queued.

*TeamRun.* `TInv` adds two facts to `TypeOK`: a seat that is running is one of
the open wave, and a seat of a later wave has done nothing (`Waiting`); what is
committed is what was left by completed writers of closed waves, all of it
(`Commits`). On it rest: `Finished`, that until a wave fails each closed wave
has a seat that completed, for `RunsOnFinishedWork`; `Trees`, that a seat which
is about to start has its own worktree or a failed set-up, and a reader of a
team with writers looks at all that is committed, for `StartsInItsOwnTree`;
`Reviews`, that in a team that is not serial readers run in the third wave, for
`ReviewersSeeAllWork` - nobody writes there, so its closing commits nothing.
`Permitted`: what is merged passed the gate, or the policy or a human let it
through; with `Reviews` it gives `MergedWasReviewed`. `Accounted` is for
`SpendBounded`: what is spent, with each turn under way counted at the dearest
price, stays under the ceiling plus one wave of such turns; a turn that is
charged moves from the second sum to the first.

*Threads.* `TInv` adds to the type invariant and `NothingShownIsOutdated`:
`Homes`, that a run's thread was opened and an unopened thread is empty, and
`Writing`, that the message of a run under way streams. All steps of a run are
one kind of step, `Writes`: it rewrites its message, under the token or to close
it, or leaves it (`RunWrites`); the invariant and `StaleRunsOnlyClose` are shown
of that kind and of the user's steps. `Writing` is why closing is all that a
stale run can do: the message it closes is its own, and streams.

*Genome.* Every operation either registers a version or moves one along the
table (`Registers`, `Moves`). `GInv` adds `Climbs` to the properties: how many
gates a version can have passed in each status (`ClimbsCorrect`). `TypeCorrect`
is about the shape of the registry only. `ActiveEarnedItHere` speaks of
the gates as they stand now, not when they were passed, so it needs that the
registry only grows.

*Editor.* `EditsAreOnTheWay` is not inductive: a graph that is in the database
may have an older save of its workflow behind it, whose answer would take it
back. `Carried` says that unless an autosave is scheduled or a save failed,
either the database has the graph on screen and no save of that workflow is
under way, or the last of them carries it. Each step either loads (nothing is
touched then), schedules, asks for a save of what is on screen (`AskSteps`), or
takes the first save away (`SavedSteps`), where the place of the carrying one
moves down by one.

Only model-checked: liveness (`RunsEnd` of `ChatRuns` and of `MissionRuntime`,
`CallsEnd`, `RunEnds` of `Workflow` and of `TeamRun`, `MessagesClose`,
`EditsReachTheDisk`), which the prover does not do. Every other property of a
passing run is stated by a theorem above.

## 6. Findings

One run shows a line of the repository violated.

| run | property | what happens |
|---|---|---|
| `rejected_merge` | `OverrideMeansApproved` | "only an explicit recorded human approval unlocks the merge" (`verifyGate.ts:292`): a recorded rejection unlocks it too (`fleet.ts:218`) |

Others are properties that stay in their modules; adding one to the module's
configuration (as `INVARIANT`; as `PROPERTY` those marked with a box) shows it
violated.

| module | property | what happens |
|---|---|---|
| `ChatRuns` | `AbortedRunsMintNoReceipt` | "aborted runs mint NO receipt" (`vouch.ts:1508`): Stop while the receipt is hashed (1844) closes the message with that note, and the receipt is filed all the same |
| `ChatRuns` | `DeniedShowsNoMission` | "Denied by the human gate - nothing was executed" (`vouch.ts:1704`): the receipt's event of the denied dispatch names the mission of an earlier one, through `lastMission` (1773) |
| `McpCalls` | `DeniedMeansNothingExecuted` | `deny_action` on a card approved before says "nothing was executed" (`mcpRouter.ts:303`) while the call runs |
| `MetaLoop` | `LoosenedOnlyByRevert` [] | "Loosening happens only by reverting a change" (`meta.ts:22-25`): a restart loosens, and the ledger says applied |
| `Workflow` | `NotTakenNeverRuns` | the node of a branch's port not taken runs, since the branch's own edge counts as live (`scheduler.ts:234`) |
| `Workflow` | `NothingBeforeApproval` | "Coder does not run before approval" (`src/domain/frameworks.ts:55`): after a rejection or a timeout it does |
| `TeamRun` | `SkippedAfterATry` | "An earlier wave did not complete" (`teamExecutor.ts:717`): a read-only planner is skipped in the first wave, where there is nothing to review, `every` of no results is true (827), and no seat of the team is ever tried |
| `TeamRun` | `NoWorkUnreviewed` | no author "graded its own work" (`verifyGate.ts:197`): the gate's writers are two roles, the writers are those whose box is ticked; and a serial writer may follow the reviewer |
| `TeamRun` | `CleanUpKeepsWork` | "clean up only after a full success" (`mergeExecutor.ts:198`): the worktree of a seat whose commit failed is merged as up to date and removed by force |
| `TeamRun` | `CheckoutRestored` | a failed merge into the snapshot leaves the user's checkout on the review branch, mid-merge (`teamExecutor.ts:926`) |
| `Threads` | `ShownIsActive` | "mirror of the active thread's messages" (`vouch.ts:184`): a run brings its own thread on screen, and the next message goes to the active one |
| `Threads` | `StoppedMessagesClose` [] | "Aborted runs end the message HONESTLY: streaming stops" (`vouch.ts:1606`): Stop during the sleep of a simulation leaves the run at a gate whose card was never written; the message streams for good and locks its thread |
| `MissionRuntime` | `CompletedMeansDone` | "A mission completes only when the work is done AND verified" (`missionRuntime.ts:1419`): Run is offered while a run is under way; the first of two completes the mission while the second has a harness at work, which then fails its task |
| `MissionRuntime` | `PauseStopsSpending` [] | the supervisor's pause "prevents spending budget" (`supervisor.ts:158`): it sets the status and not the flag the loop sleeps on |
| `MissionRuntime` | `RestoredRuns` [] | "Persist everything needed to resume" (`missionRuntime.ts:1317`): the plan is not persisted, and Run on a restored mission fails |
| `MissionLoop` | `CorrectionsKept` | "nothing already known is ever lost" (`teamEvolution.ts:274`): a later cycle of a batch proposes an edit of instructions from before an Accept |
| `Genome` | `RunningIsMonitored` | "a live capability under monitoring" (`genome.ts:465`): a candidate child hides the version that runs from `monitor` |
| `Editor` | `SavedMeansSaved` | the status line says "saved" (`App.tsx:550`): an edit made while a save is under way is marked saved by its answer (`store.ts:643`) |
| `Editor` | `OpensWhatIsSaved` [] | a tab loads its workflow from a list that was read before the last saves (`App.tsx:198`), and the next edit writes the old graph over the saved one |
| `Wiring` | `OffersNoRefusedWire` | "the magnet never offers a wire the graph would refuse" (`Canvas.tsx:282`): a second wire between the same two ports, which the check before a run refuses |
| `Wiring` | `QueuedCanRun` [] | "must refuse to queue it rather than queue a promise that cannot deliver" (`control_mcp.rs:125`): ports, types and open inputs are not looked at |
| `Genome` | `EvolutionGoesOn` | "evolution is a child": once a child is rolled back, its parent's next number stays taken |

More, without a property, are in `PROJECT.json` (`findings`): how the caps of a
team admit a wave, branches that are left out of a merge, foreign trust grades,
exceptions that end a paused mission's run, rungs of the repair ladder no
template reaches, the ledger's numbers and flag under overlapping cycles, the
Teams page's copy of the evolution store, an agent's wires that the editor's next
save takes away, runs that are queued and taken by nobody, and the three
errors the preflight panel does not have.

## 7. Not modelled

* Of the Vouch Cycle: facts and preferences the user types, ratings of a
  message, the words a brain writes; rendering (a button is the action it
  calls).
* Workflow payloads, token accounting, dead letters. The toolbar learns an
  execution's id only when the execution is over (`src/App.tsx:230`); the
  model takes `controlExecution` at its own promise, called at any time.
* Of a team's run: follow-up turns (nobody asks for them), resumed sessions,
  briefings and packets, the arena's contents, attestations, attenuated
  envelopes, and line counts beyond none or some.
* Contents of receipts beyond what was done, denied and shown: hashing,
  canonical JSON and signatures. That a receipt exists is an event.
* Of the mission runtime: the choice of an agent and a harness, artifacts and
  what the evaluation makes of them (free choices), the supervisor's other
  signals, `cancel()` (nobody calls it). Of the Mission Loop: more than one seat
  per crew, the numbers of the bandit and the arena's report. Of the genome:
  `trustGrade`, the signature of a package, and `importGenomeLedger` (`genome.ts:658`),
  which rebuilds a registry with whatever statuses a file has: only the probes
  call it, and `ActiveEarnedItHere` says nothing of what it would bring.
* Pure functions of a finished mission (replay, evaluations), scores and bandits (floating point), harness command lines,
  web search, git, SQLite, the keychain: I/O or arithmetic, no interleaving.
* Of the graph editor: positions, layout, notes and groups, the wires that a
  template or a restored checkpoint brings, the closing of tabs, an autosave that
  is turned off. Of the control server: malformed JSON, writes that fail, node
  ids that are missing or double (`validateWorkflow` does not look at these
  either: nodes are taken to have ids of their own everywhere), and graphs of
  another shape, whose list is called `wires`, with `from` and `to`
  (`control_mcp.rs` 158, 175): the program writes `connections`.
* `proof.ts`: later.

The map covers under a tenth of the lines of the implementation. Of the rest,
a sixth is one bundled tool (`tools/mcp-engine.mjs`, built from the same
sources); most of the other lines are pages, tables of the domain, pure
analyses and I/O, which have no states to explore.

## 8. Plan

What is left to model: a chain of receipts with an abstract hash. A composition
of `ChatRuns` with `MetaLoop` is not needed for the tier: `Retier` lets it move
at any moment, which is more than the meta-loop does; one of `MissionLoop` with
`TeamRun` would say nothing new, since a cycle does nothing while its executor
runs.

What is left to prove: nothing of what the runs check but liveness, which is
out of the prover's reach.
