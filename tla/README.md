# Consilium, in TLA+

Consilium coordinates the command-line agents of several model providers
(Claude, Codex, Gemini, Grok). Its core is a *conduct* run: a conductor model
splits a task into subtasks, worker models edit the working tree one subtask at
a time, and a verifier, a supervisor, the conductor and a reviewer judge each
attempt. Every call to a role goes through a *ladder* of models with retries and
failover. This directory holds models of that core, the configurations that
check them with TLC and proofs that TLAPS checks.

Paths below are relative to `src/core/src` unless they start with `src/`, `ui/`
or `desktop/` (those two are under `src/`).

## The system and its parts

| part | state it keeps | operations | talks to |
|---|---|---|---|
| conduct loop, `orchestrator/conduct.rs`, `stagnation.rs` | plan, waves, attempt, completed and skipped ids, entries, `failed`, `halted`, replans used | decompose, layer, dispatch, skip, work, verify, supervise, evaluate, review, arbitrate, replan | failover for every role, verifier, `changes.rs` for the diff, operator at each dispatch |
| plan layering, `orchestrator/topology.rs` | the waves being built | `plan_waves` | called once per plan |
| failover and health, `orchestrator/resilience.rs` | dead and cold models, rate-limit hits, shared by all roles | `run_with_failover`, `mark_dead`, `record_rate_limit` | session runner for each attempt |
| session and runner, `sessions.rs`, `orchestrator/runner.rs` | child process, reader task, bounded event channel | spawn, stream, time out and kill | adapters, quota, progress sink |
| operator controls, `orchestrator/operator.rs` | pause level, queue of notes | pause, resume, interject, checkpoint | server on one side, conduct loop on the other |
| WebSocket server, `server.rs` | the run permit, one run task per socket, the writer's channel | start, cancel, pause, resume, interject, close | conduct, operator, browser |
| MCP server, `mcp.rs` | one health per server | concurrent tool calls | failover, council, conduct |
| council and review, `orchestrator/council.rs`, `review.rs`, `auto.rs` | answers, survivors, reviews | answer in parallel, anonymise, review in parallel, synthesise; auto runs a council and then a conduct | failover |
| verifier, `orchestrator/verify.rs`, `safety/commands.rs` | none | build, test, lint with a time limit | conduct |
| routing and quota, `orchestrator/routing.rs`, `quota.rs` | SQLite usage rows | record, totals, pick the least loaded worker | runner, conduct |
| trust and preflight, `safety/trust.rs`, `fs.rs`, `commands.rs`, `preflight.rs` | the trust file | disclose a repository's commands, trust them, look them up | command line, plugins |
| worktrees, `safety/git.rs` | directories, Git's registrations, marker files | create, reopen and remove a worktree | command line, Git, people |
| evaluation harness, `orchestrator/eval.rs` | temporary repositories, scores | run each approach on each task | everything above |
| transcripts, `orchestrator/transcript.rs` | files | save, list, search | command line |
| browser UI, `ui/src/session`, `ui/src/table`, `ui/src/runtime.ts` | the socket, the demo's timers, the session reducer | frames and user actions | server |
| desktop shell, `desktop/src-tauri/src` | the server's task and address | start a server for a workspace, hand out its address | server, browser UI |
| adapters, configuration, wizard, doctor, prompts, catalogue | none that the orchestration depends on | build commands, parse output, read and write settings | everything above |

What makes it hard: role replies are arbitrary, so every branch of the loop is
reachable; the tree keeps the edits of attempts that were abandoned; failures
isolate and cascade over a graph and then restart under a new plan; the health
is shared by calls that run at the same time; the budget elapses at any moment;
and a browser may cancel or close at any moment.

What makes each part correct:

* layering: waves respect the edges and are as early as possible; exactly the
  invalid plans are refused;
* conduct: nothing ships past a gate, success means a tree checked after its
  last edit, the report agrees with the entries, failures isolate, the budget's
  overrun is bounded and every run ends;
* failover: a model that works saves the call, learned facts are used as soon as
  the concurrency allows, retries are bounded, every call returns;
* session: first terminal event wins, the child is gone when a session
  returns; operator: a pause holds exactly until its resume, no note is lost;
  server: one run at a time, one terminal frame, no deadlock with the writer;
* council: only members with an answer review, and the pipeline ends whoever
  fails; tool calls: what a report calls passed was tested on what it shows;
* trust: never granted to commands that nobody trusted; worktrees: what Git still
  registers is whole and has its marker, wherever a removal stopped;
* evaluation: no score that the task's own test does not earn; routing: the least
  loaded worker; transcripts: a saved one can be recalled;
* browser: the screen shows the run started last; desktop: no dead address.

## Modules

```
Topology          vocabulary of plan_waves (operators only)
 |- Layering      plan_waves as a machine            <- LayeringProofs
 `- Conduct       run_conduct                        <- MCConduct,  ConductProofs,
      |                                                 ConductPassProofs
      `- EditCheckShip   what a run promises; Conduct implements it
Failover          run_with_failover, shared health   <- MCFailover, FailoverProofs
Session           one agent session and its runner   <- MCSession,  SessionProofs
Operator          checkpoints and operator handle
 `- Server        handle_session over a run          <- MCServer,   ServerProofs (both)
Evidence          commands, verdicts, captured changes, reviews (operators only)
 |- Commands      preflight and trust of a repository's commands
 |- Mcp           the tools that run models
 `- Eval          the evaluation harness             <- MCEval
Council           council and auto pipeline          <- MCCouncil
Worktree          managed worktrees
Usage             usage log and routing
Transcripts       saved runs and their recall
Screen            the session of the browser
Desktop           the server of the desktop shell    <- MCDesktop
MCSurroundings    Layering, Operator and the eight from Commands to Screen, for TLC
SurroundingsProofs   proofs about Commands, Council, Mcp, Screen, Desktop and Worktree
RecordsProofs        proofs about Usage, Transcripts and Eval
```

### Topology and Layering

A plan is a sequence of `[id, deps]`. The vector of waves is a function `rank`:
the number of the wave each subtask is in. With the index this also gives the
order of the run, since a wave keeps the order of the plan. `Layering` lets the
environment choose any plan over `Ids` up to `MaxPlan` long, with duplicates, self
edges, unknown ids and cycles, and a set of `Earlier` as the ids completed before.

| definition | code |
|---|---|
| `Validate` | duplicate ids, self edges, unknown ids, topology.rs 22-40 |
| `Ready`, `Layer` | one turn of the while loop, 48-68 |
| `Stuck` | the empty wave, 60-62 |
| `Return` | the loop condition fails, 48 and 69 |

### Conduct

`pc` is the place in the nested loops of `run_conduct`; `rank` and `entries` stand
for the wave iterators: the next subtask is the first, in wave order, without an
entry in this pass. A role's reply is what it parses to, chosen by the
environment, and "unavailable" when its whole ladder failed. The working tree is
a value of `Trees` that only workers change, so the stagnation fingerprint is the
pair of tree and verify result. `verify` is `"stale"` from the moment a worker
runs until the verifier ran again.

| actions | code (conduct.rs) |
|---|---|
| `Decompose` | step 1, 257-302 |
| `PlaceReady`, `Layered`, `InvalidPlan` | plan_waves and its error, 343-353 |
| `OverBudget`, `Skip`, `Dispatch`, `AllVisited` | top of the dispatch loop, 354-437 |
| `Work`, `WorkerFails` | routing, the worker's ladder, its failure, 438-511 |
| `Verify` | capture, verifier, fingerprint, 513-532 |
| `Supervise` | 538-617 |
| `Evaluate`, `Grounded`, `ActOn` | evaluation, grounding rule, the decision's arms, 619-852 |
| `Review`, `Arbitrate` | run_review_gate, 1056-1227 |
| `PassEnd`, `Replan` | 857-921 |
| `BudgetElapses` | the wall clock; the code compares at 372 and 859 |

`Complete`, `FailSubtask`, `Retry`, `Proceed`, `Abort` are the five ways a gate ends:
each of them performs all the assignments of the code's arm, so a gate is a
choice between them. `lateCalls` is a history variable.

`EditCheckShip` is the contract without plans, waves or gates: edits spoil the
trust in the tree, a check may restore it, work ships and success is reported
only on a trusted tree, and a report is final. The refinement maps trust to
`verify \in {"passed", "not_run"}`, shipped work to the completed entries and the
phase to `ConductOutcome`.

### Failover

Any number of callers share `dead`, `cold` and `hits`. An attempt's outcome is chosen
by the environment after classification; a model in `Reliable` always completes.
`SkipRung` and `EnterRung` read the health once per rung; `StartAttempt` is apart from
them and from `Retry` because other callers run during backoff and attempts.
`timeouts` and `lateStarts` are history variables.

| actions | code (resilience.rs) |
|---|---|
| `Call`, `SkipRung`, `EnterRung`, `Exhausted` | 190-232, 313-317 |
| `StartAttempt`, `Complete`, `Retry` | 234-280 |
| `Demote`, `Learn` | 282-311, `mark_dead`, `record_rate_limit` 101-136 |

### Session

The child process, its two pipes, the reader task, the bounded channel and
`run_to_completion`. A line is the sequence of events an adapter makes of it, so
the lines of a configuration choose the adapter. The child may block in a write,
close its output early, hang so that only a signal ends it, or exit badly. The
last owner of the reader aborts it, and the end of the reader drops the child
(`kill_on_drop`): a time-out waits for that, a cancellation does not. `produced` is a
history variable.

| actions | code |
|---|---|
| `SpawnChild`, `SpawnFails` | sessions.rs 76-112 |
| `StartWrite` ... `Exit`, `Hang` | the agent's program (external) |
| `Drain` | `drain_stderr`, sessions.rs 46-68 |
| `ReadLine`, `ReadEnd`, `ReadError`, `Send`, `SendFails`, `SentFinal` | the reader's loop and `parse_final`, 109-132 |
| `Reap`, `SentLast` | `stderr_task`, `child.wait`, 133-152 |
| `Collect`, `Finish` | runner.rs 52-94, 112-148 |
| `TimeOut`, `TimedOut` | runner.rs 96-111 |
| `Cancel`, `Aborted` | `ReaderTask`, sessions.rs 17-36 |

### Operator

The pause level (a watch channel), the queue of notes and the checkpoint that
`run_conduct` passes before each subtask, seen from the frames of the operator. Of
the run only its boundaries are kept; attempts and gates are one stretch of
`working`. Each await of the checkpoint is an action boundary, so frames interleave
with it. `asked`, `wanted`, `late` and `toggles` are history variables.

| actions | code |
|---|---|
| `Pause`, `Resume`, `Interject` | operator.rs 85-103 |
| `DrainNotes`, `Pass`, `Park`, `Unpark` | `checkpoint`, 109-126, 145-159 |
| `Dispatch` | echo of the notes, budget, skip and dispatch, conduct.rs 364-437 |
| `Reach`, `Decide`, `Finish`, `Start`, `Drop`, `Forget` | the run around its checkpoints, as `handle_session` spawns and drops it |

### Server

`handle_session`, once per socket, over `Operator`: each session is the operator of
the run it started. The channel to the writer task is a flag (it holds a frame or
not), the run's events are in `stream`. `agent` says that a child of the run is alive;
as `Session` shows, it is gone when a call returned and dies in its own time when
the call was dropped.

| actions | code (server.rs) |
|---|---|
| `Leave`, `BadRequest`, `Refuse`, `Accept` | the first frame, 271-380 |
| `RunSteps`, `RunDropped`, `AgentExits` | the spawned run, 374-391 |
| `Steer`, `Abort` | the select loop, 382-411 |
| `Report`, `ReportCancelled`, `Release`, `Close` | the terminal frame and the end, 413-431 |
| `Deliver`, `WriterEnds` | the writer task, 297-304 |
| `ClientGoes` | the client (external) |

### Evidence and Commands

`Evidence` has the pure parts that several components share: which commands
`detect_commands` finds behind which marker files, how configured ones override
them, when a list of outcomes passes (lint is advisory, no command at all is no
pass), what `capture_changes` shows of a tree, and what a review is worth.

`Commands` is the trust in a command list. A digest is the list itself.

| actions | code |
|---|---|
| `Inspect` | `preflight::inspect`, preflight.rs 53-188 |
| `LoadTrust`, `WriteTemp`, `ReplaceFile`, `TrustFails` | `trust`, trust.rs 60-99 over safety/fs.rs 71-165 |
| `Edit` | people and workers (external) |

### Council

Each member walks its own ladder over one shared health; a look at the health and
the answer are two steps, so members learn from each other in between. A stage is
joined when all its calls returned. Labels are not unique. Triage, the conduct
call and the check command of `auto` follow; what happens inside them is in
`Conduct` and `Failover`.

| actions | code |
|---|---|
| `AskRung`, `Answer`, `Demoted` | the calls, resilience.rs 203-317 |
| `GatherAnswers`, `GatherReviews`, `Synthesise` | council.rs 82-212 |
| `Triage`, `RunConduct`, `RunCheck` | auto.rs 40-207 |

### Mcp

Several `run_worker` and `review_diff` calls over one health, in one directory or in
several. A worker edits its directory at every rung it tries. The diff, the list of
new files and each verification command are steps of their own.

| actions | code |
|---|---|
| `CallTool`, `EnterToolRung`, `ToolRungFails`, `ToolRungCompletes` | mcp.rs 467-531, 572-651 |
| `CaptureDiff`, `CaptureNew`, `CaptureFails` | changes.rs 26-113 |
| `ResolveVerify`, `VerifyOne`, `Report` | mcp.rs 547-568, verify.rs 82-166 |
| `Work` | the worker's process (external) |

### Eval

A suite is a matrix of tasks, approaches and trials. Of a tree the model keeps
whether it solves the task, whose test is in it, and whether it has a manifest.
Workers edit all three and may commit them. `ScoreIsEarned` is about the tasks of
`Guarded`: those whose test is protected and which give a test command, or no
command at all. A task that only gives a build command is detected to have a
test by its manifest, which is not protected: without it the trial passes by the
build alone.

| actions | code (eval.rs) |
|---|---|
| `PrepareTrial` | 303-318 |
| `PipelineVerifies`, `ApproachEnds` | 348-419 and conduct.rs 518-532 |
| `Restore`, `Score`, `ReportSuite` | 324-346, 467-502, 295-301, `aggregate` |

### Worktree

A worktree is a directory, Git's registration of it and a marker file. Every system
call and every Git command of a creation, a removal, and the cleanup they share is
a step; each may fail, a process may end after any of them, and people delete,
move, replace, lock and unlock in between, `Faults` times in all. A directory is
known by who made it: that stands for the device and inode the code compares.

| actions | code (git.rs) |
|---|---|
| `Reserve`, `ValidatePaths`, `AddWorktree`, `Materialise`, `WriteMarker` and their failures | 203-299, 725-1008 |
| `AskRemoval`, `LookFirst`, `Unmark` | 340-368, 1315-1325 |
| `LookAgain`, `Quarantine`, `Prune`, `AfterPrune`, `EmptyDir`, `RemoveDir`, `CleanupFails` | 1086-1313 |
| `Reopen`, `ProcessEnds` | 372-447, the process |
| `Delete`, `Replace`, `BringBack`, `LockOrUnlock` | people (external) |

### Usage, Transcripts

`Usage` records rows, each of one token, under the hour of the clock while `pick_worker_by_provider` reads
one provider's total after the other. `Transcripts` saves by clock, counter, create
and write, each a step of its own, in several processes, while a host lists the
directory, scans file by file and pages one hit in.

| actions | code |
|---|---|
| `RecordUsage`, `ClockTicks`, `PickWorker`, `ReadLoad` | quota.rs 11-164, routing.rs 11-39 |
| `ReadClock`, `DrawSeq`, `CreateFile`, `WriteFile`, `SaveFails` | transcript.rs 31-53 |
| `ListRuns`, `ScanFile`, `PageIn` | transcript.rs 55-236 |

### Screen, Desktop

`Screen`: JavaScript callbacks are atomic and come in any order; runs are told by the
number of their start, and every frame carries the number of the run it belongs
to, which the code does not know. `Desktop`: `start_server` awaits between its steps,
so several starts may be under way; a task is told by the start that spawned it.

| actions | code |
|---|---|
| `StartRun`, `StartDemo`, `ResetRun`, `SendControl` | useSession.ts 31-134 |
| `AddressKnown` | runtime.ts 36-96, useSession.ts 54-60 |
| `SocketOpens`, `FrameArrives`, `SocketFails`, `SocketCloses`, `DemoFrame` | useSession.ts 65-128, reducer.ts 66-139 |
| `AbortPrevious`, `Bind`, `Publish`, `Watch`, `Die` | server_lifecycle.rs 38-123 |
| `ServerUrl` | commands.rs 23-44 |

### MCSurroundings

Ten parts that the loop does not wait for are checked in one run. `part` is chosen in
the initial state; the chosen part starts from each of its own initial states and
moves, and the variables of the others stay where they are. So each behaviour is a
behaviour of one module, every property is checked of all of them, and nothing
is said about interleaving the parts: they share no state in the code.

## Runs

| run | instance | shows |
|---|---|---|
| `conduct_gates` | an out-of-order plan, a chain of three and a join; all gates present; a budget; no replan | `CompletedIsGrounded`, `SkipIsExplained`, `NobodyForgotten`, `RootCauseKept`, `OverrunBounded` |
| `conduct_replan` | one replan; valid, invalid and dependent replacement plans | `SuccessIsVerified`, `ReportMatchesEntries`, `DepsCompleteFirst`, `ShipsOnlyChecked`, `Terminates` |
| `conduct_first_wins` | an out-of-order pair or a single subtask, no gates, no replan, a budget | `FailedFirstWins` is violated |
| `conduct_reused_ids` | a replacement plan may reuse ids | `DepsCompleteFirst` is violated |
| `failover` | two callers, three models, ladders that share a model | `ReliableSaves`, `PulledModelLeft`, `BreakerHolds`, `HungRungDemotes`, `CallsReturn` |
| `session` | a child of three writes, pipes and channel of capacity one | `ReturnsWithoutChild`, `FirstTerminalWins`, `ChargedOnce`, `Ends` |
| `server` | two sockets, a subtask and a pause or resume frame each | `OneRunAtATime`, `TerminalIsLast`, `LeavingFrees`, `PermitReturns` |
| `server_cancel` | one socket, one subtask | `KilledBeforeCancelled` is violated |
| `surroundings` | the ten parts, bounds below | layering: `EdgesPointBack`, `EarliestWave`, `RejectedIffInvalid`, `Returns`; operator: `NotesInOrder`, `PauseTakesHold`, `ParkedByOperator`; `RegisteredIsWhole`, `RecordOutlivesWorktree` (Worktree), `TrustFailsClosed` (Commands), `ReviewersAnswered`, `PipelineEnds` (Council), `PassedIsShown` (Mcp), `ScoreIsEarned` (Eval), `ScreenIsThisRun` (Screen), `PickedIsLeast` (Usage), `SavedIsRecalled` (Transcripts) |
| `council_survivors` | three members, two of one label | `SurvivorsReview` is violated |
| `eval_ungrounded` | two tasks, alone and by the pipeline without grounding | `UngroundedRunsNothing` is violated |
| `desktop_url` | up to three starts | `NoDeadUrl` is violated |

Bounds. Three subtasks give every shape that matters to skipping: a chain (the
skip must cascade twice), a join (one of two prerequisites failed), independent
work beside a failure, and a plan written against its order. Two trees suffice
for "reproduced an earlier diff" and "did not". One replan shows everything that
passes share; the proofs cover any number. Two callers show every interference
on a shared rung, two retries the difference between the time-out cap and the
budget; the proofs cover any number of both. `MAX_REWORKS` is the code's own 2.
With pipes and a channel of capacity one every write and every send can block,
and three writes fill all of them at once; the code's capacities (256 events, a
pipe of the kernel) only make that rarer. Four pause or resume frames let a pause
be undone before it is seen and taken back again. Two sockets show every race
for the permit; notes are left to the operator in `surroundings` and to the proof.

The parts of `surroundings`: every plan of up to three subtasks over three ids, with
none to three of the ids completed before (which ones does not matter but for a
renaming); a run of three subtasks with two notes and four pause or resume frames;
two processes, two worktrees of one entry and two faults, which suffice for a
cleanup that fails half way and is then disturbed; two trust stores, one
repository and two edits, so that a list can change and change back between a load
and a replace; three council members of whom two share a label and all share
models; two tool calls in one directory with one edit each; two tasks, one with a
command of its own, by one approach with two edits or commits; three starts with two
frames each, so that a stale run can meet a live one; three workers of two
providers, a window of one hour and three hours; three saves of two processes over
two clock readings with a hit limit of one. All of these are the smallest with
every race of two actors and one more actor to notice.

Deadlock checking is off where the system really stops: when `plan_waves`
returned, when a run is done or aborted, when a session or a socket is closed, when
a paused run waits for an operator who sends nothing more, or when a bound of
`surroundings` is used up.

Fairness. `Spec` of `Conduct` assumes weak fairness of the run: each role call ends
by its reply or its time-out (`runner.rs` wraps it in `tokio::time::timeout`), and
the runtime polls a ready task again. It does not assume anything about replies.
`Failover` assumes the same of each caller, and not that a role calls again.
`Layering` is a synchronous function. `Council` assumes of its calls what `Failover`
shows: they return. `surroundings` takes over the fairness of these three, while
their part is the one at work; the other parts state no fairness, since people,
hosts and clocks owe nothing. In `Session` tasks run and a child that does not
hang makes progress; the clock is relied on only while the child is unattended
(it hangs, or its reader reads no more), since otherwise it ends by itself, and
nobody has to cancel. In `Server` tasks run, agents end (by `Session`), and a socket
whose client is gone reports it; no client has to send, read or cancel, and a
client that stays but does not read may block its writer for ever. That is why
`PermitReturns` speaks of the permit and `LeavingFrees` of clients that left.

Each property comes with a mutant: a definition with a plausible bug (a dropped
guard, a limit off by one, an assignment forgotten), kept next to the original
under a name of its own and used by no specification. TLC finds the property
violated when the mutant takes the original's place.

### Disagreements found

* *First-wins.* The comment at conduct.rs:339 says `failed` is first-wins and never
  overwritten. The budget check at 373 assigns it without looking, so the report
  of a run whose subtask failed and whose budget then elapsed names the budget
  only. Without a budget the property holds (`conduct_gates`).
* *Reused ids.* `Subtask::depends_on` documents ids that must complete before the
  subtask runs. `completed` accumulates over replans and nothing checks that a
  replacement plan uses new ids; the prompt asks for it. When a plan reuses one,
  a dependent runs although its prerequisite in the same plan failed. With fresh
  ids the property holds (`conduct_replan`).
* *Killed before cancelled.* protocol.rs:43 says that agent processes are killed
  before `run_cancelled` is sent, and the comment at server.rs:390 expects the
  awaited abort to ensure it. The await ends when the run's future is dropped;
  that drops `ReaderTask`, which only asks the runtime to abort the reader, and the
  reader owns the child. Nobody awaits the reader on this path, so the frame and
  the release of the permit may come first, and a next run may start beside the
  old agent. The time-out path does await it (`ReturnsWithoutChild`).
* *Survivors.* council.rs:119 says that the members that produced an answer review.
  They are found by label (council.rs:122), so a member whose label another,
  failed member has is left out. What does hold is that nobody reviews without an
  answer (`ReviewersAnswered`).
* *Ungrounded.* eval.rs:38 says that the approach without grounding has the build and
  test gate disabled. It passes no commands, and `run_conduct` then detects them, so
  the gate is disabled only for tasks whose tree has no manifest.
* *Dead URL.* commands.rs:31 says that the page is not handed a dead URL.
  `start_server` stops the old server before the steps that may fail; when one does,
  the slot keeps the stopped server, which recorded no error. Without a failed start
  it cannot happen (`DeadUrlNeedsFailure`).

A seventh is in the states of `Desktop` without a run of its own. The comment at
server_lifecycle.rs:56 says that restarts never leave two servers bound at once. Two
starts that overlap (the one at launch and a pick, or two picks) both stop what is
published, and then each publishes its own: `AbortPrevious` twice, `Bind` twice,
`Publish` twice. The first of the two serves on, and nothing refers to it any more.

## Proofs

For every value of the constants, from the named assumptions of each module
(plans are non-empty sequences of subtasks, flags are Boolean, bounds are
natural numbers, callers are a non-empty finite set, ladders are sequences of
models):

* `LayeringProofs`: the types; `EdgesPointBack`; `RejectedIffInvalid`; `EarliestWave`. The
  last one needs that what is not placed was not ready a wave ago, so it had an
  edge to something unplaced then. The invariant
  says that placed subtasks have placed prerequisites of lower rank. A stuck loop
  leaves a set in which everybody waits for somebody of the set, which is the
  definition of a cycle; conversely a member of such a set can never be the first
  to be placed. `LayeringIsLeast` says more than `EarliestWave`: no schedule at all that
  respects the open edges runs a subtask in an earlier wave. `LayeringTurns` bounds
  the loop by the length of the plan: each turn places somebody or is the last.
* `ConductProofs`: the types; `CompletedIsGrounded`; `SkipFindsFailure`;
  `SuccessIsVerified`; `OutcomeMatchesEntries`. None is inductive alone. `IInv` adds
  what the layering leaves behind (`LayerInv`), that the current subtask is the
  first without an entry (`CurInv`), that entries belong to the plan of their pass
  (`EntryInv`), that an unhurt pass has completed whatever it visited on a checked
  tree (`UnhurtInv`), that a failure shows in the entries (`HurtInv`), and what each
  gate may take for granted (`GateInv`). `SkipFindsFailure` is the interesting one: an
  unmet prerequisite has a lower rank, so it was visited before, so it has an
  entry that is not "completed", so a failure is already kept.
* `ConductPassProofs`: `NobodyForgotten`, `SkipHasCause`, `RootCauseKept`,
  `OneEntryEach`, and with them `SkipIsExplained` and `ReportMatchesEntries`, which the
  runs check; `OverrunBounded`; `NothingUnshipped` (no step takes back an entry or an
  accepted id, leaves a halt or moves a finished run); `DepsCompleteFirst` under
  `FreshIds`; `FailedFirstWins` without a budget. `PassInv` adds to `IInv` that visited
  subtasks come before open ones (`OrderInv`, for the root cause), that each
  completed id has its entry and a halted entry halts the run (`BookInv`, for the
  cause of a skip), where the ids of completed prerequisites come from
  (`FreshInv`), and how many late calls each round may have seen (`BudgetInv`). The
  two assumptions are the ones whose absence the two violation runs exhibit.
  `ConductRefinesContract` is the refinement of `EditCheckShip`: initial
  states map to initial states and each step to a step of the contract or to a
  stutter, given `IInv` and that the verifier always looks at an edited tree.
  `ConductEndsItsLoops` is the safety half of `Terminates`: what is left of a run is a
  sequence of six numbers (the budget, plans, stages of a pass, open subtasks,
  attempts, gates), and each step lowers the first of them that it changes. A
  gate alone, a rework, a failed subtask and a replacement plan each lower a
  number further to the left, which is why the nested loops have no cycle.
* `FailoverProofs`: the types; `ReliableSaves`; `HungRungDemotes`; `BreakerHolds`;
  `PulledModelLeft`, for any number of callers. The two bounds count callers: a hit
  on a cold model costs the caller its place on the rung (`BreakerInv`), and a start
  on a dead model uses up one of the starts that were open when it was marked
  (`LateInv`). `FailoverWindsDown` is the safety half of `CallsReturn`: the steps a call
  has left are a natural number, computed of its rung, its attempts and its
  time-outs; each step of the call lowers it and no other caller raises it.

* `SessionProofs`: the types; `ReturnsWithoutChild`; `FirstTerminalWins`;
  `ChargedOnce`, for any adapter and any capacities. The invariant says who owns the
  child (`OwnerInv`), that what was produced is what was collected followed by the
  channel and the unsent rest (`StreamInv`), and that status and usage count are
  those of the collected part (`StatusInv`, `ChargeInv`). `SessionEndsItsWork` is the
  safety half of `Ends`, with ten numbers: the runner, the child, the end of its
  output, its writes, the reader, and then what is in pipes and channel. That a
  child has finitely many writes is the bound `MaxWrites`, any natural number.
* `ServerProofs`: `NotesInOrder` and `PauseTakesHold` of the operator alone; the types,
  `OneRunAtATime`, `TerminalIsLast` and again the operator's two promises under the
  server, for any number of sockets, subtasks, notes and pauses. `HandleInv` says
  that a subtask which slipped past a pause is the only one until the resume, and
  where drained notes may be; a live run is in a serving session that holds the
  permit (`PermitInv`); and a session is quiet until it reports (`WordInv`). Each step
  of the server is a step of `Operator` or says a frame (`ServerSteers`), which carries
  the operator's invariant over.

* `SurroundingsProofs`, one part per module:
  * *Commands.* `TrustFailsClosed`, for any number of processes, repositories and
    edits. Nothing locks the file, so the invariant is about what is about to replace
    it (`Sound`): whatever a process has loaded or written aside has only keys that
    somebody trusted, one per repository. A lost update loses a key, it never makes one.
  * *Council.* `ReviewersAnswered`, for any members, labels, ladders and models: who
    survives the first stage has an answer there (`SurvivorsAnswered`), and a call is
    made to survivors only. `CouncilOnlyForward` is the safety half of `PipelineEnds`: a
    step lowers what one call has left in its stage, or goes to a later stage.
  * *Mcp.* `PassedIsShown`, for any number of calls, directories and effects. While no
    other call works in its directory, what a call has captured so far and what its
    commands ran on are of the tree as it is (`Faithful`). A step of one call disturbs
    the others in its directory or leaves their tree alone (`OthersStay`).
  * *Screen.* `ScreenIsThisRun`, for any number of starts and frames. Handlers are only
    on the current socket, which is of the last start, and timers of the last start
    only while it has no socket (`WiringInv`); the view agrees with itself, and the
    socket of a run that is done has sent its terminal frame (`ViewInv`).
  * *Desktop.* `DeadUrlNeedsFailure`, for any number of starts: what is in the slot was
    aborted only by a start that is still under way or failed (`SlotInv`). This is as
    much of `NoDeadUrl` as the code keeps.
  * *Worktree.* The types; `RegisteredIsWhole`; `RecordOutlivesWorktree`, for any number
    of processes, worktrees, entries and faults. The invariant says who may touch
    what. A process that creates a worktree, or takes it back before it was handed
    out, is alone with it (`OwnerInv`); a worktree that somebody holds or removes was
    handed out (`SharerInv`); a directory is emptied, or its marker removed, only
    after Git forgot it (`UnregisteredInv`), which two removals of one worktree respect
    because both look again after the prune; and what is about to get its marker is
    whole (`WholeInv`).

* `RecordsProofs`, one part per module:
  * *Usage.* `PickedIsLeast`, for any workers, windows and rows. Totals of a fixed
    window only grow, so what was read of a provider bounds what it has used now;
    the invariant keeps that for the providers read so far, and that those before
    the best one had strictly more.
  * *Transcripts.* `SavedIsRecalled`, for any processes, clocks and limits. A process
    draws a number once (`NumberInv`: its counter is above all it gave out), so a
    file belongs to one save and one that was saved stays whole, unless two
    processes drew one name at one instant (`clashed`, in `FileInv`); the search has met
    every file it has passed, or as many hits as its limit (`SearchInv`), and what is
    paged in is the file that was found (`PageInv`).
    That the newest file left to scan exists is the one place where an order over
    data is descended; the theorem that a non-empty set has a minimum
    (`WFMin`) does it, where an induction would need an operator as a parameter.
  * *Eval.* `ScoreIsEarned`, for any suite and any number of trials. The results are
    those of the trials so far in the order of the matrix (`OrderInv`), which the
    lemma `EveryTrialCounts` turns into the size of a cell: trials and triples of a task,
    an approach and a turn are paired by a bijection. A pass of a guarded task ran
    its test on the restored tree (`JudgeInv`).

Type invariants are proved and not listed in runs.

Only model-checked: the liveness properties `Returns`, `Terminates`, `CallsReturn`,
`Ends`, `ParkedByOperator`, `LeavingFrees`, `PermitReturns` and `PipelineEnds`, since
fairness and ENABLED are out of the prover's reach (of five of them the safety
half is proved, `LayeringTurns`, `ConductEndsItsLoops`, `FailoverWindsDown`,
`SessionEndsItsWork` and `CouncilOnlyForward`: nothing goes on for ever; what is left to
TLC is that nothing gets stuck before its end); and the violations. Every invariant
and every action property of a passing run is stated by a theorem.

## Plan

Done: Topology, Layering, Conduct, EditCheckShip, Failover, Session, Operator and
Server with their proofs; Commands, Council, Mcp, Screen, Desktop and Worktree with
theirs; Eval, Usage and Transcripts with theirs; Evidence, whose operators they use.
Next, in this order:

1. Joining the levels: that a call of `Conduct` or `Council` is a call of `Failover`,
   whose attempt is a `Session`; that the run of `Operator` is the dispatch loop of
   `Conduct`; that `Screen` and `Server` agree over one socket.
2. The cross-family ladder of the reviewer and the folded memory of conduct, each
   against a reference definition.
3. A record with a run of every note: notes that arrive while a run is parked are
   seen by a later boundary only, or by none.

## Not modelled

* Provider adapters: stateless command lines and parsers of the output of external
  programs. What they produce is an input of `Session` (a line is the events an
  adapter makes of it) and of `Failover` (the class of an outcome).
* Prompts, roles, tokenizer, JSON extraction: wording and parsing of model text; the
  parsed reply is an input of the models of its callers.
* Configuration, wizard, doctor, authentication, catalogue, command line: set-up and
  I/O around the orchestration, without a protocol of their own.
* Of the server the HTTP routes, the origin check and the check of the working
  directory (`Refuse` is their outcome); of the MCP server the framing of requests,
  `quota_status` and the tool that forwards to `run_council`.
* Of worktrees and the trust file the checks of owner, mode and links of each path
  component and the settings of the Git command line: they guard against what a
  model of well-behaved processes and people does not contain.
* Of the browser all components that only render; of the table's derivations all but
  the verdict.
* Of conduct the prompt texts, the folded memory and the fallback list, which no
  decision of the loop reads.
* That the page keeps the address of a server that was replaced (runtime.ts:72 caches
  it): no document promises otherwise, so no property says so.
