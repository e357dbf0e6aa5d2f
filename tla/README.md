# Ompire: specifications, model checking and proofs

Ompire is a daemon that takes coding tasks from an operator, prepares a clone
and a container for each, drives agents through a declared workflow, has the
result reviewed, and publishes it (signed commit, push, pull request) under an
explicit authorization. This directory holds TLA+ specifications of its
protocols, the TLC configurations that check them and the proofs TLAPS checks.

Paths are relative to the repository root; bare file names are under
`daemon/src/ompire_daemon/`. Everything is translated from the code; docs are
quoted where the code and they disagree.

    tlc -config deliver.cfg MCWorkflowRun      a run: any row of "Runs" below
    tlapm WorkflowRunProofs.tla                a proof module

## 1. Inventory

### How the daemon works

One process and one asyncio event loop. Coroutines interleave only where they
await; blocking work (git, gpg, gh, the container tool, file installation, reading
a result) runs on worker threads or child processes and is awaited, and the
synchronous REST routes run on a pool of request threads. Everything durable is in
one SQLite database; a write that checks before it changes runs under
`reserved_write` (`BEGIN IMMEDIATE`) and is atomic. In-memory state (coroutines,
futures, the workspace guard, session handles) is lost at a stop and rebuilt at
startup from the database (`app.py`, `recovery.py`, `ShipManager.restore`,
`ResultExportManager.restore`, `restore_reviews`). Most hazards of this system are
of three forms:

* a stop between two commits that belong together;
* a value read before an await, or in another transaction, and trusted after it;
* an effect outside the database (a signature, a push, a pull request, a rename
  in somebody's checkout) whose answer is lost.

### Components

State, operations and interactions of each part, and what makes it correct.

| Component (source) | State | Operations and interactions | Correct when | Model |
|---|---|---|---|---|
| Run engine (`workflows.py`, `registry/workflows.py`, `recovery.py`) | rows of `workflow_step_records`; `tasks.workflow_status/step`; in memory `_runs`, `_gate_waits` | drive a run step by step; answer, retry, continue; settle a delivery step; recover. Calls the supervisor, the review and ship managers, the guard | attempts strictly sequential; visit bounds kept; evidence fresh; a terminal run final; nothing performed twice; a run always driven | `WorkflowRun` |
| Workflow definitions (`workflow_definitions.py`) | a pinned, immutable parse | `step_after`, bounds, evidence selection; load-time validation | what validation promises is what the engine relies on | `WorkflowDefinition`, `WorkflowGraph` |
| Workspace guard (`isolation/guard.py`) | `_owners`, `_blocked` per task, in memory | acquire, hold, release, cleanup hold, block, unblock; asked by every writer of a workspace | host work excludes host work; a hold belongs to its holder until given back | `WorkspaceGuard` |
| Review (`review.py`, `registry/reviews.py`) | iterations, process marker, watcher task | start, watch, finalize, loop back, drop, restore; holds the guard; wakes the run | each review ends for its run; an attempt gets one verdict | `Review` |
| Delivery (`ship.py`, `registry/ships.py`, `runauthority.py`) | deliveries, their write-ahead attempts, decisions; the guard's block | authorize, perform commit/push/pr, classify, reconcile, retry, abandon, restore; settles steps of the run | an effect happens at most once, in order; failed means it did not happen; unknown blocks; every effect classified | `DeliveryJournal`, `Publication` |
| Result exports (`result_exports.py`, `registry/result_exports.py`) | an export row and its file rows; the operator's checkout; staging directory | confirm, install create-only on a thread, reconcile, recheck, acknowledge; holds the revision against purge | nothing replaced; what is claimed happened; one owner per root | `ResultExport` |
| Results (`results.py`, `registry/results.py`) | revisions, acceptance, references, the retained bytes | capture, verify, accept, pin, purge; publishes a versioned document | a bundle is one snapshot; a purge never takes what somebody uses | `ResultRetention` |
| Handoff (`handoff.py`, `work/inputs.py`) | journal of installed inputs | install accepted files into a clone; refuse to publish them | a task runs on exactly what was accepted | `ResultRetention`; publication's refusal is not modelled |
| Sessions (`sessions.py`, `agent.py`, `rpc.py`) | tracked status, pending question, timers, process handles | frames move the status; debounce, stall watchdog; policy handoff in place or by respawn | the status reflects the current process; a step that waits for idle is woken; configuration never interrupts work | `Sessions` |
| Launch and spawn (`application/launch.py`, `spawn.py`) | task row, launch evidence, spawn completion | preview, accept in one transaction, prepare in the background, start the run | accepted exactly what was reviewed; a stop anywhere leaves a task startup can classify | `TaskLifecycle` |
| Cleanup and archive (`application/cleanup.py`, `work/tasks.py`) | archive flag; guard; container and clone | tear down and archive, purge, classify at startup | a run keeps its clone | `TaskLifecycle`, `WorkspaceGuard` |
| Projects (`work/projects.py`, `setup.py`) | project rows, staging directories | register, clone, retry, change, delete | ready means there is a checkout | `TaskLifecycle` |
| Reconciliation (`work/reconciliation.py`) | evidence, decisions, pins | acknowledge a retired setting, confirm an unpinned task's definition in several commits | what is pinned is what was previewed; an unacknowledged value blocks | `Reconciliation` |
| Workflow library (`registry/workflow_library.py`, `registry/workflow_definitions.py`, `workflow_composition.py`) | entries with an edit version, drafts, retained revisions | create, save, publish, archive, synchronize with the package, pin | no lost update; a launched task keeps its meaning | `WorkflowLibrary` |
| Event hub, WebSocket (`events.py`, `api/ws.py`, the browser's `daemonReducer.ts`) | subscribers' queues | publish (from any thread), snapshot then deltas | a client ends with the newest state | in `WorkflowLibrary` and `ResultRetention`, for their documents |
| Notifications, advisories, PR watcher (`notifications.py`, `advisories.py`, `prwatch.py`) | timers; `tasks.pr_state` | consume events, poll GitHub | no protocol of their own | not modelled |
| Profiles, configuration, settings, environments, forge broker, signing, isolation tools, database, REST, authentication | rows, files, processes | see `PROJECT.json` | validation, wiring and I/O | their effect appears in the modules that call them |
| Web user interface, packaging, local tests, design | none | | | out of scope |

### Hazards

`PROJECT.json` lists forty hazards, each at the line where it bites, and names
the properties that are about it. Five of them no property covers. In four, what can go
wrong does: an operator's turn admitted before host work, a reconciliation decision
overlapping the coroutine, an effect proven without its step, and a loop through a
capture that no bound cuts. Section 6 describes these and others of the kind. In the
fifth, the bytes handed to a launched task, one comparison decides and nothing in the
code looks again. Where a property holds with an exception, the hazard's note names it.

## 2. Plan

Ordered by how much depends on the part and how hard it is to test.

| # | Modules | State of work |
|---|---|---|
| 1 | `WorkflowDefinition`, `WorkflowRun`, `WorkflowRunProofs` | checked; types and every safety property proved |
| 2 | `WorkspaceGuard`, `Review` on top of it, `ReviewProofs` for both | checked; the guard's exclusion proved of the guard and of `Review`, with `OneVerdict` |
| 3 | `DeliveryJournal` implementing `Publication`, `DeliveryJournalProofs` | checked; `FailedMeansAbsent`, the refinement, and `UnknownBlocks` up to the first restart proved |
| 4 | `ResultExport`, `ResultExportProofs` | checked; types, `CreatedHappened`, `ConcludesFromKnown`, `RootHasOneOwner` proved |
| 5 | `ResultRetention`, `ResultRetentionProofs` | checked; every safety property proved |
| 6 | `Sessions`, `SessionsProofs` | checked; every safety property proved |
| 7 | `TaskLifecycle`, `TaskLifecycleProofs` | checked; every safety property proved |
| 8 | `WorkflowGraph` | checked by enumeration of documents |
| 9 | `WorkflowLibrary`, `WorkflowLibraryProofs` | checked; every property proved |
| 10 | `Reconciliation` | checked |
| 11 | not begun: the exclusion of installed inputs from publication; direct deliveries; a project's repointing and rename; the expansion of compositions against a reference | |

What composes what: `WorkflowRun` extends `WorkflowDefinition`; `Review` extends
`WorkspaceGuard` and joins each of its actions with what the review manager does;
`DeliveryJournal` holds the run's side of a delivery and `WorkflowRun` the
delivery's side of a run (`dispatched`), so each sees the other's commits;
`ResultRetention` holds its consumers' launches and clones; `DeliveryJournal`
implements `Publication`.

## 3. The modules

### `WorkflowDefinition`: a pinned definition and its pure functions

Constants `Order`, `Kind`, `Dests`, `MaxVisits`, `OnExhausted`, `Evidence` are
the parsed definition, under the assumptions load-time validation establishes
(names resolve, a bound comes with a gate). Prompts, predicates and messages are
data: a decision is the set of destinations its cases name. `StepAfter`,
`BoundedStep`, `SelectEvidence`, `EntryEvidence` and `MissingRequired` are
`step_after`, `_bounded_step`, `select_evidence`, `_entry_evidence` and
`missing_required_evidence`; `Rewrite` and `NewAttempt` are what the functions of
`registry/workflows.py` write. An escape gate may be bounded itself: `BoundedStep` follows
the chain of exhausted gates (`HopsOver`) as `_bounded_step` does, and `BoundAssumption`
asks only what `_validate_graph` establishes, that such a chain has an end.

### `WorkflowRun`: one task's run

| State | Code |
|---|---|
| `records`, `wfStatus`, `wfStep` | `workflow_step_records`, `tasks.workflow_status`, `tasks.workflow_step` |
| `dispatched`, `reviewed` | what the delivery journal and the review iterations hold of an attempt |
| `drv[d]` | where the coroutine `_execute` in slot `d` stands, with its `_Attempt` |
| `runs`, `gateWait` | `WorkflowRunner._runs[task]`, `_gate_waits[task]` |
| `cpu` | the coroutine that is between two awaits |
| `boot`, `snapshot` | startup: the status `classify_startup_tasks` read and `recover_run` tests later |

Each action ends at the next commit or await. While `cpu` names a coroutine no
other moves, as on one event loop, but the daemon can stop: `Crash` is enabled
everywhere, so every pair of consecutive commits is cut. Actions: `StartRun`;
the loop (`Open`, `Loop`, `Woken`, `GateResumed`, `RunFails`, `RunCompletes`,
`RunDone`); a step by kind (`EnterAgent` .. `TurnEnds`, `EnterWork`,
`CommandDone`, `CaptureDone`, `Decide`, `EnterReview` .. `ConsumeVerdict`,
`EnterDelivery` .. `TakeSettled`, `ParkGate`, `StepPauses`, `StepFails`); the
operator (`AnswerGate`, `ResumeGate`, `RetryStep`, `ContinueDelivery`); and the
daemon (`Crash`, `Restart`, `RecoverRun` and one `Recover…` per branch of
`_recover_attempt`). `RetryTarget` hops once, as `_retry_target` does, and not along
the chain. `ServeDuringRecovery` says whether operator requests are
served while sessions are still being resumed, as `app.py` does; the passing
runs hold them back and say so, and `run_redriven` shows what happens otherwise.

### `WorkspaceGuard` and `Review`

`owner` is `_owners[task]` (a name and a kind), `blocked` membership of `_blocked`,
`at[c]` where each caller is, `archived` the task row. The callers are the run's
working steps, host operations, reviews (all under the one name `review`),
operator turns (which ask and hold nothing) and cleanup. A hold nested in
another through the context manager is the outer hold. `LoopBack` chooses
formats 1 and 2, where a review gives its hold up while comments go to the agent.

`Review` extends it; every guard action it takes is one of `WorkspaceGuard`.

| State | Code |
|---|---|
| `row`, `iters` | the `reviews` row with its process marker and attempt; `review_iterations` |
| `rev[c]` | what the watcher of a started review has in its locals, and its entry in `_processes` |
| `session` | the primary session's status, as `start_review_route` reads it |
| `run` | the run at its review step: entering, parked on the future, woken, paused, to be recovered |

`RunStarts` and `OperatorStarts` are the two ways into `start_review`; `Opens`,
`Launches`, `Observes`, `Finalizes`, `LoopsBack`, `Prompts`, `CannotPrompt` are the
watcher from await to await, in particular the marker cleared before the verdict is
recorded, and the run notified before the hold is released. `Cancels`, `SessionFails`,
`CleansUp`, `ShutsDown`, `Restarts` (with `restore_reviews`) end reviews from outside.
`Answers` is the reviewer's exit: it approves, has comments or fails, but one that was
signalled (`cancel_review`, `review.py:433`) exits on the interrupt or is killed, and so
ends as aborted or in error.

### `Publication` and `DeliveryJournal`: privileged effects

`Publication` is the promise: per effect of the authorized chain `due`, `trying`,
`done`; tried only after its predecessors are done, taken at most once, dropped
only if not taken, done only if taken.

`DeliveryJournal` is one workflow-authorized delivery: `actions` (the write-ahead
rows), `disposition`, `blocked` (the guard's block), the run's side (`run`, `at`,
`cur`, `settled`), reconcile requests in flight (`asked`), startup (`phase`,
`todo`, `recover`), and the world: `calls` still outstanding and `landed`
effects. What the daemon observes of the world is the truth or `"unknown"`, at
any time: an unreadable remote, a foreign head, an incomplete search. `_observe` has two
more answers, `partial` (a signature under the attempt's ref that does not verify) and
`conflict` (a destination that holds what nobody authorized). They are folded into
`"unknown"`: `restore`, `reconcile` and the classifiers treat them alike.
The refinement maps an effect to `done` when an attempt of its kind succeeded,
`trying` when one is open, `due` otherwise; `taken` when one landed.

`may` is the condition a behaviour is under, one of `Conditions`: the decisions
operators take and what else happens, of `late` (a client gives up, the remote still
performs), `overlap` (a decision about an action being performed), `retry` (the
run's generic retry), `uninstalled`, `unverified`. The journal's promises hold under
different ones, and say so: `Certain` (a call ends with its client, nobody
decides about an action being performed and nobody abandons an attempt) for `FailedMeansAbsent` and the refinement; `Attended` (nothing
but late calls) for `UnknownBlocks` (up to the first restart) and `EffectsAreClassified`.
Section 6 says what happens otherwise. Not modelled: direct deliveries without a workflow
(`extend_delivery` and legacy prefix grants), candidates, drafts and text.
`Confirm` is preview and confirmation in one step, because the fingerprint
carries the delivery's version.

### `ResultExport`: files into a checkout nobody locked

`row` is the export and its file rows, `job` the event loop's task, `worker` the
installing thread's position and fate, `staging` the directories left in the
checkout, `place` each destination (whose inode, whether the bytes match), `root`
whether the registered path is still the approved directory, `retained` the
revision's bytes, `observed` a reconciliation that has read and not yet written.
`installed` is a history variable: the files an export really renamed into place.

The thread goes through opening, staging, installing, renamed (before the
journal entry), unwinding (the `finally`), finishing or raised. Cancelling a job
does not stop its thread: `Shutdown` cancels and reconciles while `worker` runs on
until `Exits` or `Killed`. `Surprises` says which of the `Troubles` a behaviour may have:
bytes that are damaged, a staging directory or probe that fails (`StagingFails`), an
ancestor that is refused, a rename that fails, a staging directory that stays, a
destination that cannot be inspected (`hidden`), and an inode number that is freed and
given to the operator's file (`reused`). The unique index over active exports
(`db.py:707`) is `RootTaken`. Abstracted: ancestors of a destination (a refusal
that may happen) and the journal of created directories, path planning, the
preview document (a confirmation is the current observation), replays of a
request id, refusals of task purge and project repoint, the versions an operator
sends with acknowledge and recheck.

### `ResultRetention`: capture, acceptance, pins and purge

| State | Code |
|---|---|
| `row`, `stored`, `pins` | `task_results`, `task_result_files`, `task_result_references` |
| `version` | `tasks.results_version` |
| `ws[f]`, `job`, `holder` | the inode and modification time at a path; the capture's coroutine, its reader thread and the identities it keeps; the guard |
| `launch[c]`, `clone[c]` | a consumer from preview to purge, and what is at each destination in its clone |
| `pub[p]`, `view` | a projection under construction on the loop or a request thread; the document the browser holds |

A capture admits every file of the selection (`Collect`), then opens each and compares it
with what was admitted (`OpenFile`), reads it and compares again (`ReadFile`); the files
may change between any two of these. `whole` is a history variable: the revisions
whose bytes were the workspace's at one instant. Cancellation leaves the thread
running (`CancelledReaderEnds`). A launch previews, accepts (the references are
inserted with the task), verifies the stored bytes, installs them and reads them back.
A projection reads its rows and its version in separate statements and is delivered
later; `asOf`, a history variable, is the version its rows were read at. Of exports it
has the pin alone.

### `Sessions`: one agent session

`child[c]` is the c-th process serving the session, with its policy, turn, question and
queued messages; `frames` is what it wrote and nobody handled, in order (events,
acknowledgements and answers share the pipe); `registered`, `lock`, `status`,
`pending`, `debounce`, `watchdog` are `_handles`, the session boundary, the tracker's
status and question and its two timers; `run` is the step's coroutine; `applied`,
`known` the durable row. A policy is its active pair (model and thinking level) and its
auxiliary helper, which only a new process can change. `HandleFrame` is one case of `_watch_events` per frame;
a cancelled debounce leaves its response in place as one to an unknown request (`Unanswered`, `OnUnknown`);
`DebounceAsks`/`DebounceHears` the quiet period and its `get_state`; `Enter` ..
`StartFails` `apply_session_policy` in place (`Reconfigure`, which sets the active pair) and by replacement (`Replace`,
`Retired`); `Prompt`, `Acked`, `StepHears` the step that waits for idle; the rest is
the operator, the agent and a restart. Asks time out or are withdrawn, approvals are
only answered. A reply fits the pipe, so that `Answer`, which writes it and clears the
question, is one step. Follow-up kinds are one, and transcripts are left out.

### `TaskLifecycle`: a project's tasks, from a launch to a purge

Tasks of one slug take turns in one clone path. `project`, `setup` are the project's row
and its clone job; `entry`, `base` what a preview resolves besides the defaults;
`ask[t]` a launch as a request with its preview token; `task`, `job`, `running` the row,
its preparation and the revision its run executes; `clone`, `box` what is on disk.
`Previews`, `Submits`, `Accepts` resolve three times, the last on the reserving connection. A
preparation is cut between all its phases and commits (`Prepares` .. `Starts`,
`SpawnFails`); `Restarts` is any stop with `reconcile_startup`, `reconcile_pending` and
`recover_pending`, which take a project for ready only if its destination is a checkout
that passes inspection, so a destination may also fail (`SetupAtStartup`); cleanup has its
phases, which may leave the directory behind.
`CleanupOnce` keeps to cleanups of tasks at rest, once; section 6 says why.

### `WorkflowGraph`: what a document that loads guarantees

`Parses` and `Accepts` are the parser's and the validator's refusals, one operator per
function (`_parse_bound`, `_successors`, `_reachable_from`, `_validate_graph`,
`_validate_delivery`, `_validate_delivery_entries`, ...). A behaviour picks a document
from `Shapes`, only if it is accepted, and walks it along the engine's own edges: cases,
answers, grants, fall-through, `next`, and the bound of each step with its escape.
A delivery is performed only if the last answer granted it and it is the next of its chain
(`Permitted`, the runtime's own check in `perform_action`), and pauses the run otherwise.
The properties ask whether what the validator computed on its graph is true of the walk.

### `WorkflowLibrary`: one name, many editors, two packages

`entries` are the rows with their edit version, `retained` the revisions (a revision is its
content), `tabs` what each editor loaded, `calls` a committed mutation not yet published
or answered, `view` a dashboard with its socket and queue, `tasks` a launched task's
revision and, as history, the steps it meant. `Load` is what a text means under a package's
shared steps, `Exported` the canonical document of a revision with its frozen snapshot,
`Reads` what a retained revision decodes to. Actions are the routes (`Creates`,
`SavesDraft`, `SavesRevision`, `SetsArchived`), the event path (`Publishes`, `Connects`,
`Drains`, which sends the snapshot and leaves the queue, `Forwards`, which sends or drops one queued
event, `Disconnects`, `Responds`), and `Stops`/`Starts` with
`synchronize_builtins`.

### `Reconciliation`: what an upgrade leaves to decide

`config`, `evidence`, `acked`, `launch`, `page` are the project's side: a retired setting
found at startup, what was acknowledged of it, and a page opened earlier. `library`,
`profile`, `inputs`, `binding`, `records`, `policies`, `decided` are the task's;
`tabs` what each tab previewed, `calls` a confirmation between its commits (`Decides`,
`Pins`, `Seeds`, `Converts`). `Continues`, `ResumesGate` and `Retries` are what the
run may do in between.

## 4. Runs

Bounds are named in each cfg. Symmetry is used by `export` (two exports that differ by
nothing) and `library` (two editors), whose properties are all of safety; elsewhere
the actors have different roles, or liveness is checked. `CHECK_DEADLOCK` is off where the
bounds, or an ending of the system, leave nothing to do.

| Run | Configuration | Shows |
|---|---|---|
| `deliver` | agent, capture and review (2 visits each), decision, choice gates of which one is bounded (1 visit) and leads back through a second capture, delivery; 2 coroutine slots, 2 stops, 8 attempts | one open attempt, visit bound, evidence of the current round, terminal runs final |
| `live_run` | format 1: plain gate, command, decisions that pause, loop and complete; 1 stop, 5 attempts; fair loop and world | runs settle; a parked gate is armed again; the run row shows a wait exactly when its newest attempt holds one |
| `review` | a step, a host operation, two reviews, a turn, a cleanup that may fail; 2 attempts, 3 reviews, 1 stop; definitions with and without a review step | host work is exclusive, one verdict per attempt, every review step ends |
| `delivery` | commit, push, pull request under three conditions; 4 journal attempts, 3 step attempts, 1 restart | failed means absent, unknown blocks, implements `Publication`, every effect classified |
| `export` | two exports, two files, every trouble but `hidden` and `reused`, one kill or shutdown, one edit by the operator | claims are true, what is not known is never concluded, one owner of the root |
| `results` | 1 revision of 2 files, 1 consumer, the loop and 1 request thread, 1 edit of a file, 1 stop, version up to 5 | pinned bytes stay, bundles are snapshots, reads are held, captures end, the page catches up |
| `sessions` | 3 steps (each with a policy of its own: another thinking level, then another helper), 3 children, 1 question, 1 request, 1 restart | work is not interrupted, no orphan, what is recorded is what runs, the card tells the truth, waiting steps are woken |
| `lifecycle` | 2 tasks of one slug, plain and attached, 1 edit, 1 stop | clone and container go only by their task's cleanup, a run stays in its clone, preparations end, ready has a checkout |
| `graph` | every document of seven shapes, of three to six steps, that loads | walks end, deliveries are granted, answers are backed, bounds are final |
| `reconcile` | 2 tabs, 2 judge values, 3 revisions, 4 histories, 1 edit, 2 restarts | what is pinned was previewed; unacknowledged values block |
| `library` | 2 editors, 2 names, 2 packages, 3 edits, 1 task, 1 restart | no lost update, retained meaning, the dashboard converges |
| `run_redriven` | `deliver`'s definition, requests served during recovery, 1 stop | violation of `TerminalIsFinal` (section 6) |

Why these bounds reach the interesting cases. *Runs:* two stops let a recovery
itself be interrupted, which is where resumed attempts are resumed again; eight
attempts let the two visits of a bounded step be used, the bounded escape gate be
reached and left, and a step at its bound be retried with that gate at its own; two slots are the coroutine and the one a retry or
recovery starts over it. `MaxAttempts` limits only what operators start: the
engine goes on beyond it. *Review:* two reviews are the least that share the name
`review`; three starts let an attempt be reviewed, retried and reviewed by recovery.
*Delivery:* four journal attempts are the chain and one repetition. *Exports:* two files
are the least for "the rest is not attempted", two exports the least that meet on a
root; the one edit can come between any two steps. `hidden` multiplies
the states beyond the time a run should take, and the theorems cover it. With `reused` `CreatedHappened` is false (section 6). *Results:* two files are the least
that can be a mixture, one edit the least that makes one; version 5 leaves room for
capture, acceptance, export, purge and damage in every order. *Sessions:* the three policies
make the second step a reconfiguration and the third a replacement; a third child is
the one a restart or failure needs. *Lifecycle:* two tasks are the least that
meet in a path. *Graph:* four steps hold an inner and an outer loop, an escape that leads
to a bounded gate, and a review, its gate and a chain of two; six hold a capture that goes
on into such a chain, at its head or in its middle, and three a run that begins at a
delivery. *Library:* three edits are
two tabs' saves and one from the state either left.
Each property has a mutant in `PROJECT.json`, a change of one definition that its run
detects.

### Fairness

`WorkflowRun!FairDaemon`: weak fairness of each coroutine outside its external waits, of
starting a run, restarting and recovering. The event loop runs what is ready and
the startup tasks are awaited by `app.py`. `FairWorld` adds that agent turns,
reviewers, commands and deliveries end; it is used by `live_run` only, because
nothing in the daemon ends an agent's turn.

`Review!RFairness`: watchers run, a reviewer answers or is ended, other host operations and
cleanup end (git and the container tool have timeouts), recovery gets to the run. An agent's
turn is not assumed to end.

`DeliveryJournal!FairSpec` is weak fairness of the coroutine (its calls have client
timeouts) and of startup, and promises nothing of operators or remotes.

`ResultRetention!FairSpec`: the loop's tasks and the reader thread, which has a deadline,
progress, and the daemon is started again. `Sessions!FairSpec`: the tracker handles frames, its
timers fire, acknowledgements and events reach the step, exits are seen; nothing is assumed
of the agent. `TaskLifecycle!Spec`: a clone job and a preparation go on, since each phase
is a process with a timeout. `WorkflowGraph!Spec`: whoever is asked answers, so that
`RunEnds` is about the document alone. The other modules state safety only.

## 5. Proofs

| Theorem | Module | For every |
|---|---|---|
| `TypeCorrect`: `Spec => []TypeOK` | `WorkflowRunProofs` | definition satisfying the assumptions, set of slots, bounds |
| `VisitBoundHolds`: `Spec => []VisitBound` | `WorkflowRunProofs` | the same, `ServeDuringRecovery` either way; the property excepts escapes |
| `StepsAreSequential`: `Spec => []OneOpenAttempt` | `WorkflowRunProofs` | the same, if `~ServeDuringRecovery` |
| `EvidenceFresh`: `Spec => []EvidenceIsFresh` | `WorkflowRunProofs` | the same, if `~ServeDuringRecovery` |
| `TerminalFinal`: `Spec => TerminalIsFinal` | `WorkflowRunProofs` | the same, if `~ServeDuringRecovery` |
| `WaitsAreHeld`: `Spec => []WaitIsHeld` | `WorkflowRunProofs` | the same, if `~ServeDuringRecovery` |
| `HostOwnsHolds`: `Spec => []HostOwns` | `ReviewProofs` | set of callers, both switches |
| `HostExclusiveHolds`: `Spec => []HostExclusive` | `ReviewProofs` | the same |
| `ReviewsExclude`: `RSpec => []HostExclusive` | `ReviewProofs` | the same and every bound, if `~LateTurns` |
| `DeclaredReviewsExclude`: `RSpec => [](declared => HostExclusive)` | `ReviewProofs` | the same, `LateTurns` either way |
| `AttemptsGetOneVerdict`: `RSpec => []OneVerdict` | `ReviewProofs` | the same, if `~ByHand` |
| `FailuresAreAbsences`: `Spec => []FailedMeansAbsent` | `DeliveryJournalProofs` | chain, set of requests, conditions, bounds |
| `JournalImplementsPublication`: `Spec => ImplementsPublication` | `DeliveryJournalProofs` | the same, if at most one request is in flight |
| `UnknownAttemptsBlock`: `Spec => [](crashes <= 1 => UnknownBlocks)` | `DeliveryJournalProofs` | the same, if at most one request is in flight |
| `ExportTypeCorrect`: `Spec => []TypeOK` | `ResultExportProofs` | set of exports, number of files, troubles, stops and edits |
| `ExportCreatedHappened`: `Spec => []CreatedHappened` | `ResultExportProofs` | the same, without `reused` |
| `ExportConcludesFromKnown`: `Spec => []ConcludesFromKnown` | `ResultExportProofs` | the same, without `reused` |
| `ExportRootHasOneOwner`: `Spec => []RootHasOneOwner` | `ResultExportProofs` | the same |
| `PinnedIsRetainedHolds`: `Spec => []PinnedIsRetained` | `ResultRetentionProofs` | number of revisions and files, set of consumers and threads, bounds |
| `ReadingIsHeldAlways`: `Spec => []ReadingIsHeld` | `ResultRetentionProofs` | the same |
| `PageCatchesUpHolds`: `Spec => []PageCatchesUp` | `ResultRetentionProofs` | the same |
| `ReadyIsSnapshot`: `Spec => []CaptureIsSnapshot` | `ResultRetentionProofs` | the same |
| `NoChildIsLost`: `Spec => []NoOrphan` | `SessionsProofs` | number of steps and children, policies, bounds |
| `HandoffsNeverInterrupt`: `Spec => HandoffNeverInterrupts` | `SessionsProofs` | the same |
| `RecordedIsRunning`: `Spec => []RecordedPolicy` | `SessionsProofs` | the same |
| `CardTellsTheTruth`: `Spec => []StatusAgrees` | `SessionsProofs` | the same |
| `ReadyProjectsHaveTheirs`: `Spec => []ReadyHasCheckout` | `TaskLifecycleProofs` | set of tasks, values a preview resolves, bounds |
| `ClonesAreTheirOwn`: `Spec => CleanupTakesItsOwn` | `TaskLifecycleProofs` | the same, if `CleanupOnce` |
| `RunsInItsOwnClone`: `Spec => []RunsInItsClone` | `TaskLifecycleProofs` | the same, if `CleanupOnce` |
| `MeaningIsRetainedAlways`: `Spec => []MeaningIsRetained` | `WorkflowLibraryProofs` | set of editors, names, packages, texts, what the packages ship, bounds |
| `NoLostUpdateAlways`: `Spec => NoLostUpdate` | `WorkflowLibraryProofs` | the same |
| `FollowsAlways`: `Spec => []Follows` | `WorkflowLibraryProofs` | the same |
| `ViewAgreesAlways`: `Spec => []ViewAgrees` | `WorkflowLibraryProofs` | the same |

*Assumptions*: only the named `ASSUME`s of the modules, which TLC evaluates in every
run of those modules, and the conditions in the table. Each of those is a switch or a
bound of the model that stands for something operators may do, and without it the
property fails; section 6 has the row.

*Type correctness* needs more than shapes: a coroutine indexes `records` by the
attempt it holds, so `TypeOK` contains `Placed` (a coroutine past its start is on
an attempt that exists), which makes it inductive. The proof has a lemma per
action, over lemmas about `Rewrite`, `NewAttempt`, `Latest` and `BoundedStep`.
That a nonempty bounded set of naturals has a greatest element is derived from
the library's well-founded minimum, so that `SelectEvidence` has a type without
induction over data.

*The visit bound* is inductive together with `TypeOK`. The argument is that a
step keeps the bound if it leaves each row's step alone (`RewriteSame`,
`UnchangedSame`) or appends one row for a step that was not at its bound
(`AppendOpens`); `VisitsAppend` counts. Every action is one or the other,
including an answer and a settled delivery, whose successor is bounded against
the history *before* the attempt was closed: closing changes no row's step, so
the count is the same (`BoundedSame`). `BoundedStep` lands on a step below its bound
because the set of steps it hops over, being nonempty and all bounded, has one that escapes
out of it (`BoundAssumption`). A retry takes one hop whatever it finds there, and what it
opens is then excepted by name: the row before it is of the step that escapes to it and
that step is at its bound (`IsEscape`), which later rows cannot change, as they are counted
up to that row alone (`VisitsBy`). The proof never uses that operators
wait for recovery, so the bound holds with overlapping coroutines too, where
one open attempt does not.

*Sequential runs.* One open attempt is not inductive: whether a step may open the next
depends on where every coroutine stands. `Sequential` adds that at most one coroutine is
live, that it stands on the newest attempt in the state its position calls for (`Standing`),
that only a waiting attempt is paused, that a run that has ended has nothing open, and that
nothing is live while the daemon starts, when the status recovery read is still the row's.
That last conjunct is what `~ServeDuringRecovery` buys and `run_redriven` takes away. Every
action is then one of two things (`Progress`): it rewrites the newest attempt and no other, or it
appends one to a history that is closed. The first cannot make old evidence fresh or fresh
evidence old, because only finished attempts count; for the second, what `EntryEvidence` selected
from that very history is by construction not overtaken. `TerminalFinal` is the same case
analysis at a terminal status, where `Standing` leaves no coroutine that writes.

*Waits.* An attempt that waits and the row that shows it are set together, but a plain gate's attempt
is finished in one commit and the row moves on in the next (`workflows.py:1502`), and a stop
falls between them. `WaitIsHeld` is their agreement at rest. `Waits` strengthens it over `Sequential`: an attempt that
waits always shows in the row, and a row that shows a wait nobody holds has a coroutine that is
moving it on (`Moving`), a restart ahead of it, or is at a lost ending. A stop takes the coroutine away but
brings the restart, and recovery decides by the attempts, not by the row.

*The guard's invariant* is `HostOwns` with `TypeOK` and `OneReview`: at most one
review is anywhere but idle, loop back included. Reviews share one name and
`release` goes by name, so a late release by one review would free another's
hold; it is harmless only because no second review is under way, which
`start_review`'s refusals establish and `OneReview` records. `HostExclusive`
follows from `HostOwns`, from names telling all other callers apart, and from
`OneReview` for two reviews.

*Reviews on top of the guard.* What `Review` does to the guard's variables is a step of
the guard (`GuardSteps`), except where a review is admitted and where the daemon stops:
there the composition asks less than `WorkspaceGuard` does, since `start_review_route`
looks at the session and not at whether a review is looping back. `Boundary` is what makes
up for it: without a declared step the session leaves its idleness with the review and does not
find it again before the review is over. A turn prompted behind the review breaks that,
hence `~LateTurns`; a declared run's reviews never loop back, hence
`DeclaredReviewsExclude` without it. For `OneVerdict`, `Unjudged` says that a review
which is not over is for an attempt without a verdict, that verdicts are of attempts so far, and that
a marked row has a reviewer at work; an attempt reviewed by hand and by the run
at once would break it, hence `~ByHand`. Runs of older formats have no attempts to judge
(`Unbound`).

*The delivery.* `Inductive` relates the coroutine to the journal and the journal to the
world. `Performing` is what the coroutine may rely on wherever it is suspended: the phase
of the attempt it has in hand, and that the effect happened once it is past a certain
answer. `Calling` says that a call is outstanding only while the coroutine waits for it,
which is what `Certain` buys; `Landing` and `Proven` that what happened is open or succeeded, and
what succeeded happened; `Asking` that what a request saw stays true until it is decided, as
it is never about the attempt in hand. `FailedMeansAbsent` is `Landing` and `Calling`
read the other way round. The refinement needs two more facts: a pending request is about an
attempt still open (`Pending`), and the coroutine prepares an effect only after those before it
succeeded (`Ordered`). `Pending` is why it needs one request at a time: with three, one
retry begins an attempt that another adopts and the third, older, then fails
(section 6). Its proof shows that each action is a step of `Publication` or a stutter,
named for the effect whose state it moves.

*What blocks.* `UnknownBlocks` holds because somebody always answers for an open attempt:
the coroutine that performs it, startup that has it still to classify, or the block (`Guarded`).
For it to stay so there is at most one open attempt (`OneOpen`), the coroutine's place tells
which (`Posts`), a request is about the open attempt that nobody performs (`AskingOpen`), and the
disposition tells the first startup what it has to look at (`Told`). The second startup is not
told, and a second request may be about an attempt the first has settled; section 6 says what
comes of either.

*The exports' invariants* rest on one on types, `TypeInv`: a job or thread has a
row, a row has files, and a reconciliation under way is of a row and of its files.
`Works` is what every step of a job or thread has in common; one lemma per
step shows it. `CreatedHappened` is not inductive:
an outcome becomes `created` from what the thread just did or from
what a reconciliation read earlier. The invariant adds that an inode of an export in
the checkout was renamed by it (`PlaceOwned`, which is what `reused` takes away), that a thread
standing behind its rename did it (`RenamedInstalled`) and that what was read as created was
(`SeenInstalled`). `ConcludesFromKnown` compares an export's state with its files' outcomes,
which a thread and a reconciliation of the same shutdown both write, the one from what it
did and the other from what it read before. `ConcludeInv` says of an observation not yet recorded
what its record would make true (`ObservedConcludes`), and that what a thread has still to do is
neither delivered nor done (`NotYet`), so that a reconciliation's verdict on those files and the
thread's do not add up to a completion that neither saw. `RootHasOneOwner` adds that whoever holds a job or thread is alone
(`HolderAlone`), that a job waits without a thread, that nobody
holds anything before the daemon serves, and what a pending reconciliation is about
(`ObservedAlone`): while serving, an export that nothing runs for, so that
recording it meets the unique index; while stopping, the export whose thread may
still be running.

*Retention.* That a launched task's bytes stay is not inductive: it needs the index of
references. `PinInv` says that a launch that holds a revision is in the index
(`IndexIsComplete`), that what is in the index is ready (`IndexIsRetained`) and that what is
ready has its bytes (`ReadyHasBytes`), with types. A purge then contradicts the index, the
purge of the producer contradicts that nothing is ready, and acceptance puts both sides
in place in one step. `ReadingIsHeld` is inductive with the shape of the job: a reader
belongs to a job that holds, and only the job's own end gives the hold back,
cancelled or not. `PageCatchesUp` is about a page with nothing under way, so its invariant is
about what is (`PageInv`): a document read at the version the task still has shows what is
there (`DocTrue`), the page's too (`ViewTrue`), and for a version the page has not
seen somebody will still publish (`Pending`), because every change of a row raises the
version in the same commit and leaves a publication to be made. The client keeps what is newer (`Applied`), so
late documents do no harm. For `CaptureIsSnapshot`, `CaptureInv` rests on identities that
only move on: a file's identity is at least the one admitted (`AdmittedBefore`), so an open or a read
that finds the admitted identity finds the bytes of the time between. The instant is the one
between the admission of the last file and the first read (`InstantBetween`), and
what has been read is what was there then (`ReadAsOf`).

*Sessions.* `HandoffInv` says that the session boundary is held exactly while the run's
coroutine is in a handoff (`BoundaryIsRuns`), where the child it has in hand is at each stage:
registered until it is retired, nobody's while it is being started (`InHand`), and that a child found at its turn
boundary stays there while the boundary is held (`AtRest`), since prompts and respawns
wait for it. `HandoffNeverInterrupts` is `AtRest` at the retirement. `RecordedInv` adds that
what a reachable child runs under is what is recorded: a child is registered in the step that
records what was verified of it, a reconfiguration changes both together, and a child on a pair nobody verified
is retired before the boundary is given back.

*The card.* `StatusAgrees` is about a queue that has run empty, so its invariant is about the
queue. `Card` says that the frames not yet handled are a stretch of what the registered
child wrote: each that tells of a turn or a question may follow the one before (`Chained`), the
newest tells what the child is at (`Ending`), and the tracker is ready for the oldest or, with
none left, agrees with the child (`Beginning`), unless a turn's start is on its way, which mends
whatever the tracker believes. The child that writes lengthens the stretch at one end (`Written`), a
handled frame shortens it at the other (`Handled`), and so no induction over the queue is
needed. An answer crosses frames that are still queued, so questions are numbered (`Numbers`): a
question the tracker shows and the child still asks has no later frame behind it. `OneState` says
that a cancelled debounce leaves no answer that another could take for its own;
`Calm` that a session changes hands only with nothing at work and nothing shown;
`FreshChildren` that a child that is started has nothing to do; `Tracked` that a session with
a child is not unknown to the tracker.

*Lifecycle.* `BaseInv` has types, that a clone moved to its place is there (`Checkout`), and
that nothing happens to a task before its row and nobody asks for it afterwards
(`Unborn`). `RunsInItsClone` and `CleanupTakesItsOwn` need
`CloneInv`: one row of the slug is live (`OneLive`); how far a preparation has come is how far
the clone has (`Phase`); preparation, cleanup and recovery of a task exclude each other (`Owned`);
and a prepared task keeps clone and container until a cleanup takes them, while a cleanup that
has begun to take them leaves them torn for good (`Sound`). Only the live task touches the
disk (`OneTaskOwns`), so one task's step disturbs no other.
`CleanupTakesItsOwn` follows step by step: a preparation, failed or not, leaves what is already
there of its task, a startup takes nothing down, and whoever cleans is the live task, so that
what it takes is its own. `CleanupOnce` keeps `Owned` and
`OneTaskOwns`: without it a cleanup may be of a task that is being prepared or recovered, or
of one that is no longer live.

*The library.* `MeaningIsRetained` is inductive as `Kept`, which adds that a task's
revision is retained; `ReadsMonotone` says that retaining more changes no reading, for a
retained document is read with its own snapshot, never with the running package. `NoLostUpdate`
follows from `Versioned`: a tab's loaded version is never ahead of the entry, and where
the two versions are equal the tab has loaded the very row. So every mutation has to
raise the version (`Bumped`), and the version check is as good as a comparison of texts.
`ViewAgrees` is inductive as `Follows`: every copy of a row, on the page, in the snapshot, in the
queue or in a call, is the row or an older version of it; and while a socket is open the row as
it is now has reached the page, or is queued for it, or is in a call that will publish it
(`Reaching`). The page takes a copy only when it is newer than its own (`Applied`), so what arrives
late or twice changes nothing, and with the queue empty and every call answered the first of the
three is left.

*Only model-checked*: all liveness (`RunSettles`, `GateIsArmed`, `EffectsAreClassified`,
`ReviewStepEnds`, `CaptureEnds`, `StepEnds`, `PreparationEnds`, `RunEnds`), which is out of the
prover's reach; `DeliveryIsGranted`, `AnswersAreBacked` and `ExhaustionIsFinal` of
`WorkflowGraph`, where what the validator accepts is a recursive computation over a document,
and what it guarantees of every document an induction over data; and
`BlockedUntilAcknowledged` and `PinnedIsReviewed` of `Reconciliation`, of which no proof has been
written.

## 6. Disagreements between code, docs and comments

One has a run (`PROJECT.json`, "findings"). `run_redriven`: `recover_run` tests a status
read before the API served (`workflows.py:793`); a run completed or failed meanwhile is
re-driven, although its docstring says such runs never are. With `ServeDuringRecovery`
`OneOpenAttempt` and `EvidenceIsFresh` fail as well: a retry during recovery and
`recover_run` each start a coroutine (`workflows.py:1093`).

The rest was met while modelling: behaviour of the code that a doc, a comment or a
reader would not expect. "Kept out by" names the exception, bound or constant with
which the runs ask their questions elsewhere; what has none is visible to the runs and
breaks no property they state.

| Place | What happens | Kept out by |
|---|---|---|
| `workflows.py:1627`, `:1142` | a stop after the last declared step is finished and before `set_run_complete` leaves the run `running` | the exception `LostEnding` in `RunSettles` |
| `workflows.py:1360` | `_fail_step` writes two commits; a stop between them and recovery continues behind the failed attempt | |
| `workflows.py:1627` | a capture finished just before a stop goes to the step declared after it, not to its `next` | |
| `workflows.py:1287` | the parser accepts a capture whose `next` is a pause, and the engine completes the run | shapes of `graph` |
| `workflow_definitions.py`, `_successors` | a capture's declared `next` is not an edge of the validator's graph: a loop through it is bounded by nothing | the exception in `RunEnds` |
| `workflow_definitions.py`, `_validate_delivery_entries` | nor does it look at a capture's `next` or at the first declared step: a document loads whose run enters a delivery that nobody granted, at its head or in its middle, although the docstring at `:2307` says "No edge may enter a chain except its grant or the action before it" and the one at `:2122` that "nothing else in the document routes into a chain". `perform_action` then refuses the effect and the run pauses | the exceptions in `DeliveryIsGranted` |
| `workflows.py:1049` | `_retry_target` sends a retry of a step at its bound to its escape gate without looking at that gate's own bound, where `_bounded_step` (`:1304`) goes on to the gate's own escape, although the docstring says "exactly as the engine would have". The gate is opened once more than it declares; in a document that loads the step can be reached after its gate only through a capture's `next` | the exception `IsEscape` in `VisitBound` |
| `ship.py:2655` | an effect proven after a lost answer is recorded without its step, and no confirmation or retry gets the run past it, although `docs/use/reference/ship-flow.md:334` says the run carries on | |
| `ship.py:1824`, `:2039`, `:3317` | an effect begins under an authorization that was blocked meanwhile (`ship-flow.md:330`) | |
| `ship.py:1776` | the first attempt of the step shadows the one that succeeded | |
| `ship.py:2863` | a pull request created late, after an early search, is created again | `Certain` |
| `ship.py:3039` | abandoning what is observed absent may precede a late effect | `Certain` |
| `registry/ships.py:592` | startup looks at deliveries by disposition: a first restart proves the commit and blocks the delivery, the run adopts it and pushes, and a second restart during the push neither classifies it nor blocks the workspace, although the docstring names every one "whose action was executing" | one restart; the condition of `UnknownAttemptsBlock` |
| `registry/ships.py:1415` | the later of a decision and the coroutine's own result wins | `overlap` is in no condition, and not in `Certain` |
| `ship.py:3013` | of three reconcile requests about one attempt in flight at once, a stale retry records as failed what another adopted meanwhile; of two, an adoption lifts the block over what the other then leaves unknown | one request; the condition of `JournalImplementsPublication` and `UnknownAttemptsBlock` |
| `ship.py:2778` | a stop between the recorded pull request and the task's `pr_url`: the docstring says it is reattached | not modelled |
| `runauthority.py:335` | the review behind an approval is found by attempt; a later round of the same attempt substitutes it | |
| `result_exports.py:1596` | a file at a destination is taken for the staged one by device and inode number alone: if the staged file is gone and the operator's file was given its number, an installation that never happened is recorded, although the docstring at `:1491` says that a staged inode found there "establishes that the rename happened" | `reused`; the condition of `ExportCreatedHappened` and `ExportConcludesFromKnown` |
| `result_exports.py:1499` | reconciliation completes an export and leaves its staging directory | |
| `result_exports.py:748` | shutdown's reconciliation may record not-installed before the thread renames | |
| `result_exports.py:1652` | a recheck of an incomplete export turns a file never attempted into unknown, and undoes an acknowledgement | |
| `results.py:630` | a projection reads its version after its rows: a document may carry a version newer than its contents, and a purge by that version is admitted on an older page. No later document replaces it until something changes | the exception in `PageCatchesUp` |
| `sessions.py:507` | `failed` is terminal in the tracker: a session that exited while the run was elsewhere is respawned (`workflows.py:2197`, `recovery.py:279`), works, and never reads idle | the condition in `StepEnds` |
| `api/rest.py:1897` | an answer that has to wait for a full pipe clears, once it is written, whatever question is pending by then | `Answer` is one step |
| `review.py:593` | a release goes by the shared name `review`: when a turn of an older run arrives late, a second review starts while the first loops back, and one frees the other's hold | `LateTurns`; the condition of `ReviewsExclude` |
| `api/rest.py`, `start_review_route` | a person may start the review an interrupted run is to be recovered at: the attempt that was recorded as interrupted gets a second verdict | `ByHand`; the condition of `AttemptsGetOneVerdict` |
| `review.py:507` | an exception after the marker is cleared, inside the watcher's `finally`, wakes nobody | not modelled |
| `api/rest.py:1763` | a turn is admitted, awaits the session boundary and prompts while host work has begun | |
| `isolation/guard.py:208` | a cleanup displaces the step's hold, fails, and leaves the workspace free under a working agent | |
| `application/cleanup.py:97` | nothing refuses a second cleanup, or one of a task that is being prepared or recovered: it deletes the clone of the slug's next task | `CleanupOnce` |
| `application/spawn.py:272` | a stop between `mark_spawn_completed` and `start_run`: startup takes the task for one whose workflow never began | |
| `work/projects.py:443` | `delete_project` looks for references and deletes in two transactions | |
| `work/reconciliation.py:1053` | the pin is committed before the escalation gate is converted: a Continue or a stop in between arms the gate | |
| `work/reconciliation.py:196` | a judge value set back to one acknowledged or seen earlier blocks nothing, or something else | `Returns` |
| `work/reconciliation.py` | two confirmations may leave the decision of one with the pin of the other; the page's fingerprint names the project's evidence, not the daemon's; a project's rename orphans its evidence | |
| `api/ws.py`, `_drain_snapshot_overlap` | events without a version that are newer than the snapshot are dropped with those it contains; `project_updated` is published out of commit order | not modelled |
| `registry/workflow_library.py`, `synchronize_builtins` | inserts the packaged revision before it notices that the name is an operator's | |
| `notifications.py`, `prwatch.py:115` | entries come back after `clear_task`; a polled state is compared with one read before the poll | not modelled |

## 7. What is not modelled, and why

* **I/O around the protocols**: parsing of documents' fields, prompts and texts, git and
  container commands, the forge's content and HTTP. They appear as choices of outcome.
* **Delivery without a workflow**: `extend_delivery`, legacy prefix grants, candidates and
  drafts. They share the journal's functions with what is modelled, and add an author.
* **The expansion of composed workflows** (`workflow_composition.py`): parameters, stages
  and prefixes are a pure function of documents; `WorkflowLibrary` has only what a revision
  decodes to under one catalog and another.
* **Repointing and renaming a project, and adopting a checkout** (`work/checkout.py`).
* **The exclusion of installed inputs from publication** (`work/inputs.py`): path rules.
* **Notifications, advisories and the pull request watcher** write nothing that another
  part decides by, but `tasks.pr_state`, which one poller writes.
* **The forge broker** filters requests and keeps no state; settings and profiles are rows
  with validation; schema migrations run once; the user interface keeps no authority
  besides the order in which its reducer applies documents, which is modelled.
