---------------------------- MODULE TaskLifecycle ----------------------------
(***************************************************************************)
(* A project's tasks from the launch a person reviewed to their cleanup:   *)
(* `application/launch.py`, `application/spawn.py`, `application/cleanup.py`,*)
(* `work/` (tasks, projects, setup, launch), `isolation/` (workspace,      *)
(* additions, workshop), `registry/workflow_library.py`, and the startup   *)
(* (`app.py`, `recovery.py`).                                              *)
(*                                                                         *)
(* One project, one workflow of the library and one slug: every task below *)
(* is launched under the same name, so they take turns in one clone path.  *)
(* What is edited meanwhile are the project's defaults, the library's      *)
(* entry and the base branch.                                              *)
(***************************************************************************)
EXTENDS Naturals, FiniteSets, Sequences

CONSTANTS
    Tasks,         \* task rows, by id
    Kinds,         \* launches: "plain", "wiring" or "attached"
    MaxEdits,      \* bound: edits of defaults, workflow and base branch
    MaxStops,      \* bound: stops of the daemon
    CleanupOnce    \* TRUE: a task is cleaned up once, and not while it is
                   \* prepared or recovered; the code does not ask for it

ASSUME LifecycleAssumption ==
    /\ Kinds \subseteq {"plain", "wiring", "attached"}
    /\ MaxEdits \in Nat /\ MaxStops \in Nat /\ CleanupOnce \in BOOLEAN
    /\ "nobody" \notin Tasks

VARIABLES
    project,    \* the project's row: setup state and edition of its defaults
    setup,      \* its clone job, and what is on disk
    deleting,   \* DELETE /projects/{name} has found no reference
    entry,      \* the library's entry: origin, current revision, archive flag
    base,       \* the commit the base branch of the checkout resolves to
    ask,        \* task -> its launch, as a request
    task,       \* task -> its row
    job,        \* task -> where its preparation job is
    clone,      \* the clone directory
    box,        \* whose container runs at that path
    running,    \* task -> the revision its run executes, 0 if none does
    cleaning,   \* task -> where its cleanup request is
    recovering, \* tasks startup found resumable and has not got to
    edits, stops

work == <<task, job, running>>
disk == <<clone, box>>
place == <<project, setup, deleting>>
vars == <<place, entry, base, ask, work, disk, cleaning, recovering, edits, stops>>

NoConf == [kind |-> "plain", ver |-> 0, rev |-> 0, commit |-> 0]
NoRow  == [state |-> "none", spawned |-> FALSE, workshop |-> FALSE,
           flow |-> "none", conf |-> NoConf]
NoClone == [by |-> "nobody", ref |-> 0, commit |-> 0, staged |-> FALSE]
NoAsk  == [at |-> "none", token |-> NoConf, commit |-> 0]

Init ==
    /\ project = [state |-> "none", ver |-> 0]
    /\ setup = [job |-> "none", staging |-> FALSE, dest |-> FALSE]
    /\ deleting = FALSE
    /\ entry \in [origin : {"custom", "builtin"}, rev : {1}, archived : {FALSE}]
    /\ base = 1
    /\ ask = [t \in Tasks |-> NoAsk]
    /\ task = [t \in Tasks |-> NoRow]
    /\ job = [t \in Tasks |-> "none"]
    /\ clone = NoClone /\ box = "nobody"
    /\ running = [t \in Tasks |-> 0]
    /\ cleaning = [t \in Tasks |-> "no"]
    /\ recovering = {}
    /\ edits = 0 /\ stops = 0

Live(t) == task[t].state \in {"created", "failed"}

\* From the launcher's return to start_run, and from a clone's move to its
\* row, nothing is awaited: no other coroutine of the loop takes a step.
LoopFree ==
    setup.job # "moved" /\ \A t \in Tasks : job[t] \notin {"launched", "completed"}

Edit == edits < MaxEdits /\ edits' = edits + 1

-----------------------------------------------------------------------------
(* The project and its checkout                                             *)

\* register_project: the destination must be there, or must not be.
Registers ==
    /\ LoopFree /\ project.state = "none"
    /\ IF setup.dest
         THEN project' = [project EXCEPT !.state = "ready"] /\ UNCHANGED setup
         ELSE /\ project' = [project EXCEPT !.state = "cloning"]
              /\ setup' = [setup EXCEPT !.job = IF @ = "none" THEN "preparing" ELSE @]
    /\ UNCHANGED <<deleting, entry, base, ask, work, disk, cleaning, recovering, edits, stops>>

\* update_project: a default that every launch resolves.
Changes ==
    /\ project.state = "ready" /\ Edit
    /\ project' = [project EXCEPT !.ver = @ + 1]
    /\ UNCHANGED <<setup, deleting, entry, base, ask, work, disk, cleaning, recovering, stops>>

\* The job marks the row it was started for, if the row is still there.
Settled(state) ==
    project' = IF project.state = "none" THEN project ELSE [project EXCEPT !.state = state]

\* One step of _run_clone, or its failure: a staging tree of its own is
\* removed, and nothing else.
CloneStep ==
    /\ LoopFree \/ setup.job = "moved"
    /\ UNCHANGED deleting
    /\ \/ /\ setup.job = "preparing" /\ ~setup.dest
          /\ setup' = [setup EXCEPT !.job = "cloning", !.staging = TRUE] /\ UNCHANGED project
       \/ /\ setup.job = "cloning"
          /\ setup' = [setup EXCEPT !.job = "moved", !.staging = FALSE, !.dest = TRUE]
          /\ UNCHANGED project
       \/ /\ setup.job = "moved"
          /\ setup' = [setup EXCEPT !.job = "none"] /\ Settled("ready")
       \/ /\ setup.job \in {"preparing", "cloning"}
          /\ setup' = [setup EXCEPT !.job = "none", !.staging = FALSE] /\ Settled("failed")
    /\ UNCHANGED <<entry, base, ask, work, disk, cleaning, recovering, edits, stops>>

Retries ==
    /\ LoopFree /\ project.state = "failed" /\ setup.job = "none" /\ Edit
    /\ project' = [project EXCEPT !.state = "cloning"]
    /\ setup' = [setup EXCEPT !.job = "preparing"]
    /\ UNCHANGED <<deleting, entry, base, ask, work, disk, cleaning, recovering, stops>>

\* delete_project, on a thread of its own: the refusals, then the deletion.
DeleteChecks ==
    /\ project.state \in {"ready", "failed"} /\ ~deleting /\ Edit
    /\ \A t \in Tasks : task[t].state \in {"none", "purged"}
    /\ deleting' = TRUE
    /\ UNCHANGED <<project, setup, entry, base, ask, work, disk, cleaning, recovering, stops>>

Deletes ==
    /\ deleting /\ deleting' = FALSE
    /\ project' = [project EXCEPT !.state = "none"]
    /\ UNCHANGED <<setup, entry, base, ask, work, disk, cleaning, recovering, edits, stops>>

-----------------------------------------------------------------------------
(* The workflow library, and the base branch                                *)

\* save_revision, or set_archived to restore it. A built-in is never edited; an
\* edit made against an older version of the entry is refused, and is no step.
Saves ==
    /\ entry.origin = "custom" /\ Edit
    /\ entry' = IF entry.archived THEN [entry EXCEPT !.archived = FALSE]
                                  ELSE [entry EXCEPT !.rev = @ + 1]
    /\ UNCHANGED <<place, base, ask, work, disk, cleaning, recovering, stops>>

Archives ==
    /\ entry.origin = "custom" /\ ~entry.archived /\ Edit
    /\ entry' = [entry EXCEPT !.archived = TRUE]
    /\ UNCHANGED <<place, base, ask, work, disk, cleaning, recovering, stops>>

BaseMoves ==
    /\ project.state = "ready" /\ Edit /\ base' = base + 1
    /\ UNCHANGED <<place, entry, ask, work, disk, cleaning, recovering, stops>>

-----------------------------------------------------------------------------
(* Launch: a preview is reviewed, submitted, and resolved again             *)

Launchable == project.state = "ready" /\ ~entry.archived /\ entry.rev # 0

\* resolve_launch and its fingerprint: everything a task is pinned to. The
\* commit of a plain launch is not looked at.
Resolve(kind, commit) ==
    [kind |-> kind, ver |-> project.ver, rev |-> entry.rev,
     commit |-> IF kind = "plain" THEN 0 ELSE commit]

\* resolve_target_commit: the base is read with Git, outside any lock.
Observed == base

\* LaunchService.preview.
Previews(t) ==
    /\ LoopFree /\ task[t].state = "none" /\ ask[t].at = "none" /\ Launchable
    /\ \E kind \in Kinds :
         ask' = [ask EXCEPT ![t] =
                    [at |-> "reviewed", token |-> Resolve(kind, Observed), commit |-> 0]]
    /\ UNCHANGED <<place, entry, base, work, disk, cleaning, recovering, edits, stops>>

Agrees(t, commit) == Launchable /\ Resolve(ask[t].token.kind, commit) = ask[t].token

\* accept, up to its first await after the target was observed: PreviewChanged,
\* or a resolution that more checks are made against.
Submits(t) ==
    /\ LoopFree /\ ask[t].at = "reviewed"
    /\ ask' = [ask EXCEPT ![t] = IF Agrees(t, Observed)
                                   THEN [@ EXCEPT !.at = "checked", !.commit = Observed]
                                   ELSE NoAsk]
    /\ UNCHANGED <<place, entry, base, work, disk, cleaning, recovering, edits, stops>>

\* Resolved once more on the reserving connection.
Agreed(t) == Agrees(t, ask[t].commit)

\* MUTANT: a task that failed gives up its slug.
SlugFree_FailedAside == \A u \in Tasks : task[u].state # "created"

\* The slug is unique among the rows that are not archived.
SlugFree == \A u \in Tasks : ~Live(u)

Accepts(t) ==
    /\ LoopFree /\ ask[t].at = "checked"
    /\ ask' = [ask EXCEPT ![t] = NoAsk]
    /\ IF Agreed(t) /\ SlugFree
         THEN /\ task' = [task EXCEPT ![t] =
                            [NoRow EXCEPT !.state = "created", !.conf = ask[t].token]]
              /\ job' = [job EXCEPT ![t] = "queued"]
         ELSE UNCHANGED <<task, job>>
    /\ UNCHANGED <<place, entry, base, running, disk, cleaning, recovering, edits, stops>>

-----------------------------------------------------------------------------
(* Preparation: run_spawn_pipeline                                          *)

\* A coroutine's step, from one await to the next.
Turn(t, from) == job[t] = from /\ (LoopFree \/ from \in {"launched", "completed"})

Reaches(t, to) == job' = [job EXCEPT ![t] = to]

\* MUTANT: what is at the path is built over.
Free_OverResidue == TRUE

\* prepare_clone: an existing destination is refused, never reused.
Free == clone.by = "nobody"

MadeBy(t) == [by |-> t, ref |-> base, commit |-> 0, staged |-> FALSE]

\* fetch and clone. (Over something that exists, `git clone` would go on where
\* the directory is empty: the mutant keeps who made it.)
Prepares(t) ==
    /\ Turn(t, "queued") /\ Free /\ Reaches(t, "cloned")
    /\ clone' = IF clone.by = "nobody" THEN MadeBy(t) ELSE clone
    /\ UNCHANGED <<task, box, running>>

\* checkout -b, from the commit that was reviewed if there is one.
Branches(t) ==
    /\ Turn(t, "cloned") /\ clone.by # "nobody" /\ clone.commit = 0
    /\ Reaches(t, IF task[t].conf.kind = "attached" THEN "branched" ELSE "ready")
    /\ clone' = [clone EXCEPT !.commit = IF task[t].conf.kind = "plain" THEN clone.ref
                                                                       ELSE task[t].conf.commit]
    /\ UNCHANGED <<task, box, running>>

\* MUTANT: wherever the base branch is now.
Verified_ByBranch(t) == TRUE

\* verify_pinned_source: the cloned base is still the reviewed commit.
Verified(t) == clone.ref = task[t].conf.commit

\* _install_inputs.
Installs(t) ==
    /\ Turn(t, "branched") /\ clone.by # "nobody" /\ Verified(t) /\ Reaches(t, "ready")
    /\ UNCHANGED <<task, disk, running>>

\* launch_workshop: the additions are staged (the record before the file), ...
Stages(t) ==
    /\ Turn(t, "ready") /\ clone.by # "nobody" /\ Reaches(t, "staged")
    /\ clone' = [clone EXCEPT !.staged = TRUE]
    /\ UNCHANGED <<task, box, running>>

\* MUTANT: put back only when the launcher failed.
Restored_OnlyOnFailure(ok) == IF ok THEN clone ELSE [clone EXCEPT !.staged = FALSE]

\* ... and put back however the launcher ended.
Restored(ok) == [clone EXCEPT !.staged = FALSE]

Launched(t) ==
    /\ Turn(t, "staged") /\ clone.by # "nobody" /\ Reaches(t, "launched")
    /\ box' = t /\ clone' = Restored(TRUE)
    /\ UNCHANGED <<task, running>>

\* mark_workshop_launched, mark_spawn_completed: two commits, no await between.
Records(t) ==
    /\ Turn(t, "launched")
    /\ IF task[t].workshop
         THEN Reaches(t, "completed") /\ task' = [task EXCEPT ![t].spawned = TRUE]
         ELSE UNCHANGED job /\ task' = [task EXCEPT ![t].workshop = TRUE]
    /\ UNCHANGED <<disk, running>>

\* MUTANT: the library's current revision.
Pinned_Current(t) == IF entry.rev = 0 THEN task[t].conf.rev ELSE entry.rev

\* resolve_task_definition: the task's own revision.
Pinned(t) == task[t].conf.rev

\* start_run.
Starts(t) ==
    /\ Turn(t, "completed") /\ Reaches(t, "none")
    /\ task' = [task EXCEPT ![t].flow = "running"]
    /\ running' = [running EXCEPT ![t] = Pinned(t)]
    /\ UNCHANGED disk

MarkedFailed(t) == task' = [task EXCEPT ![t].state = "failed", ![t].spawned = TRUE]

\* Any phase may fail; a clone that was being made, or a container that was
\* being launched, may be there or not.
SpawnFails(t) ==
    /\ \E at \in {"queued", "cloned", "branched", "ready", "staged"} : Turn(t, at)
    /\ Reaches(t, "none") /\ MarkedFailed(t) /\ UNCHANGED running
    /\ CASE job[t] = "queued" -> clone' \in {clone} \cup (IF Free THEN {MadeBy(t)} ELSE {})
                                /\ UNCHANGED box
         [] job[t] = "staged" -> clone' = Restored(FALSE) /\ box' \in {box, t}
         [] OTHER -> UNCHANGED disk

SpawnStep(t) ==
    /\ Prepares(t) \/ Branches(t) \/ Installs(t) \/ Stages(t) \/ Launched(t)
       \/ Records(t) \/ Starts(t) \/ SpawnFails(t)
    /\ UNCHANGED <<place, entry, base, ask, cleaning, recovering, edits, stops>>

\* The run completes or fails.
RunEnds(t) ==
    /\ LoopFree /\ running[t] # 0
    /\ running' = [running EXCEPT ![t] = 0]
    /\ task' = [task EXCEPT ![t].flow = "ended"]
    /\ UNCHANGED <<place, entry, base, ask, job, disk, cleaning, recovering, edits, stops>>
-----------------------------------------------------------------------------
(* Cleanup and purge                                                        *)

AtRest(t) == task[t].state # "archived" /\ job[t] = "none" /\ t \notin recovering

\* cleanup_task, up to destroy_workspace: no state refuses it. (What the guard
\* and the run's position refuse is in WorkspaceGuard and Review.)
CleanupBegins(t) ==
    /\ LoopFree /\ task[t].state \notin {"none", "purged"} /\ cleaning[t] = "no"
    /\ CleanupOnce => AtRest(t)
    /\ cleaning' = [cleaning EXCEPT ![t] = IF task[t].workshop THEN "box" ELSE "clone"]
    /\ UNCHANGED <<place, entry, base, ask, work, disk, recovering, edits, stops>>

\* remove_workshop, run in the clone directory; a failure keeps the clone.
RemovesBox(t) ==
    /\ LoopFree /\ cleaning[t] = "box"
    /\ \/ /\ box' = IF clone.by = "nobody" THEN box ELSE "nobody"
          /\ cleaning' = [cleaning EXCEPT ![t] = "clone"]
       \/ UNCHANGED box /\ cleaning' = [cleaning EXCEPT ![t] = "no"]
    /\ UNCHANGED <<place, entry, base, ask, work, clone, recovering, edits, stops>>

\* rmtree, errors ignored.
RemovesClone(t) ==
    /\ LoopFree /\ cleaning[t] = "clone"
    /\ cleaning' = [cleaning EXCEPT ![t] = "row"] /\ clone' \in {clone, NoClone}
    /\ UNCHANGED <<place, entry, base, ask, work, box, recovering, edits, stops>>

\* mark_archived.
CleanupEnds(t) ==
    /\ LoopFree /\ cleaning[t] = "row"
    /\ cleaning' = [cleaning EXCEPT ![t] = "no"]
    /\ task' = [task EXCEPT ![t].state = "archived"]
    /\ UNCHANGED <<place, entry, base, ask, job, running, disk, recovering, edits, stops>>

\* purge_task.
Purges(t) ==
    /\ LoopFree /\ task[t].state = "archived" /\ cleaning[t] = "no"
    /\ task' = [task EXCEPT ![t] = [NoRow EXCEPT !.state = "purged"]]
    /\ UNCHANGED <<place, entry, base, ask, job, running, disk, cleaning, recovering, edits, stops>>

-----------------------------------------------------------------------------
(* A stop, and the startup after it                                         *)

\* MUTANT: the interrupted clone is taken for a finished one.
SetupAtStartup_Ready == {"ready"}

\* reconcile_pending: the filesystem is the authority.  A destination that is
\* there has to be a checkout too, with the fetch remote and a commit.
SetupAtStartup == {"failed"} \cup (IF setup.dest THEN {"ready"} ELSE {})

\* synchronize_builtins: a package that changed moves its own names' revision,
\* or withdraws it.
Packaged ==
    IF entry.origin = "custom" THEN {entry}
    ELSE {entry} \cup {[entry EXCEPT !.rev = r] :
                           r \in {0, stops + 2} \ {entry.rev}}

\* MUTANT: nothing is failed at startup.
Unfinished_Kept == {}

\* reconcile_startup: what was created and is not prepared cannot be resumed.
Unfinished == {t \in Tasks : task[t].state = "created" /\ ~task[t].spawned}

Resumable == {t \in Tasks : task[t].state = "created" /\ task[t].spawned /\ clone.by # "nobody"}

\* Any stop: jobs, runs, requests and threads are gone. A shutdown puts staged
\* additions back itself, a kill leaves that to recover_pending; a launcher may
\* have made its container.
Restarts ==
    /\ stops < MaxStops /\ stops' = stops + 1
    /\ \E kept \in {clone} \cup {MadeBy(t) : t \in {u \in Tasks : job[u] = "queued" /\ Free}} :
         clone' = [kept EXCEPT !.staged = FALSE]
    /\ box' \in {box} \cup {t \in Tasks : job[t] = "staged"}
    /\ \E gone \in SUBSET Resumable :
         /\ (box' = "nobody" => gone = Resumable)
         /\ recovering' = Resumable \ gone
         /\ task' = [t \in Tasks |-> IF t \in Unfinished \cup gone
                        THEN [task[t] EXCEPT !.state = "failed", !.spawned = TRUE] ELSE task[t]]
    /\ IF project.state = "cloning"
         THEN \E state \in SetupAtStartup : project' = [project EXCEPT !.state = state]
         ELSE UNCHANGED project
    /\ setup' = [setup EXCEPT !.job = "none", !.staging = FALSE]
    /\ entry' \in Packaged
    /\ job' = [t \in Tasks |-> "none"] /\ running' = [t \in Tasks |-> 0]
    /\ ask' = [t \in Tasks |-> NoAsk] /\ cleaning' = [t \in Tasks |-> "no"]
    /\ deleting' = FALSE
    /\ UNCHANGED <<base, edits>>

\* recover_run, with the pinned revision.
Redriven(t) == task[t].conf.rev

\* _recover_one: sessions resumed, and a run that was interrupted driven on;
\* without one, a session that does not resume fails the task.
Recovers(t) ==
    /\ LoopFree /\ t \in recovering /\ recovering' = recovering \ {t}
    /\ \/ /\ task[t].flow = "running" /\ UNCHANGED task
          /\ running' = [running EXCEPT ![t] = Redriven(t)]
       \/ task[t].flow # "running" /\ UNCHANGED work
       \/ task[t].flow = "ended" /\ MarkedFailed(t) /\ UNCHANGED running
    /\ UNCHANGED <<place, entry, base, ask, job, disk, cleaning, edits, stops>>

-----------------------------------------------------------------------------
Next ==
    \/ Registers \/ Changes \/ CloneStep \/ Retries \/ DeleteChecks \/ Deletes
    \/ Saves \/ Archives \/ BaseMoves \/ Restarts
    \/ \E t \in Tasks :
          \/ Previews(t) \/ Submits(t) \/ Accepts(t) \/ SpawnStep(t) \/ RunEnds(t)
          \/ CleanupBegins(t) \/ RemovesBox(t) \/ RemovesClone(t) \/ CleanupEnds(t)
          \/ Purges(t) \/ Recovers(t)

\* Every phase is a process with a timeout: it ends, or is ended.
Fairness == WF_vars(CloneStep) /\ \A t \in Tasks : WF_vars(SpawnStep(t))

Spec == Init /\ [][Next]_vars /\ Fairness

-----------------------------------------------------------------------------
\* A task's clone and container are taken down by its own cleanup, and by
\* nothing else while its row is live: not by the late cleanup of an earlier
\* task of the slug, which shares the path, nor by a launch, a failure or a
\* startup; also not once the task has failed and its clone is kept for a look.
CleanupTakesItsOwn ==
    [][\A u \in Tasks : Live(u) =>
         /\ clone.by = u /\ clone'.by # u => cleaning[u] = "clone"
         /\ box = u /\ box' # u => cleaning[u] = "box"]_vars

\* A run executes the revision its task was accepted under, in the clone that
\* was made for the task, at the commit that was reviewed (for handed-over
\* results: on the branch that still points there), with that task's container
\* and no additions of the daemon left in it: across edits, failed cleanups
\* that leave a directory behind, and restarts.
RunsInItsClone ==
    \A t \in Tasks : running[t] # 0 /\ task[t].state = "created" /\ cleaning[t] = "no" =>
        /\ running[t] = task[t].conf.rev
        /\ clone.by = t /\ box = t /\ ~clone.staged
        /\ (task[t].conf.kind # "plain" => clone.commit = task[t].conf.commit)
        /\ (task[t].conf.kind = "attached" => clone.ref = task[t].conf.commit)

\* A task that is being prepared is prepared or marked failed, wherever the
\* daemon was stopped: no card that spawns for ever.
PreparationEnds ==
    \A t \in Tasks : task[t].state = "created" /\ ~task[t].spawned
                      ~> task[t].state # "created" \/ task[t].spawned

\* A project that is ready to launch from has its checkout.
ReadyHasCheckout == project.state = "ready" => setup.dest

=============================================================================
