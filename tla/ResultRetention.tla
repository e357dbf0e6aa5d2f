--------------------------- MODULE ResultRetention ---------------------------
(***************************************************************************)
(* The retained results of one producing task: capture of files out of its *)
(* workspace, acceptance, damage, purge, the tasks that pin a revision as  *)
(* an input, the installation of the pinned files into their clones, and   *)
(* the versioned document a client sees (`results.py`,                     *)
(* `registry/results.py`, `handoff.py`, `application/spawn.py`).           *)
(*                                                                         *)
(* One transaction of the registry is one action.  Between the actions of  *)
(* a capture, a launch or a publication anything else may happen: requests *)
(* run on threads, the reader of a capture runs on a thread that           *)
(* cancellation does not stop, and the files belong to whoever edits them. *)
(***************************************************************************)
EXTENDS Naturals, FiniteSets

CONSTANTS
    MaxRevs,     \* bound: captures the task may open
    NFiles,      \* files of the selection, read in the order 1..NFiles
    Consumers,   \* tasks that may be launched from a result
    Loop,        \* the event loop, as the builder of a projection
    Threads,     \* request threads, each serving one request
    MaxVersion,  \* bound: no new request is made at this version
    MaxWrites,   \* bound: changes to the files of the workspace
    MaxStops     \* bound: stops of the daemon

ASSUME ResultAssumption ==
    /\ Loop \notin Threads
    /\ MaxRevs \in Nat \ {0}
    /\ NFiles \in Nat \ {0}
    /\ MaxVersion \in Nat
    /\ MaxWrites \in Nat
    /\ MaxStops \in Nat

VARIABLES
    row,        \* task_results, by order of started_at
    stored,     \* task_result_files of a revision: "none", "good", "damaged"
    whole,      \* history: revisions whose bytes were the workspace's at one instant
    version,    \* tasks.results_version
    producer,   \* the producing task: "created", "archived", "deleted"
    pins,       \* task_result_references: <<consumer, revision>>
    exporting,  \* revisions with an export that is not settled
    deciding,   \* acceptances that verified the bundle and have not written
    ws,         \* ws[f]: the inode at a path and its modification time
    writes,     \* changes made to them so far
    holder,     \* the workspace guard: "none", "capture", "other"
    job,        \* the capture in flight: coroutine and reader thread
    launch,     \* launch[c]: how far the launch of a consumer has come
    clone,      \* clone[c][f]: what is at a destination in its clone
    pub,        \* pub[p]: a projection being built; asOf, history: the version
                \* its rows were read at
    view,       \* the document the client holds
    daemon,     \* "up", "stopping", "down"
    stops

vars == <<row, stored, whole, version, producer, pins, exporting, deciding, ws,
          writes, holder, job, launch, clone, pub, view, daemon, stops>>

files == <<ws, writes>>
tasksOut == <<launch, clone>>
life == <<daemon, stops>>

Revs == 1..MaxRevs
Files == 1..NFiles

NoRow == [state |-> "none", accepted |-> FALSE, unavailable |-> FALSE, pred |-> 0]
NoIdentity == [ino |-> 0, mtime |-> 0]
Nothing == [f \in Files |-> NoIdentity]
Idle == [at |-> "idle", rev |-> 0, next |-> 1, cancelled |-> FALSE,
         admitted |-> Nothing, opened |-> NoIdentity, got |-> Nothing, asOf |-> Nothing]

\* ResultManager.projection without its version: what a document shows.
Doc == [rows |-> row, consumers |-> pins, exports |-> exporting]

Publishers == Threads \cup {Loop}
Quiet == [at |-> "idle", doc |-> 0, version |-> 0, asOf |-> 0]
Changed == [Quiet EXCEPT !.at = "changed"]

Init ==
    /\ row = [r \in Revs |-> NoRow]
    /\ stored = [r \in Revs |-> "none"]
    /\ whole = {}
    /\ version = 0
    /\ producer = "created"
    /\ pins = {}
    /\ exporting = {}
    /\ deciding = {}
    /\ ws = [f \in Files |-> [ino |-> 1, mtime |-> 1]]
    /\ writes = 0
    /\ holder = "none"
    /\ job = Idle
    /\ launch = [c \in Consumers |-> [at |-> "none", rev |-> 0, bytes |-> "none"]]
    /\ clone = [c \in Consumers |-> [f \in Files |-> "absent"]]
    /\ pub = [p \in Publishers |-> Quiet]
    /\ view = [doc |-> Doc, version |-> 0, asOf |-> 0]
    /\ daemon = "up"
    /\ stops = 0

Reading == job.at \in {"collecting", "reading", "opened"}

Capturing(r) == row[r].state = "capturing"
Retained(r) == row[r].state = "ready"
Readable(r) == Retained(r) /\ ~row[r].unavailable

\* bump_results_version, inside the caller's transaction.
Bump == version' = version + 1

\* A request arrives: the daemon serves and the bound leaves room.
Serving == daemon = "up" /\ producer # "deleted" /\ version < MaxVersion

-----------------------------------------------------------------------------
(* The document: built from three reads and a fourth for its version, on   *)
(* whichever thread made the change, then broadcast and applied.           *)

\* The event loop is between two awaits while it builds a projection: nothing
\* else runs on it, and what threads hand over to it waits.
LoopFree == daemon # "down" /\ pub[Loop].at = "idle"

\* A committed change is followed by ResultManager.publish where it was made.
LoopPublishes == pub' = [pub EXCEPT ![Loop] = Changed]
ThreadPublishes == \E t \in Threads :
    /\ pub[t].at = "idle" /\ pub' = [pub EXCEPT ![t] = Changed]

\* projection: list_results, consumers_by_result, exports_by_result.
ReadsRows(p) ==
    /\ daemon # "down" /\ pub[p].at = "changed"
    /\ pub' = [pub EXCEPT ![p] = [at |-> "read", doc |-> Doc, version |-> 0, asOf |-> version]]
    /\ UNCHANGED <<row, stored, whole, version, producer, pins, exporting, deciding,
                   files, holder, job, tasksOut, view, life>>

\* MUTANT: the client applies documents as they come.
Applied_Always(p, v) == view' = [doc |-> pub[p].doc, version |-> v, asOf |-> pub[p].asOf]

\* The client's reducer, for a broadcast and a response alike: an older
\* version is dropped.
Applied(p, v) ==
    view' = IF v < view.version THEN view
            ELSE [doc |-> pub[p].doc, version |-> v, asOf |-> pub[p].asOf]

\* projection: results_version, a connection of its own.  On the loop the
\* broadcast follows at once.
ReadsVersion(p) ==
    /\ daemon # "down" /\ pub[p].at = "read"
    /\ \/ p = Loop /\ Applied(p, version) /\ pub' = [pub EXCEPT ![p] = Quiet]
       \/ p # Loop /\ pub' = [pub EXCEPT ![p] = [at |-> "built", doc |-> pub[p].doc,
                                               version |-> version, asOf |-> pub[p].asOf]]
          /\ UNCHANGED view
    /\ UNCHANGED <<row, stored, whole, version, producer, pins, exporting, deciding,
                   files, holder, job, tasksOut, life>>

\* EventHub.publish from a thread: fan-out is handed to the loop.
Delivered(t) ==
    /\ LoopFree /\ pub[t].at = "built"
    /\ Applied(t, pub[t].version)
    /\ pub' = [pub EXCEPT ![t] = Quiet]
    /\ UNCHANGED <<row, stored, whole, version, producer, pins, exporting, deciding,
                   files, holder, job, tasksOut, life>>

-----------------------------------------------------------------------------
(* Capture                                                                  *)

\* ResultManager._admit: not cleaned up, and nobody works in the workspace.
Admitted == producer = "created" /\ holder = "none"

\* The latest ready revision, if there is one.
Latest == {q \in Revs : Retained(q) /\ \A s \in Revs : Retained(s) => s <= q}
Predecessor == IF Latest = {} THEN 0 ELSE CHOOSE q \in Latest : TRUE

\* open_capture and open_workflow_capture, then the job is created.  A replay
\* of a request or of an attempt answers with the row and changes nothing.
OpenCapture(r) ==
    /\ Serving /\ LoopFree /\ Admitted
    /\ row[r].state = "none" /\ \A q \in Revs : q < r => row[q].state # "none"
    /\ ~\E q \in Revs : Capturing(q)
    /\ row' = [row EXCEPT ![r] = [NoRow EXCEPT !.state = "capturing", !.pred = Predecessor]]
    /\ job.at = "idle" /\ job' = [Idle EXCEPT !.at = "created", !.rev = r]
    /\ Bump /\ LoopPublishes
    /\ UNCHANGED <<stored, whole, producer, pins, exporting, deciding, files, holder,
                   tasksOut, view, life>>

\* fail_capture: only a row still capturing is changed.
FailCapture(r) ==
    IF Capturing(r) THEN row' = [row EXCEPT ![r].state = "failed"] /\ Bump
                    ELSE UNCHANGED <<row, version>>

\* _run_capture enters its hold and asks again; refused, it records a failure.
JobBegins ==
    /\ daemon = "up" /\ LoopFree /\ job.at = "created"
    /\ \/ /\ Admitted
          /\ holder' = "capture" /\ job' = [job EXCEPT !.at = "collecting"]
          /\ UNCHANGED <<row, version, pub>>
       \/ /\ ~Admitted
          /\ FailCapture(job.rev) /\ LoopPublishes
          /\ job' = Idle /\ UNCHANGED holder
    /\ UNCHANGED <<stored, whole, producer, pins, exporting, deciding, files, tasksOut, view, life>>

\* _Walker.collect: one selected file is stat'ed and admitted.  When the last
\* one is, every file of the bundle has been seen once.
Collect ==
    /\ daemon # "down" /\ job.at = "collecting"
    /\ job' = IF job.next = NFiles
                THEN [job EXCEPT !.at = "reading", !.next = 1,
                                 !.admitted[NFiles] = ws[NFiles], !.asOf = ws]
                ELSE [job EXCEPT !.next = @ + 1, !.admitted[job.next] = ws[job.next]]
    /\ UNCHANGED <<row, stored, whole, version, producer, pins, exporting, deciding,
                   files, holder, tasksOut, pub, view, life>>

\* What the reader's exception does once the coroutine sees it: the hold is
\* left, the capture fails and the failure is published.
CaptureFails ==
    /\ LoopFree /\ holder' = "none" /\ job' = Idle
    /\ FailCapture(job.rev) /\ LoopPublishes

\* Anything the walker refuses: a link, a limit, the deadline, a missing path.
WalkerRefuses ==
    /\ daemon # "down" /\ job.at \in {"collecting", "reading", "opened"}
    /\ CaptureFails
    /\ UNCHANGED <<stored, whole, producer, pins, exporting, deciding, files, tasksOut, view, life>>

\* MUTANT: a file replaced since it was admitted is read all the same.
OpenSame_Skipped(f) == f \in Files

\* _Walker.read: the opened inode is compared with the admitted one.
OpenSame(f) == ws[f] = job.admitted[f]

OpenFile ==
    /\ daemon # "down" /\ job.at = "reading"
    /\ OpenSame(job.next)
    /\ job' = [job EXCEPT !.at = "opened", !.opened = ws[job.next]]
    /\ UNCHANGED <<row, stored, whole, version, producer, pins, exporting, deciding,
                   files, holder, tasksOut, pub, view, life>>

\* _Walker.read: the descriptor's metadata and the directory entry are
\* compared again after the bytes were read.
StillSame(f) == ws[f] = job.opened

ReadFile ==
    /\ daemon # "down" /\ job.at = "opened"
    /\ StillSame(job.next)
    /\ LET f == job.next IN
       job' = [job EXCEPT !.at = IF f = NFiles THEN "proving" ELSE "reading",
                          !.next = IF f = NFiles THEN 1 ELSE f + 1,
                          !.got[f] = ws[f]]
    /\ UNCHANGED <<row, stored, whole, version, producer, pins, exporting, deciding,
                   files, holder, tasksOut, pub, view, life>>

\* _read_bounded, cancelled: the wait for the reader is over only with it.
CancelledReaderEnds ==
    /\ daemon # "down" /\ job.at = "proving" /\ job.cancelled
    /\ CaptureFails
    /\ UNCHANGED <<stored, whole, producer, pins, exporting, deciding, files, tasksOut, view, life>>

\* _provenance has been awaited; finish_capture commits bytes, manifest, ready.
FinishCapture ==
    /\ daemon = "up" /\ LoopFree /\ job.at = "proving" /\ ~job.cancelled
    /\ Capturing(job.rev)
    /\ row' = [row EXCEPT ![job.rev].state = "ready"]
    /\ stored' = [stored EXCEPT ![job.rev] = "good"]
    /\ whole' = IF job.got = job.asOf THEN whole \cup {job.rev} ELSE whole
    /\ Bump /\ LoopPublishes
    /\ holder' = "none" /\ job' = Idle
    /\ UNCHANGED <<producer, pins, exporting, deciding, files, tasksOut, view, life>>

-----------------------------------------------------------------------------
(* Decisions about a revision, and what else happens to it                  *)

\* ResultManager.accept: the whole bundle is read back first.
VerifiesBundle(r) ==
    /\ Serving /\ Readable(r) /\ stored[r] = "good"
    /\ deciding' = deciding \cup {r}
    /\ UNCHANGED <<row, stored, whole, version, producer, pins, exporting, files,
                   holder, job, tasksOut, pub, view, life>>

\* accept_result, in its own transaction: idempotent, refused when the row is
\* no longer readable.
Accept(r) ==
    /\ daemon = "up" /\ r \in deciding
    /\ deciding' = deciding \ {r}
    /\ IF Readable(r) /\ ~row[r].accepted
         THEN row' = [row EXCEPT ![r].accepted = TRUE] /\ Bump /\ ThreadPublishes
         ELSE UNCHANGED <<row, version, pub>>
    /\ UNCHANGED <<stored, whole, producer, pins, exporting, files, holder, job,
                   tasksOut, view, life>>

\* The database is restored, copied or damaged outside the daemon.
Damage(r) ==
    /\ stored[r] = "good" /\ stored' = [stored EXCEPT ![r] = "damaged"]
    /\ UNCHANGED <<row, whole, version, producer, pins, exporting, deciding, files,
                   holder, job, tasksOut, pub, view, life>>

\* A read of the bytes does not match the manifest: _fail_integrity.
FindsDamage(r) ==
    /\ Serving /\ Readable(r) /\ stored[r] = "damaged"
    /\ row' = [row EXCEPT ![r].unavailable = TRUE] /\ Bump /\ ThreadPublishes
    /\ UNCHANGED <<stored, whole, producer, pins, exporting, deciding, files, holder,
                   job, tasksOut, view, life>>

\* start_export and the export's end, of which only the pin matters here.
ExportStarts(r) ==
    /\ Serving /\ LoopFree /\ Readable(r) /\ row[r].accepted /\ r \notin exporting
    /\ exporting' = exporting \cup {r} /\ Bump /\ LoopPublishes
    /\ UNCHANGED <<row, stored, whole, producer, pins, deciding, files, holder, job,
                   tasksOut, view, life>>

ExportSettles(r) ==
    /\ daemon = "up" /\ LoopFree /\ r \in exporting
    /\ exporting' = exporting \ {r} /\ Bump /\ LoopPublishes
    /\ UNCHANGED <<row, stored, whole, producer, pins, deciding, files, holder, job,
                   tasksOut, view, life>>

\* assert_result_unpinned_on
Unpinned(r) == \A c \in Consumers : <<c, r>> \notin pins

\* purge_result: the operator names the manifest and the version of the
\* document on the page.
Purge(r) ==
    /\ Serving /\ view.doc.rows[r].state = "ready"
    /\ Retained(r) /\ Unpinned(r) /\ r \notin exporting
    /\ version = view.version
    /\ row' = [row EXCEPT ![r].state = "purged"]
    /\ stored' = [stored EXCEPT ![r] = "none"]
    /\ Bump /\ ThreadPublishes
    /\ UNCHANGED <<whole, producer, pins, exporting, deciding, files, holder, job,
                   tasksOut, view, life>>

\* CleanupService.cleanup_task: not while a capture holds the workspace.
CleanUpProducer ==
    /\ Serving /\ producer = "created" /\ holder = "none"
    /\ producer' = "archived"
    /\ UNCHANGED <<row, stored, whole, version, pins, exporting, deciding, files,
                   holder, job, tasksOut, pub, view, life>>

\* assert_no_retained_results and assert_task_exports_settled_on
NothingRetained == /\ \A r \in Revs : ~Retained(r) /\ ~Capturing(r)
                   /\ exporting = {}

\* purge_task of the producer: its tombstones go with it, clients drop it.
PurgeProducer ==
    /\ daemon = "up" /\ producer = "archived" /\ NothingRetained
    /\ producer' = "deleted" /\ version' = 0
    /\ row' = [r \in Revs |-> NoRow] /\ stored' = [r \in Revs |-> "none"]
    /\ UNCHANGED <<whole, pins, exporting, deciding, files, holder, job, tasksOut,
                   pub, life>>
    /\ view' = [doc |-> Doc', version |-> 0, asOf |-> 0]

-----------------------------------------------------------------------------
(* A task launched from a result                                            *)

\* verify_attachable_on, then verify_payload_on
Attachable(r) == Readable(r) /\ row[r].accepted /\ stored[r] = "good"

\* LaunchService.preview, outside any reservation.
Preview(c, r) ==
    /\ daemon = "up" /\ producer # "deleted" /\ launch[c].at = "none"
    /\ Attachable(r)
    /\ launch' = [launch EXCEPT ![c].at = "previewed", ![c].rev = r]
    /\ UNCHANGED <<row, stored, whole, version, producer, pins, exporting, deciding,
                   files, holder, job, clone, pub, view, life>>

\* MUTANT: the revision is trusted from the preview.
AcceptLaunch_Trusting(c) ==
    /\ daemon = "up" /\ LoopFree /\ launch[c].at = "previewed"
    /\ launch' = [launch EXCEPT ![c].at = "accepted"]
    /\ pins' = pins \cup {<<c, launch[c].rev>>}
    /\ Bump /\ LoopPublishes
    /\ UNCHANGED <<row, stored, whole, producer, exporting, deciding, files, holder,
                   job, clone, view, life>>

\* LaunchService.accept: resolved again under the reservation that creates
\* the task and inserts its references; the producers are published after.
AcceptLaunch(c) ==
    /\ daemon = "up" /\ LoopFree /\ launch[c].at = "previewed"
    /\ \/ /\ Attachable(launch[c].rev)
          /\ launch' = [launch EXCEPT ![c].at = "accepted"]
          /\ pins' = pins \cup {<<c, launch[c].rev>>}
          /\ Bump /\ LoopPublishes
       \/ /\ ~Attachable(launch[c].rev)
          /\ launch' = [launch EXCEPT ![c].at = "none", ![c].rev = 0]
          /\ UNCHANGED <<pins, version, pub>>
    /\ UNCHANGED <<row, stored, whole, producer, exporting, deciding, files, holder,
                   job, clone, view, life>>

\* The task is marked failed; what was installed stays for inspection.
SpawnFails(c) == launch' = [launch EXCEPT ![c].at = "failed"] /\ UNCHANGED clone

\* read_attachment_bytes: the pinned revision is verified once more.
VerifiesPinned(c) ==
    /\ daemon = "up" /\ launch[c].at = "accepted"
    /\ IF Attachable(launch[c].rev)
         THEN launch' = [launch EXCEPT ![c].at = "verified"] /\ UNCHANGED clone
         ELSE SpawnFails(c)
    /\ UNCHANGED <<row, stored, whole, version, producer, pins, exporting, deciding,
                   files, holder, job, pub, view, life>>

\* read_attachment_bytes: read_all_files_on, a statement after the check.
ReadsPayload(c) ==
    /\ daemon = "up" /\ launch[c].at = "verified"
    /\ launch' = [launch EXCEPT ![c].at = "installing", ![c].bytes = stored[launch[c].rev]]
    /\ UNCHANGED <<row, stored, whole, version, producer, pins, exporting, deciding,
                   files, holder, job, clone, pub, view, life>>

\* install_attachments: created exclusively, in order; or a refusal on the way.
InstallsFile(c, f) ==
    /\ daemon = "up" /\ launch[c].at = "installing"
    /\ clone[c][f] = "absent" /\ \A g \in Files : g < f => clone[c][g] # "absent"
    /\ \/ clone' = [clone EXCEPT ![c][f] = launch[c].bytes] /\ UNCHANGED launch
       \/ SpawnFails(c)
    /\ UNCHANGED <<row, stored, whole, version, producer, pins, exporting, deciding,
                   files, holder, job, pub, view, life>>

\* _verify_installed: the bytes on disk against the accepted manifest.
MatchesManifest(c) == \A f \in Files : clone[c][f] = "good"

\* The last write is followed by the re-read; then the container and the run.
VerifiesInstalled(c) ==
    /\ daemon = "up" /\ launch[c].at = "installing"
    /\ \A f \in Files : clone[c][f] # "absent"
    /\ IF MatchesManifest(c)
         THEN launch' = [launch EXCEPT ![c].at = "running", ![c].bytes = "none"]
              /\ UNCHANGED clone
         ELSE SpawnFails(c)
    /\ UNCHANGED <<row, stored, whole, version, producer, pins, exporting, deciding,
                   files, holder, job, pub, view, life>>

\* Cleanup of the consumer: archived, its clone gone, its references kept.
CleanUpConsumer(c) ==
    /\ daemon = "up" /\ launch[c].at \in {"running", "failed"}
    /\ launch' = [launch EXCEPT ![c].at = "archived", ![c].bytes = "none"]
    /\ clone' = [clone EXCEPT ![c] = [f \in Files |-> "absent"]]
    /\ UNCHANGED <<row, stored, whole, version, producer, pins, exporting, deciding,
                   files, holder, job, pub, view, life>>

\* purge_task of the consumer: release_consumer_references_on moves the
\* producers' versions, and they are published after the commit.
PurgeConsumer(c) ==
    /\ daemon = "up" /\ launch[c].at = "archived"
    /\ launch' = [launch EXCEPT ![c].at = "purged"]
    /\ pins' = {p \in pins : p[1] # c}
    /\ Bump /\ ThreadPublishes
    /\ UNCHANGED <<row, stored, whole, producer, exporting, deciding, files, holder,
                   job, clone, view, life>>

-----------------------------------------------------------------------------
(* The workspace and its other users                                        *)

\* Edits count only from the first file seen to the last one read.
Edit(f) ==
    /\ Reading /\ writes < MaxWrites /\ writes' = writes + 1
    /\ \/ ws' = [ws EXCEPT ![f].mtime = @ + 1]
       \/ ws' = [ws EXCEPT ![f].ino = @ + 1]
    /\ UNCHANGED <<row, stored, whole, version, producer, pins, exporting, deciding,
                   holder, job, tasksOut, pub, view, life>>

OtherTakes ==
    /\ daemon = "up" /\ Admitted /\ holder' = "other"
    /\ UNCHANGED <<row, stored, whole, version, producer, pins, exporting, deciding,
                   files, job, tasksOut, pub, view, life>>

OtherLeaves ==
    /\ holder = "other" /\ holder' = "none"
    /\ UNCHANGED <<row, stored, whole, version, producer, pins, exporting, deciding,
                   files, job, tasksOut, pub, view, life>>

-----------------------------------------------------------------------------
(* The daemon                                                               *)

\* MUTANT: a cancelled capture leaves its hold at once.
Shutdown_Abandons ==
    /\ daemon = "up" /\ LoopFree /\ stops < MaxStops /\ stops' = stops + 1
    /\ daemon' = "stopping"
    /\ Reading /\ job' = [job EXCEPT !.cancelled = TRUE] /\ holder' = "none"
    /\ UNCHANGED <<row, version, pub, stored, whole, producer, pins, exporting, deciding,
                   files, tasksOut, view>>

\* ResultManager.shutdown cancels the job: one that never ran leaves its row,
\* one awaiting git fails at once, one awaiting its reader waits for it.
Shutdown ==
    /\ daemon = "up" /\ LoopFree /\ stops < MaxStops /\ stops' = stops + 1
    /\ daemon' = "stopping"
    /\ \/ job.at \in {"idle", "created"} /\ job' = Idle /\ UNCHANGED <<row, version, holder, pub>>
       \/ job.at = "proving" /\ CaptureFails
       \/ Reading /\ job' = [job EXCEPT !.cancelled = TRUE]
          /\ UNCHANGED <<row, version, holder, pub>>
    /\ UNCHANGED <<stored, whole, producer, pins, exporting, deciding, files, tasksOut, view>>

\* MUTANT: an interrupted capture is left to the operator.
Restore_Skipped == UNCHANGED <<row, version>>

\* reconcile_interrupted_captures
Restore == IF \E r \in Revs : Capturing(r)
             THEN /\ row' = [r \in Revs |-> IF Capturing(r) THEN [row[r] EXCEPT !.state = "failed"]
                                            ELSE row[r]]
                  /\ Bump
             ELSE UNCHANGED <<row, version>>

\* What a process holds only in memory.
MemoryLost ==
    /\ job' = Idle /\ holder' = "none" /\ deciding' = {}
    /\ pub' = [p \in Publishers |-> Quiet]

\* shutdown's last act, when the jobs are gathered.
Stopped ==
    /\ daemon = "stopping" /\ job.at = "idle"
    /\ daemon' = "down" /\ Restore /\ MemoryLost
    /\ UNCHANGED <<stored, whole, producer, pins, exporting, files, tasksOut, view, stops>>

Kill ==
    /\ daemon \in {"up", "stopping"} /\ stops < MaxStops /\ stops' = stops + 1
    /\ daemon' = "down" /\ MemoryLost
    /\ UNCHANGED <<row, stored, whole, version, producer, pins, exporting, files, tasksOut, view>>

\* The next process: restore before any request is served, reconcile_startup
\* for a spawn that never completed, and a snapshot for the client.
Restart ==
    /\ daemon = "down" /\ daemon' = "up" /\ Restore
    /\ launch' = [c \in Consumers |->
         IF launch[c].at \in {"accepted", "verified", "installing"}
           THEN [launch[c] EXCEPT !.at = "failed", !.bytes = "none"]
         ELSE IF launch[c].at = "previewed" THEN [at |-> "none", rev |-> 0, bytes |-> "none"]
         ELSE launch[c]]
    /\ UNCHANGED <<stored, whole, producer, pins, exporting, deciding, files, holder,
                   job, clone, pub, stops>>
    /\ view' = [doc |-> Doc', version |-> version', asOf |-> version']

-----------------------------------------------------------------------------

\* What the daemon does once it has been asked to.
Progress == \/ JobBegins \/ Collect \/ WalkerRefuses \/ OpenFile \/ ReadFile
            \/ CancelledReaderEnds \/ FinishCapture
            \/ \E p \in Publishers : ReadsRows(p) \/ ReadsVersion(p)
            \/ \E t \in Threads : Delivered(t)
            \/ Stopped \/ Restart

Decisions == \E r \in Revs :
    \/ OpenCapture(r) \/ VerifiesBundle(r) \/ Accept(r) \/ Purge(r)
    \/ Damage(r) \/ FindsDamage(r) \/ ExportStarts(r) \/ ExportSettles(r)

Launches == \E c \in Consumers :
    \/ \E r \in Revs : Preview(c, r)
    \/ AcceptLaunch(c) \/ VerifiesPinned(c) \/ ReadsPayload(c)
    \/ \E f \in Files : InstallsFile(c, f)
    \/ VerifiesInstalled(c) \/ CleanUpConsumer(c) \/ PurgeConsumer(c)

World == \/ CleanUpProducer \/ PurgeProducer \/ OtherTakes \/ OtherLeaves
         \/ Shutdown \/ Kill \/ \E f \in Files : Edit(f)

Next == Progress \/ Decisions \/ Launches \/ World

Spec == Init /\ [][Next]_vars

\* The event loop runs, the reader thread returns within its deadline, and
\* the daemon is started again.
FairSpec == Spec /\ WF_vars(Progress)

-----------------------------------------------------------------------------
(* Properties                                                               *)

Holding == {"accepted", "verified", "installing", "running", "failed", "archived"}

\* While a task launched from a revision exists, in whatever state, the
\* revision's bytes are retained: neither a purge of the revision nor one of
\* the producing task takes them (ADR-0035).
PinnedIsRetained == \A c \in Consumers :
    launch[c].at \in Holding => /\ Retained(launch[c].rev)
                                /\ stored[launch[c].rev] # "none"

\* The page catches up.  Once nothing more is being published the client shows
\* the results, pins and exports as they are, in whatever order the event loop
\* and the request threads delivered their documents and wherever the daemon
\* was stopped between a commit and its publication: unless the document shown
\* carries a version newer than the one its rows were read at.
PageCatchesUp ==
    /\ daemon = "up" /\ producer # "deleted"
    /\ \A p \in Publishers : pub[p].at = "idle"
    /\ view.asOf = view.version
    => view.doc = Doc

\* A ready bundle is what the workspace held at one instant: files edited or
\* replaced while they are read one by one never make a mixture.
CaptureIsSnapshot == \A r \in Revs : Retained(r) => r \in whole

\* While the reader thread is in the clone the capture holds the workspace,
\* so that no cleanup deletes the clone under it: also when the job it works
\* for has been cancelled.
ReadingIsHeld == Reading => holder = "capture"

\* Every capture ends, through refusals, cancellation and stops: none stays
\* capturing, which would refuse every later capture of the task.
CaptureEnds == \A r \in Revs : Capturing(r) ~> ~Capturing(r)

==============================================================================
