----------------------------- MODULE ResultExport -----------------------------
(***************************************************************************)
(* Checkout export: an approved revision's files installed, create-only,   *)
(* into a directory Ompire does not own.  Every export here is of one      *)
(* retained revision into one checkout root, so that they meet.            *)
(*                                                                         *)
(* The event loop owns a job per export; the installation itself runs on a *)
(* worker thread, which a cancelled job does not stop.  The operator edits *)
(* the checkout at any moment, and the root may be unreachable for a time. *)
(*                                                                         *)
(* Sources: result_exports.py, registry/result_exports.py.                 *)
(***************************************************************************)
EXTENDS Naturals, FiniteSets

CONSTANTS
    Exports,    \* the confirmations: one request id each
    FileCount,  \* the revision's files, installed in the order of their paths
    Surprises,  \* which of Troubles may happen
    Stops,      \* how the daemon may stop: "killed", "shutdown"
    MaxStops,   \* bound on the stops
    MaxEdits    \* bound on the operator's changes to the checkout

Troubles ==
    {"damaged",        \* the retained bytes fail verification
     "unstaged",       \* the staging directory or a file cannot be staged
     "ancestor",       \* a parent directory is not the approved one
     "uninstallable",  \* the rename fails otherwise than by an existing file,
                       \* or the renamed file cannot be opened again
     "hidden",         \* a destination cannot be inspected
     "reused",         \* the operator's file gets the number of a freed inode
     "stuck"}          \* the staging directory cannot be removed

ASSUME ExportConstants ==
    /\ FileCount \in Nat \ {0}
    /\ Surprises \subseteq Troubles
    /\ Stops \subseteq {"killed", "shutdown"}
    /\ MaxStops \in Nat /\ MaxEdits \in Nat
    /\ {"operator", "nobody"} \cap Exports = {}

Files == 1 .. FileCount

VARIABLES
    daemon,     \* "up", "stopping", "down", "starting"
    root,       \* the registered checkout is the approved directory
    place,      \* file -> whose inode number is there, and whether the bytes match
    retained,   \* the revision's bytes are in the store
    row,        \* the journal: export -> its row and its file rows
    job,        \* export -> the event loop's task
    worker,     \* export -> the installing thread
    staging,    \* exports whose staging directory exists
    installed,  \* history: export -> the files it renamed into place
    observed,   \* a reconciliation read from the checkout and not yet recorded
    stops,
    edits

checkout == <<root, place, edits>>
thread   == <<worker, staging, installed>>
process  == <<daemon, stops>>
aside    == <<process, retained, observed>>
vars == <<daemon, root, place, retained, row, job, worker, staging, installed, observed,
          stops, edits>>

Absent  == [owner |-> "nobody", same |-> FALSE]
Places  == {Absent} \cup [owner : Exports \cup {"operator"}, same : BOOLEAN]
Nothing == [export |-> "nobody"]
NoRow   == [state |-> "none"]
Idle    == [pc |-> "none"]

Delivered == {"created", "already-identical"}
Uncertain == {"pending", "unknown"}
Outcomes  == Delivered \cup Uncertain \cup {"not-installed"}

Known(e)    == row[e].state # "none"
Selected(e) == DOMAIN row[e].outcome
Active(e)   == row[e].state \in {"running", "unresolved"}
Settled(e)  == row[e].state \in {"completed", "incomplete"}

-----------------------------------------------------------------------------
(* Admission.                                                               *)

Init ==
    /\ daemon = "up"
    /\ root = TRUE
    /\ place \in [Files -> {p \in Places : p.owner \in {"nobody", "operator"}}]
    /\ retained = TRUE
    /\ row = [e \in Exports |-> NoRow]
    /\ job = [e \in Exports |-> "none"]
    /\ worker = [e \in Exports |-> Idle]
    /\ staging = {}
    /\ installed = [e \in Exports |-> {}]
    /\ observed = Nothing
    /\ stops = 0
    /\ edits = 0

Occupied(f) == place[f] # Absent
Conflict(f) == Occupied(f) /\ ~place[f].same
Classification(f) == IF Occupied(f) THEN "identical" ELSE "create"

(* The confirmed preview is the one the daemon derives again: no selected   *)
(* destination conflicts, the revision is readable and the root is free.    *)
Start(e) ==
    /\ daemon = "up"
    /\ row[e] = NoRow
    /\ root /\ retained
    /\ \A other \in Exports : ~Active(other)
    /\ \E selection \in (SUBSET Files) \ {{}} :
        /\ \A f \in selection : ~Conflict(f)
        /\ row' = [row EXCEPT ![e] =
               [state |-> "running",
                approved |-> [f \in selection |-> Classification(f)],
                outcome |-> [f \in selection |-> "pending"],
                staged |-> {}, acknowledged |-> FALSE]]
    /\ job' = [job EXCEPT ![e] = "scheduled"]
    /\ UNCHANGED <<aside, checkout, thread>>

(* finish_export establishes the state from the recorded outcomes: the      *)
(* caller knows its own, and a shutdown may have recorded others meanwhile. *)
FinishState_AsClaimed(e, claimed, leftover) ==
    IF claimed = "completed" /\ leftover THEN "incomplete" ELSE claimed
FinishState(e, claimed, leftover) ==
    LET outcomes == {row[e].outcome[f] : f \in Selected(e)} IN
    IF "unknown" \in outcomes THEN "unresolved"
    ELSE IF claimed = "completed" /\ (~(outcomes \subseteq Delivered) \/ leftover)
         THEN "incomplete"
         ELSE claimed

Finish(e, claimed, leftover) ==
    row' = [row EXCEPT ![e].state = FinishState(e, claimed, leftover)]

-----------------------------------------------------------------------------
(* The job and its worker thread.                                           *)

At(e, pc)   == worker[e].pc = pc
Earliest(todo) == CHOOSE f \in todo : \A g \in todo : f <= g
Current(e)  == Earliest(worker[e].todo)
Go(e, pc, todo, fate) ==
    worker' = [worker EXCEPT ![e] = [pc |-> pc, todo |-> todo, fate |-> fate]]
Unwinds(e, fate) == Go(e, "unwinding", {}, fate)

Journals(e, f, outcome) == row' = [row EXCEPT ![e].outcome[f] = outcome]

Begin(e) ==
    /\ job[e] = "scheduled"
    /\ retained
    /\ job' = [job EXCEPT ![e] = "awaiting"]
    /\ Go(e, "opening", {}, "ran")
    /\ UNCHANGED <<aside, checkout, row, staging, installed>>

(* The retained bytes are read through the verified path, which may refuse. *)
BytesRefused(e) ==
    /\ job[e] = "scheduled"
    /\ ~retained \/ "damaged" \in Surprises
    /\ Finish(e, "unresolved", FALSE)
    /\ job' = [job EXCEPT ![e] = "none"]
    /\ UNCHANGED <<aside, checkout, thread>>

RootReplaced(e) ==
    /\ At(e, "opening")
    /\ ~root
    /\ Go(e, "raised", {}, "refused")
    /\ UNCHANGED <<aside, checkout, row, job, staging, installed>>

Creates(e) == {f \in Selected(e) : row[e].approved[f] = "create"}

(* The staging directory is not made; or made and then not opened or         *)
(* recorded, when no `finally` knows of it; or the probe in it fails.       *)
StagingFails(e) ==
    /\ At(e, "opening")
    /\ root
    /\ "unstaged" \in Surprises
    /\ \/ Go(e, "raised", {}, "refused") /\ UNCHANGED staging
       \/ Go(e, "raised", {}, "broke") /\ staging' = staging \cup {e}
       \/ /\ \E fate \in {"refused", "broke"} : Unwinds(e, fate)
          /\ staging' = staging \cup {e}
    /\ UNCHANGED <<aside, checkout, row, job, installed>>

CreateStaging(e) ==
    /\ At(e, "opening")
    /\ root
    /\ staging' = staging \cup {e}
    /\ IF Creates(e) = {} THEN Go(e, "installing", Selected(e), "ran")
                          ELSE Go(e, "staging", Creates(e), "ran")
    /\ UNCHANGED <<aside, checkout, row, job, installed>>

StageFile(e) ==
    /\ At(e, "staging")
    /\ LET rest == worker[e].todo \ {Current(e)} IN
        /\ row' = [row EXCEPT ![e].staged = @ \cup {Current(e)}]
        /\ IF rest = {} THEN Go(e, "installing", Selected(e), "ran")
                        ELSE Go(e, "staging", rest, "ran")
    /\ UNCHANGED <<aside, checkout, job, staging, installed>>

(* What the thread ends by: "ran", every file was delivered; "stopped", one *)
(* was not; "refused", an ExportError; "broke", any other exception.        *)
StageFails(e) ==
    /\ At(e, "staging")
    /\ "unstaged" \in Surprises
    /\ \E fate \in {"refused", "broke"} : Unwinds(e, fate)
    /\ UNCHANGED <<aside, checkout, row, job, staging, installed>>

Approved(e, class) == At(e, "installing") /\ row[e].approved[Current(e)] = class

GoesOn(e) ==
    LET rest == worker[e].todo \ {Current(e)} IN
    IF rest = {} THEN Unwinds(e, "ran") ELSE Go(e, "installing", rest, "ran")

VerifyIdentical(e) ==
    /\ Approved(e, "identical")
    /\ \/ /\ place[Current(e)].same
          /\ Journals(e, Current(e), "already-identical")
          /\ GoesOn(e)
       \/ /\ ~place[Current(e)].same \/ "hidden" \in Surprises
          /\ Journals(e, Current(e), "not-installed")
          /\ Unwinds(e, "stopped")
    /\ UNCHANGED <<aside, checkout, job, staging, installed>>

(* renameat2(RENAME_NOREPLACE): the existence check and the move are one.   *)
MayRename(e) == ~Occupied(Current(e))

InstallOne(e) ==
    /\ Approved(e, "create")
    /\ MayRename(e)
    /\ place' = [place EXCEPT ![Current(e)] = [owner |-> e, same |-> TRUE]]
    /\ installed' = [installed EXCEPT ![e] = @ \cup {Current(e)}]
    /\ Go(e, "renamed", worker[e].todo, "ran")
    /\ UNCHANGED <<aside, root, edits, row, job, staging>>

NotInstalled(e) ==
    /\ Approved(e, "create")
    /\ Occupied(Current(e)) \/ "ancestor" \in Surprises
    /\ Journals(e, Current(e), "not-installed")
    /\ Unwinds(e, "stopped")
    /\ UNCHANGED <<aside, checkout, job, staging, installed>>

RenameFails(e) ==
    /\ Approved(e, "create")
    /\ "uninstallable" \in Surprises
    /\ \E fate \in {"refused", "broke"} : Unwinds(e, fate)
    /\ UNCHANGED <<aside, checkout, row, job, staging, installed>>

RecordCreated(e) ==
    /\ At(e, "renamed")
    /\ Occupied(Current(e))
    /\ Journals(e, Current(e), "created")
    /\ GoesOn(e)
    /\ UNCHANGED <<aside, checkout, job, staging, installed>>

(* The file is opened again to be recorded; the operator may have moved it. *)
Vanished(e) ==
    /\ At(e, "renamed")
    /\ ~Occupied(Current(e)) \/ "uninstallable" \in Surprises
    /\ Unwinds(e, "broke")
    /\ UNCHANGED <<aside, checkout, row, job, staging, installed>>

(* The `finally` of _install.                                               *)
Unwind(e) ==
    /\ At(e, "unwinding")
    /\ \/ staging' = staging \ {e}
       \/ "stuck" \in Surprises /\ UNCHANGED staging
    /\ Go(e, IF worker[e].fate \in {"ran", "stopped"} THEN "finishing"
                                                      ELSE "raised",
          {}, worker[e].fate)
    /\ UNCHANGED <<aside, checkout, row, job, installed>>

FinishExport(e) ==
    /\ At(e, "finishing")
    /\ Finish(e, IF worker[e].fate = "ran" THEN "completed" ELSE "incomplete",
              e \in staging)
    /\ worker' = [worker EXCEPT ![e] = Idle]
    /\ job' = [job EXCEPT ![e] = "none"]
    /\ UNCHANGED <<aside, checkout, staging, installed>>

(* The thread's exception reaches its job, unless that was cancelled.       *)
Catches(e) == job[e] = "awaiting"

Raised(e) ==
    /\ At(e, "raised")
    /\ IF Catches(e)
       THEN Finish(e, IF worker[e].fate = "refused" THEN "incomplete"
                                                    ELSE "unresolved", FALSE)
       ELSE UNCHANGED row
    /\ worker' = [worker EXCEPT ![e] = Idle]
    /\ job' = [job EXCEPT ![e] = "none"]
    /\ UNCHANGED <<aside, checkout, staging, installed>>

Install(e) ==
    \/ Begin(e) \/ BytesRefused(e)
    \/ RootReplaced(e) \/ CreateStaging(e) \/ StagingFails(e)
    \/ StageFile(e) \/ StageFails(e)
    \/ VerifyIdentical(e) \/ InstallOne(e) \/ NotInstalled(e) \/ RenameFails(e)
    \/ RecordCreated(e) \/ Vanished(e)
    \/ Unwind(e) \/ FinishExport(e) \/ Raised(e)

-----------------------------------------------------------------------------
(* Reconciliation: read the checkout, then record what was read.            *)

PendingIn(e)   == {f \in Selected(e) : row[e].outcome[f] = "pending"}
UncertainIn(e) == {f \in Selected(e) : row[e].outcome[f] \in Uncertain}

(* Only the staged inode at its destination establishes the rename.  The    *)
(* code knows it by its number, which may have been freed and used again.   *)
ObserveEffect_Bytes(e, f) ==
    IF f \notin row[e].staged \/ ~Occupied(f) THEN "not-installed"
    ELSE IF place[f].same THEN "created"
    ELSE "unknown"
ObserveEffect(e, f) ==
    IF f \notin row[e].staged \/ ~Occupied(f) THEN "not-installed"
    ELSE IF place[f].owner = e THEN "created"
    ELSE "unknown"

(* What cannot be inspected is unknown, unless it was never staged.          *)
Uninspected(e, f) == IF f \in row[e].staged THEN "unknown" ELSE "not-installed"

Classify(e, seen) ==
    LET outcomes == {IF f \in DOMAIN seen THEN seen[f] ELSE row[e].outcome[f] :
                        f \in Selected(e)}
    IN  IF "unknown" \in outcomes THEN "unresolved"
        ELSE IF outcomes \subseteq Delivered THEN "completed"
        ELSE "incomplete"

(* The files of S, some of which cannot be inspected.                        *)
Sees(e, S) ==
    \E hidden \in IF root THEN SUBSET S ELSE {S} :
        LET seen == [f \in S |-> IF f \in hidden THEN Uninspected(e, f)
                                                 ELSE ObserveEffect(e, f)]
        IN  /\ root /\ "hidden" \notin Surprises => hidden = {}
            /\ observed' = [export |-> e, seen |-> seen, state |-> Classify(e, seen)]

(* restore(), at startup and at the end of shutdown.                        *)
Reconcile(e) ==
    /\ daemon \in {"starting", "stopping"}
    /\ row[e].state = "running"
    /\ observed = Nothing
    /\ Sees(e, PendingIn(e))
    /\ UNCHANGED <<process, checkout, thread, retained, row, job>>

(* The operator's request: an incomplete export with files nobody observed  *)
(* is accepted as well as an unresolved one.                                *)
Recheck(e) ==
    /\ daemon = "up"
    /\ row[e].state \in {"unresolved", "incomplete"}
    /\ UncertainIn(e) # {}
    /\ root
    /\ observed = Nothing
    /\ Sees(e, UncertainIn(e))
    /\ UNCHANGED <<process, checkout, thread, retained, row, job>>

(* The unique index over active exports of one root.                        *)
RootTaken_Running(e, state) ==
    /\ state = "running"
    /\ \E other \in Exports \ {e} : Active(other)
RootTaken(e, state) ==
    /\ state \in {"running", "unresolved"}
    /\ \E other \in Exports \ {e} : Active(other)

RecordReconciliation ==
    /\ observed # Nothing
    /\ LET e == observed.export IN
       row' = IF RootTaken(e, observed.state) THEN row
              ELSE [row EXCEPT
                        ![e].outcome = [f \in Selected(e) |->
                            IF f \in DOMAIN observed.seen THEN observed.seen[f]
                                                          ELSE @[f]],
                        ![e].state = observed.state]
    /\ observed' = Nothing
    /\ UNCHANGED <<process, checkout, thread, retained, job>>

Acknowledge(e) ==
    /\ daemon = "up"
    /\ row[e].state = "unresolved"
    /\ row' = [row EXCEPT ![e].state = "incomplete", ![e].acknowledged = TRUE]
    /\ UNCHANGED <<aside, checkout, thread, job>>

(* purge_result, refused while an export of the revision is unfinished.     *)
PurgeRefused == \E e \in Exports : Active(e)

PurgeResult ==
    /\ daemon = "up"
    /\ retained
    /\ ~PurgeRefused
    /\ retained' = FALSE
    /\ UNCHANGED <<process, checkout, thread, row, job, observed>>

-----------------------------------------------------------------------------
(* The process: shutdown cancels the jobs and reconciles, but the threads   *)
(* run on until they end or the process is killed.                          *)

CanStop(how) == how \in Stops /\ stops < MaxStops

Shutdown ==
    /\ daemon = "up"
    /\ CanStop("shutdown")
    /\ observed = Nothing
    /\ daemon' = "stopping"
    /\ stops' = stops + 1
    /\ job' = [e \in Exports |-> "none"]
    /\ UNCHANGED <<checkout, thread, retained, row, observed>>

Dies ==
    /\ daemon' = "down"
    /\ job' = [e \in Exports |-> "none"]
    /\ worker' = [e \in Exports |-> Idle]
    /\ observed' = Nothing
    /\ UNCHANGED <<checkout, retained, row, staging, installed>>

Killed ==
    /\ daemon \in {"up", "starting", "stopping"}
    /\ CanStop("killed")
    /\ stops' = stops + 1
    /\ Dies

Exits ==
    /\ daemon = "stopping"
    /\ observed = Nothing
    /\ \A e \in Exports : row[e].state # "running" /\ At(e, "none")
    /\ UNCHANGED stops
    /\ Dies

Boot ==
    /\ daemon = "down"
    /\ daemon' = "starting"
    /\ UNCHANGED <<stops, checkout, thread, retained, row, job, observed>>

Serve ==
    /\ daemon = "starting"
    /\ observed = Nothing
    /\ \A e \in Exports : row[e].state # "running"
    /\ daemon' = "up"
    /\ UNCHANGED <<stops, checkout, thread, retained, row, job, observed>>

-----------------------------------------------------------------------------
(* The operator, in the checkout.                                           *)

Touches == edits < MaxEdits /\ edits' = edits + 1
Elsewhere == <<process, thread, retained, row, job, observed>>

(* The exports whose staged inode for f is free for another file to use.    *)
Freed(f) ==
    {e \in Exports : /\ Known(e) /\ f \in row[e].staged
                     /\ place[f].owner # e
                     /\ f \in installed[e] \/ e \notin staging}

WriteFile(f) ==
    /\ Touches
    /\ \E same \in BOOLEAN, owner \in {"operator"} \cup Freed(f) :
        /\ owner \in Exports => "reused" \in Surprises
        /\ place' = [place EXCEPT ![f] = [owner |-> owner, same |-> same]]
    /\ UNCHANGED <<root, Elsewhere>>

EditInPlace(f) ==
    /\ Touches
    /\ Occupied(f)
    /\ place' = [place EXCEPT ![f].same = ~@]
    /\ UNCHANGED <<root, Elsewhere>>

RemoveFile(f) ==
    /\ Touches
    /\ Occupied(f)
    /\ place' = [place EXCEPT ![f] = Absent]
    /\ UNCHANGED <<root, Elsewhere>>

MoveRoot ==
    /\ Touches
    /\ root' = ~root
    /\ UNCHANGED <<place, Elsewhere>>

Operator ==
    \/ MoveRoot
    \/ \E f \in Files : WriteFile(f) \/ EditInPlace(f) \/ RemoveFile(f)

-----------------------------------------------------------------------------
Next ==
    \/ \E e \in Exports :
        Start(e) \/ Install(e) \/ Reconcile(e) \/ Recheck(e) \/ Acknowledge(e)
    \/ RecordReconciliation
    \/ PurgeResult
    \/ Shutdown \/ Killed \/ Exits \/ Boot \/ Serve
    \/ Operator

Spec == Init /\ [][Next]_vars

-----------------------------------------------------------------------------
(* Properties.                                                              *)

Rows ==
    [state : {"running", "completed", "incomplete", "unresolved"},
     approved : UNION {[s -> {"create", "identical"}] : s \in SUBSET Files},
     outcome : UNION {[s -> Outcomes] : s \in SUBSET Files},
     staged : SUBSET Files, acknowledged : BOOLEAN]
Threads ==
    {Idle} \cup
    [pc : {"opening", "staging", "installing", "renamed", "unwinding",
           "finishing", "raised"},
     todo : SUBSET Files, fate : {"ran", "stopped", "refused", "broke"}]

(* Every variable keeps its type, a row's outcomes are those of its approved *)
(* files, and a thread that installs has a file to install.                  *)
TypeOK ==
    /\ daemon \in {"up", "stopping", "down", "starting"}
    /\ root \in BOOLEAN /\ retained \in BOOLEAN
    /\ place \in [Files -> Places]
    /\ row \in [Exports -> {NoRow} \cup Rows]
    /\ job \in [Exports -> {"none", "scheduled", "awaiting"}]
    /\ worker \in [Exports -> Threads]
    /\ installed \in [Exports -> SUBSET Files]
    /\ \A e \in Exports :
        /\ Known(e) => DOMAIN row[e].approved = Selected(e)
        /\ worker[e].pc \in {"staging", "installing", "renamed"} =>
               worker[e].todo \in (SUBSET Selected(e)) \ {{}}
    /\ staging \subseteq Exports
    /\ observed = Nothing \/ observed.export \in Exports
    /\ stops \in 0 .. MaxStops /\ edits \in 0 .. MaxEdits

(* The root has one owner: a thread that writes into it belongs to the one   *)
(* export that is running or unresolved, whatever a recheck, an              *)
(* acknowledgement or a restart did to the others meanwhile.                 *)
RootHasOneOwner ==
    /\ \A e1, e2 \in Exports : Active(e1) /\ Active(e2) => e1 = e2
    /\ \A e \in Exports :
        worker[e] # Idle /\ daemon = "up" => row[e].state = "running"

(* A file recorded as created was renamed into place by this very export:    *)
(* matching bytes, a later edit or another export's file never count.        *)
CreatedHappened ==
    \A e \in Exports : Known(e) =>
        \A f \in Selected(e) : row[e].outcome[f] = "created" => f \in installed[e]

(* Not knowing never becomes a conclusion.  A completed export delivered     *)
(* every approved file, and while an outcome is unknown the export is        *)
(* unresolved, unless an operator acknowledged it: whichever of the thread   *)
(* and a reconciliation beside it, or after a restart, records last, and     *)
(* however old what the reconciliation read.                                 *)
ConcludesFromKnown ==
    \A e \in Exports : Known(e) =>
        LET outcomes == {row[e].outcome[f] : f \in Selected(e)} IN
        /\ row[e].state = "completed" => outcomes \subseteq Delivered
        /\ "unknown" \in outcomes =>
               row[e].state = "unresolved" \/ row[e].acknowledged
=============================================================================
