---------------------------- MODULE DeliveryJournal ----------------------------
(***************************************************************************)
(* The delivery journal of one workflow-authorized delivery: the write-    *)
(* ahead attempts at its privileged effects (sign, push, pull request), the*)
(* run's coroutine that performs them, the operator's confirmations,       *)
(* retries and reconciliation decisions, and startup.                      *)
(*                                                                         *)
(* Sources: ship.py, registry/ships.py, and the delivery steps of          *)
(* workflows.py and registry/workflows.py.                                 *)
(*                                                                         *)
(* The grant is on record when the model starts.  What Git and GitHub hold *)
(* is the set of attempts whose effect took place; what the daemon can see *)
(* of it is an observation that may always be "unknown": an unreadable     *)
(* remote, a foreign head, an incomplete search, a lost store.             *)
(***************************************************************************)
EXTENDS Naturals, Sequences, FiniteSets

CONSTANTS
    Chain,        \* the authorized actions: "commit", "push", "pr"
    Requests,     \* reconcile requests that may be in flight together
    Conditions,   \* what the journal is run under: decisions operators take, Hazards
    MaxActions,   \* bound on journal attempts
    MaxAttempts,  \* bound on the run's step attempts
    MaxCrashes    \* bound on restarts

Hazards ==
    {"late",         \* a client gives up and the remote still performs the call
     "overlap",      \* a decision is taken about an action being performed
     "retry",        \* the run's generic retry of a paused step
     "uninstalled",  \* a signed result cannot be installed in the task clone
     "unverified"}   \* the remote cannot be read after a successful push

ASSUME ConstantsAssumption ==
    /\ Chain \in Seq({"commit", "push", "pr"})
    /\ \A j, k \in DOMAIN Chain : Chain[j] = Chain[k] => j = k
    /\ Conditions \subseteq [decisions : SUBSET {"recheck", "adopt", "retry", "abandon"},
                             happens : SUBSET Hazards]
    /\ MaxActions \in Nat /\ MaxAttempts \in Nat /\ MaxCrashes \in Nat

VARIABLES
    actions,      \* delivery_actions rows, oldest first
    disposition,  \* deliveries.disposition
    landed,       \* attempts whose effect took place
    calls,        \* attempts whose call is still outstanding
    run,          \* the run's latest attempt: chain position, seq, status
    at,           \* where the run's coroutine is; "none" when nothing drives it
    cur,          \* the attempt the coroutine performs, 0 for none
    settled,      \* the coroutine's step was settled
    blocked,      \* the workspace guard's block of this task
    asked,        \* request -> the decision it carries, or Idle
    phase,        \* "serving", or "restoring" during startup
    todo,         \* attempts restore() has still to classify
    recover,      \* the run was running when the daemon stopped
    crashes,
    may           \* the condition this behaviour is under

journal == <<actions, disposition>>
world   == <<landed, calls>>
process == <<at, cur, settled>>
startup == <<phase, todo, recover, crashes, may>>
vars    == <<journal, world, run, process, blocked, asked, startup>>

Open == {"executing", "needs_reconciliation"}
Idle == [decision |-> "none", action |-> 0, seen |-> "none"]

Kind(i)       == actions[i].kind
Having(k, ps) == {i \in DOMAIN actions : Kind(i) = k /\ actions[i].phase \in ps}
Succeeded(k)  == Having(k, {"succeeded"}) # {}

\* DeliveryRecord.remaining_actions, as positions in the chain.
Remaining == {n \in DOMAIN Chain : ~Succeeded(Chain[n])}

\* A signature is found under the attempt's own ref.
Signed(i) == i \in landed

\* A push is found at the destination and a pull request by its marker,
\* whichever attempt made it.
Published(i) == \E j \in landed : Kind(j) = Kind(i)

Happened(i) == IF Kind(i) = "commit" THEN Signed(i) ELSE Published(i)

\* _observe: the specific result the attempt intended, read and never written.
\* A signature that does not verify ("partial") and a destination that holds
\* what nobody authorized ("conflict") are "unknown" here: restore, reconcile
\* and the classifiers tell "completed", "not-executed" and the rest apart,
\* and no finer.
Observations(i) ==
    {"unknown", IF Happened(i) THEN "completed" ELSE "not-executed"}

WithPhase(i, p) == [actions EXCEPT ![i].phase = p]

Init ==
    /\ actions = <<>> /\ disposition = "authorized"
    /\ landed = {} /\ calls = {}
    /\ run = [pos |-> 1, seq |-> 1, status |-> "running"]
    /\ at = "entering" /\ cur = 0 /\ settled = FALSE
    /\ blocked = FALSE /\ asked = [r \in Requests |-> Idle]
    /\ phase = "serving" /\ todo = {} /\ recover = FALSE /\ crashes = 0
    /\ may \in Conditions

-----------------------------------------------------------------------------
\* The coroutine: perform_action and the three _run_ functions.

Moves(from, to) == at = from /\ at' = to

\* perform_action raises, or the workspace is busy or blocked: nothing is done.
StepRefused ==
    /\ Moves("entering", "leaving")
    /\ UNCHANGED <<journal, world, run, cur, settled, blocked, asked, startup>>

\* The run's action is the first of those remaining, and the hold is taken.
StepAdmitted ==
    /\ ~blocked
    /\ run.pos \in Remaining /\ \A n \in Remaining : run.pos <= n
    /\ Moves("entering", "checking")
    /\ UNCHANGED <<journal, world, run, cur, settled, blocked, asked, startup>>

CheckStops(k) ==
    /\ Moves("checking", "leaving")
    /\ Chain[run.pos] = k
    /\ UNCHANGED <<actions, world, run, cur, settled, blocked, asked, startup>>

\* The reviewed content is gone, or no key can sign.
CommitCheckFails == CheckStops("commit") /\ disposition' = "blocked"

\* The range may not be published; or the destination cannot be read before
\* the push, and the exception leaves the disposition alone.
PushCheckFails == CheckStops("push") /\ disposition' \in {"blocked", disposition}

\* The range may not be published, or GitHub's preflight refuses.
PrCheckFails == CheckStops("pr") /\ disposition' = "blocked"

\* prepare_action: live attempts of this step, and attempts of this kind that
\* stand in the way.
OfStep == {i \in DOMAIN actions : actions[i].step = run.seq /\ actions[i].phase # "failed"}
Prepared == {i \in OfStep : Kind(i) = Chain[run.pos] /\ actions[i].phase = "prepared"}

InTheWay == OfStep \cup Having(Chain[run.pos], Open \cup {"succeeded"})

PrepareReuses ==
    /\ Moves("checking", "prepared")
    /\ cur' \in Prepared
    /\ UNCHANGED <<journal, world, run, settled, blocked, asked, startup>>

PrepareAppends ==
    /\ Moves("checking", "prepared")
    /\ InTheWay = {} /\ Len(actions) < MaxActions
    /\ actions' = Append(actions, [kind |-> Chain[run.pos], step |-> run.seq, phase |-> "prepared"])
    /\ cur' = Len(actions) + 1
    /\ UNCHANGED <<disposition, world, run, settled, blocked, asked, startup>>

PrepareConflicts ==
    /\ Moves("checking", "leaving")
    /\ Prepared = {} /\ InTheWay # {}
    /\ disposition' = "blocked"
    /\ UNCHANGED <<actions, world, run, cur, settled, blocked, asked, startup>>

\* The destination already holds the authorized head: recorded, not repeated.
AdoptAtHead ==
    /\ Moves("prepared", "landing")
    /\ Kind(cur) = "push" /\ Happened(cur)
    /\ UNCHANGED <<journal, world, run, cur, settled, blocked, asked, startup>>

\* mark_action_executing commits the marker, then the effect's call is made.
MarkExecuting ==
    /\ Moves("prepared", "calling")
    /\ ~(Kind(cur) = "push" /\ Happened(cur))
    /\ actions' = WithPhase(cur, "executing")
    /\ calls' = calls \cup {cur}
    /\ UNCHANGED <<disposition, landed, run, cur, settled, blocked, asked, startup>>

\* The effect takes place.  Pushing a head that is there, or opening a pull
\* request that exists, changes nothing.
EffectLands(i) ==
    /\ i \in calls
    /\ calls' = calls \ {i}
    /\ landed' = IF Happened(i) THEN landed ELSE landed \cup {i}
    /\ UNCHANGED <<journal, run, process, blocked, asked, startup>>

Answered(k, to) ==
    /\ Moves("calling", to)
    /\ Kind(cur) = k /\ cur \notin calls /\ Happened(cur)
    /\ UNCHANGED <<journal, world, run, cur, settled, blocked, asked, startup>>

\* The signatures verify against the reviewed content.
SignatureVerified == Answered("commit", "landing")

\* git push exits 0; what the destination holds is still to be read.
PushAnswered == Answered("push", "verifying")

\* gh names the pull request, with or without an error.
PrCreated == Answered("pr", "landing")

\* An error or a timeout, whatever became of the effect.  Signing is local: it
\* is over when its process is.
GivesUp(i) ==
    \/ calls' = calls \ {i}
    \/ "late" \in may.happens /\ Kind(i) # "commit" /\ calls' = calls

AnswerError ==
    /\ Moves("calling", "classifying")
    /\ GivesUp(cur)
    /\ UNCHANGED <<journal, landed, run, cur, settled, blocked, asked, startup>>

Fail(i) == actions' = WithPhase(i, "failed") /\ disposition' = "blocked"

Flag(i) ==
    /\ actions' = WithPhase(i, "needs_reconciliation")
    /\ disposition' = "unresolved"
    /\ blocked' = TRUE

\* The lease refuses the push: fail_action, without looking.
PushConflict ==
    /\ Moves("calling", "leaving")
    /\ Kind(cur) = "push" /\ cur \in calls
    /\ Fail(cur) /\ calls' = calls \ {cur}
    /\ UNCHANGED <<landed, run, cur, settled, blocked, asked, startup>>

\* The destination is read again after a push: it holds the head, something
\* else, or cannot be read, which leaves the action as it is.
PushVerified ==
    /\ Moves("verifying", "landing")
    /\ UNCHANGED <<journal, world, run, cur, settled, blocked, asked, startup>>

PushMismatch ==
    /\ Moves("verifying", "leaving")
    /\ Flag(cur)
    /\ UNCHANGED <<world, run, cur, settled, asked, startup>>

PushUnreadable ==
    /\ "unverified" \in may.happens
    /\ Moves("verifying", "leaving")
    /\ UNCHANGED <<journal, world, run, cur, settled, blocked, asked, startup>>

\* The run moves past its delivery step; the last one completes it.
RunMovesOn ==
    run' = [pos |-> run.pos + 1, seq |-> run.seq + 1,
            status |-> IF run.pos = Len(Chain) THEN "complete" ELSE "running"]

\* _land with the runner's settle: the result and the step, in one commit.
Land ==
    /\ Moves("landing", "closing")
    /\ actions' = WithPhase(cur, "succeeded")
    /\ RunMovesOn /\ settled' = TRUE
    /\ UNCHANGED <<disposition, world, cur, blocked, asked, startup>>

\* The task branch moved, or is detached: the signed result could not be
\* installed, which is recorded after the success.
Uninstalled ==
    /\ "uninstalled" \in may.happens
    /\ Moves("closing", "leaving")
    /\ Kind(cur) = "commit"
    /\ disposition' = "blocked"
    /\ UNCHANGED <<actions, world, run, cur, settled, blocked, asked, startup>>

\* After a success, a delivery with nothing left is completed.
Close ==
    /\ Moves("closing", "leaving")
    /\ disposition' = IF Remaining = {} THEN "completed" ELSE disposition
    /\ UNCHANGED <<actions, world, run, cur, settled, blocked, asked, startup>>

Outcomes_CommitFailed(i) ==
    IF Kind(i) = "commit" THEN {"not-executed"} ELSE Observations(i)

\* What _classify_commit_failure, _push_ and _pr_ conclude: signatures under
\* the attempt's ref, whole or partial, are never adopted here, and a foreign
\* head is flagged as an unreadable one is.
Outcomes(i) ==
    IF Kind(i) = "commit"
    THEN {IF Happened(i) THEN "unknown" ELSE "not-executed"}
    ELSE Observations(i)

ClassifyFailed ==
    /\ Moves("classifying", "leaving")
    /\ "not-executed" \in Outcomes(cur) /\ Fail(cur)
    /\ UNCHANGED <<world, run, cur, settled, blocked, asked, startup>>

ClassifyUnknown ==
    /\ Moves("classifying", "leaving")
    /\ "unknown" \in Outcomes(cur) /\ Flag(cur)
    /\ UNCHANGED <<world, run, cur, settled, asked, startup>>

\* complete_action: the journal result stands alone, the step is not settled.
ClassifyCompleted ==
    /\ Moves("classifying", "closing")
    /\ "completed" \in Outcomes(cur)
    /\ actions' = WithPhase(cur, "succeeded")
    /\ UNCHANGED <<disposition, world, run, cur, settled, blocked, asked, startup>>

\* _run_delivery_step returns: a settled step is followed by the next one, any
\* other is paused.
Leave ==
    /\ at = "leaving"
    /\ at' = IF settled /\ run.status = "running" THEN "entering" ELSE "none"
    /\ run' = IF settled THEN run ELSE [run EXCEPT !.status = "paused"]
    /\ cur' = 0 /\ settled' = FALSE
    /\ UNCHANGED <<journal, world, blocked, asked, startup>>

Coroutine ==
    \/ StepRefused \/ StepAdmitted
    \/ CommitCheckFails \/ PushCheckFails \/ PrCheckFails
    \/ PrepareReuses \/ PrepareAppends \/ PrepareConflicts
    \/ AdoptAtHead \/ MarkExecuting
    \/ SignatureVerified \/ PushAnswered \/ PrCreated \/ AnswerError
    \/ PushConflict \/ PushVerified \/ PushMismatch \/ PushUnreadable
    \/ Land \/ Uninstalled \/ Close \/ ClassifyFailed \/ ClassifyUnknown \/ ClassifyCompleted
    \/ Leave

-----------------------------------------------------------------------------
\* The operator.

\* continue_delivery and retry_step start a coroutine at a paused step.
Starts(seq) ==
    /\ run' = [run EXCEPT !.seq = seq, !.status = "running"]
    /\ at' = "entering"
    /\ UNCHANGED <<cur, settled>>

ContinuesIfPaused ==
    IF run.status = "paused" THEN Starts(run.seq) ELSE UNCHANGED <<run, process>>

\* preview: an unfinished delivery step's grant, something left to perform, and
\* a workspace nobody holds or blocks.  A journal that changed since is refused
\* by its version.
Previewed ==
    /\ phase = "serving" /\ at = "none" /\ ~blocked
    /\ run.status # "complete" /\ Remaining # {}

\* authorize: the grant stands again, and a paused run continues under it.
Authorizes ==
    /\ disposition' = "authorized"
    /\ ContinuesIfPaused
    /\ UNCHANGED <<actions, world, blocked, asked, startup>>

\* Nothing succeeded: the authorization is replaced, unless an attempt is open.
Reauthorize ==
    /\ Previewed /\ Remaining = DOMAIN Chain
    /\ \A i \in DOMAIN actions : actions[i].phase \notin Open
    /\ Authorizes

\* A completed prefix stands, and the rest is admitted again.
Resume ==
    /\ Previewed /\ Remaining # DOMAIN Chain
    /\ Authorizes

Confirm == Reauthorize \/ Resume

\* retry_step opens a new attempt at the same step.
Retry ==
    /\ "retry" \in may.happens
    /\ phase = "serving" /\ run.status = "paused" /\ run.seq < MaxAttempts
    /\ Starts(run.seq + 1)
    /\ UNCHANGED <<journal, world, blocked, asked, startup>>

\* reconcile: the version and the attempt's phase are read here and only here.
Ask(r, d, i) ==
    /\ phase = "serving" /\ asked[r] = Idle
    /\ actions[i].phase \in Open
    /\ "overlap" \in may.happens \/ cur # i
    /\ asked' = [asked EXCEPT ![r] = [decision |-> d, action |-> i, seen |-> "none"]]
    /\ UNCHANGED <<journal, world, run, process, blocked, startup>>

Observe(r) ==
    /\ asked[r] # Idle /\ asked[r].seen = "none"
    /\ \E o \in Observations(asked[r].action) : asked' = [asked EXCEPT ![r].seen = o]
    /\ UNCHANGED <<journal, world, run, process, blocked, startup>>

Decided(r, ds, os) ==
    /\ asked[r].decision \in ds /\ asked[r].seen \in os
    /\ asked' = [asked EXCEPT ![r] = Idle]
    /\ UNCHANGED <<world, run, process, startup>>

\* _adopt and _settle_after_adoption: nothing that remains is resumed.
Adopts(r) ==
    /\ Decided(r, {"recheck", "adopt"}, {"completed"})
    /\ actions' = WithPhase(asked[r].action, "succeeded")
    /\ disposition' = IF Remaining' = {} THEN "completed" ELSE "blocked"
    /\ blocked' = FALSE

\* Anything else is recorded, or refused, and changes nothing.
Leaves(r) ==
    /\ \/ Decided(r, {"recheck", "adopt"}, {"unknown", "not-executed"})
       \/ Decided(r, {"retry"}, {"unknown", "completed"})
    /\ UNCHANGED <<journal, blocked>>

AllowsRetry_Unproven(r) ==
    /\ Decided(r, {"retry"}, {"not-executed", "unknown"})
    /\ Fail(asked[r].action) /\ blocked' = FALSE

AllowsRetry(r) ==
    /\ Decided(r, {"retry"}, {"not-executed"})
    /\ Fail(asked[r].action) /\ blocked' = FALSE

Abandons(r) ==
    /\ Decided(r, {"abandon"}, {"not-executed", "completed"})
    /\ actions' = WithPhase(asked[r].action, "failed")
    /\ disposition' = "abandoned" /\ blocked' = FALSE

AbandonsUnknown(r) ==
    /\ Decided(r, {"abandon"}, {"unknown"})
    /\ actions' = WithPhase(asked[r].action, "needs_reconciliation")
    /\ disposition' = "unresolved"
    /\ UNCHANGED blocked

Operator ==
    \/ Confirm \/ Retry
    \/ \E r \in Requests :
         \/ \E d \in may.decisions, i \in DOMAIN actions : Ask(r, d, i)
         \/ Observe(r)
         \/ Adopts(r) \/ Leaves(r) \/ AllowsRetry(r) \/ Abandons(r) \/ AbandonsUnknown(r)

-----------------------------------------------------------------------------
\* Restarts.

\* list_unresolved_deliveries: only these dispositions are looked into.
Unfinished_Flagged == disposition = "unresolved"

Unfinished == disposition \in {"authorized", "unresolved"}

\* Whatever is in memory is lost: the coroutine, the requests, the block.
Crash ==
    /\ crashes < MaxCrashes /\ crashes' = crashes + 1
    /\ phase' = "restoring" /\ at' = "none" /\ cur' = 0 /\ settled' = FALSE
    /\ blocked' = FALSE /\ asked' = [r \in Requests |-> Idle]
    /\ todo' = IF Unfinished THEN {i \in DOMAIN actions : actions[i].phase \in Open} ELSE {}
    /\ recover' = (run.status = "running")
    /\ \/ calls' = {}
       \/ "late" \in may.happens /\ calls' = {i \in calls : Kind(i) # "commit"}
    /\ UNCHANGED <<journal, landed, run, may>>

\* _restore_action, one attempt at a time, oldest first.
RestoreNext(i) ==
    /\ phase = "restoring" /\ i \in todo /\ \A j \in todo : i <= j
    /\ todo' = todo \ {i}
    /\ UNCHANGED <<world, run, process, asked, phase, recover, crashes, may>>

RestoreCompleted(i) ==
    /\ RestoreNext(i) /\ "completed" \in Observations(i)
    /\ actions' = WithPhase(i, "succeeded") /\ disposition' = "authorized"
    /\ UNCHANGED blocked

RestoreFailed(i) ==
    /\ RestoreNext(i) /\ "not-executed" \in Observations(i)
    /\ Fail(i) /\ UNCHANGED blocked

RestoreUnknown_Unblocked(i) ==
    /\ RestoreNext(i) /\ "unknown" \in Observations(i)
    /\ actions' = WithPhase(i, "needs_reconciliation")
    /\ disposition' = "unresolved" /\ UNCHANGED blocked

RestoreUnknown(i) ==
    /\ RestoreNext(i) /\ "unknown" \in Observations(i)
    /\ Flag(i)

\* Authorized work that never finished is not resumed; then requests are served.
RestoreEnds ==
    /\ phase = "restoring" /\ todo = {} /\ phase' = "serving"
    /\ disposition' = IF disposition # "authorized" THEN disposition
                      ELSE IF Remaining = {} THEN "completed" ELSE "blocked"
    /\ UNCHANGED <<actions, world, run, process, blocked, asked, todo, recover, crashes, may>>

\* workflow_action: the first attempt the run's step opened.
OwnAction ==
    {i \in DOMAIN actions :
        /\ actions[i].step = run.seq
        /\ \A j \in DOMAIN actions : actions[j].step = run.seq => i <= j}
Recovers ==
    /\ phase = "serving" /\ recover
    /\ recover' = FALSE
    /\ UNCHANGED <<journal, world, cur, settled, blocked, asked, phase, todo, crashes, may>>

\* _recover_delivery_attempt adopts the effect on record, or pauses the run.
RecoverAdopts ==
    /\ Recovers
    /\ \E i \in OwnAction : actions[i].phase = "succeeded"
    /\ RunMovesOn
    /\ at' = IF run.pos = Len(Chain) THEN "none" ELSE "entering"

RecoverPauses ==
    /\ Recovers
    /\ \A i \in OwnAction : actions[i].phase # "succeeded"
    /\ run' = [run EXCEPT !.status = "paused"]
    /\ UNCHANGED at

Restore ==
    \/ \E i \in todo : RestoreCompleted(i) \/ RestoreFailed(i) \/ RestoreUnknown(i)
    \/ RestoreEnds \/ RecoverAdopts \/ RecoverPauses

Next == Coroutine \/ Operator \/ Restore \/ Crash \/ \E i \in calls : EffectLands(i)

Spec == Init /\ [][Next]_vars

\* The event loop runs the coroutine and the startup tasks; a call is answered
\* or times out.  Nothing is promised of operators or remotes.
FairSpec == Spec /\ WF_vars(Coroutine) /\ WF_vars(Restore)

-----------------------------------------------------------------------------
\* The two conditions under which the journal's stronger promises hold.
\* A call ends with its client, nobody decides about an action being performed,
\* and nobody gives up an effect for good.
Certain ==
    may.happens \cap {"late", "overlap"} = {} /\ "abandon" \notin may.decisions

\* Every attempt runs to its classification: no generic retry, no result that
\* cannot be installed, no remote that is lost between a push and its check.
Attended == may.happens \subseteq {"late"}

\* "An attempt is only recorded as failed when its non-execution was
\* established": its effect did not take place and will not.
FailedMeansAbsent ==
    Certain =>
        \A i \in DOMAIN actions : actions[i].phase = "failed" => i \notin landed \cup calls

\* An attempt whose outcome nobody is establishing blocks the workspace.
UnknownBlocks ==
    Attended /\ phase = "serving" =>
        \A i \in DOMAIN actions : actions[i].phase \in Open /\ i # cur => blocked

Executing == {i \in DOMAIN actions : actions[i].phase = "executing"}

\* Every effect that is begun is classified, restarts included.
EffectsAreClassified ==
    Attended => \A i \in 1 .. MaxActions : i \in Executing ~> i \notin Executing

\* The publication an observer sees.  Without certainty nothing is promised of
\* it: the observer is shown a publication in which nothing begins.
Status(k) ==
    IF ~Certain THEN "due"
    ELSE IF Succeeded(k) THEN "done" ELSE IF Having(k, Open) # {} THEN "trying" ELSE "due"

Ledger == INSTANCE Publication WITH
    status <- [n \in DOMAIN Chain |-> Status(Chain[n])],
    taken <- [n \in DOMAIN Chain |-> Certain /\ \E j \in landed : Kind(j) = Chain[n]]

\* Where calls are certain, the journal implements Publication: every effect at
\* most once, in order, and given up only when it is known not to have happened.
ImplementsPublication == Ledger!Spec
=============================================================================
