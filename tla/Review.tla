-------------------------------- MODULE Review --------------------------------
(***************************************************************************)
(* The independent review of one task (`review.py`, `registry/reviews.py`, *)
(* the review routes of `api/rest.py`, the review step of `workflows.py`), *)
(* composed with the workspace guard it holds: the reviewer process and    *)
(* its watcher, the durable row and its iterations, the run that waits for *)
(* a verdict, the operator who reviews by hand, the primary session, a     *)
(* shutdown, a kill and the restart.                                       *)
(*                                                                         *)
(* Every action of the guard below is one of WorkspaceGuard, joined with   *)
(* what the same code does to the review.                                  *)
(***************************************************************************)
EXTENDS WorkspaceGuard, Sequences, SequencesExt

CONSTANTS
    MaxAttempts,   \* bound: attempts of the run's review step
    MaxRounds,     \* bound: reviews started
    MaxStops,      \* bound: stops of the daemon
    ByHand,        \* may a person start the review a run is waiting for
    LateTurns      \* may an older run's agent be prompted during a review

ASSUME ReviewAssumption ==
    /\ MaxAttempts \in Nat /\ MaxRounds \in Nat /\ MaxStops \in Nat
    /\ ByHand \in BOOLEAN /\ LateTurns \in BOOLEAN

VARIABLES
    declared,   \* does the task's definition declare a review step
    row,        \* the review row: status, process marker, the attempt it is for
    iters,      \* the review's iterations, in order
    rev,        \* what the watcher of each started review knows
    session,    \* the primary session's status, as far as a review cares
    run,        \* the run at its review step
    life,       \* "up" or "stopping"
    rounds, stops

guard == <<owner, blocked, at, archived>>
review == <<row, iters, rev>>
rvars == <<guard, declared, review, session, run, life, rounds, stops>>
bounds == <<rounds, stops>>

\* rev[c].proc: "none" until exec returns, and again once popped.
Unstarted == [seq |-> 0, byRun |-> FALSE, proc |-> "none", verdict |-> "none"]

RInit ==
    /\ Init /\ declared \in BOOLEAN
    /\ row = [status |-> "none", marker |-> FALSE, seq |-> 0] /\ iters = <<>>
    /\ rev = [c \in Reviews |-> Unstarted]
    /\ session = "idle"
    /\ run = [at |-> "elsewhere", seq |-> 0, took |-> 0]
    /\ life = "up" /\ rounds = 0 /\ stops = 0

\* ReviewManager._processes[task]: a process that was started and not popped.
Process == {c \in Reviews : rev[c].proc \in {"running", "signalled", "exited"}}

\* iteration_for_step: the newest iteration of an attempt, 0 if there is none.
IterationOf(seq) ==
    LET of == {i \in DOMAIN iters : iters[i].seq = seq} IN
    IF of = {} THEN 0 ELSE CHOOSE i \in of : \A j \in of : j <= i

\* resolve_authority: the attempt whose review step is on record as running.
ReviewSeq == IF declared /\ run.at \in {"entering", "parked", "recovering"} THEN run.seq ELSE 0

\* append_iteration, with the status it produces in the same transaction.
Append1(seq, outcome, status) ==
    /\ iters' = Append(iters, [seq |-> seq, outcome |-> outcome])
    /\ row' = [row EXCEPT !.status = IF status = "" THEN @ ELSE status]

\* review_opened from idle only, review_closed from reviewing only.
SessionReviewed == session' = IF session = "reviewing" THEN "idle" ELSE session

-----------------------------------------------------------------------------
(* The run's review step                                                    *)

\* An attempt at the review step is opened: the step is reached, or retried.
Reaches ==
    /\ life = "up" /\ declared /\ at[Step] = "idle" /\ run.seq < MaxAttempts
    /\ run.at \in {"elsewhere", "took", "paused"}
    /\ run' = [at |-> "entering", seq |-> run.seq + 1, took |-> 0]
    /\ UNCHANGED <<guard, declared, review, session, life, bounds>>

\* A re-driven attempt whose verdict is on record consumes it.
Consumes ==
    /\ run.at = "entering" /\ IterationOf(run.seq) # 0
    /\ run' = [run EXCEPT !.at = "took", !.took = IterationOf(run.seq)]
    /\ UNCHANGED <<guard, declared, review, session, life, bounds>>

Admits(c, seq, byRun) ==
    /\ Process = {} /\ ~archived /\ rounds < MaxRounds /\ rounds' = rounds + 1
    /\ Hold(c, "host", "capturing")
    /\ rev' = [rev EXCEPT ![c] = [Unstarted EXCEPT !.seq = seq, !.byRun = byRun]]

\* watch_completion, then start_review: the guard, then the capture.
RunStarts(c) ==
    /\ run.at = "entering" /\ IterationOf(run.seq) = 0
    /\ Admits(c, run.seq, TRUE)
    /\ run' = [run EXCEPT !.at = "parked"]
    /\ UNCHANGED <<declared, row, iters, session, life, stops>>

\* ReviewAlreadyOpenError, WorkspaceBusyError, WorkspaceBlockedError, or
\* nothing to capture: the step pauses.
RunCannotStart ==
    /\ run.at = "entering" /\ IterationOf(run.seq) = 0
    /\ Process # {} \/ ~Available \/ archived
    /\ run' = [run EXCEPT !.at = "paused"]
    /\ UNCHANGED <<guard, declared, review, session, life, bounds>>

\* start_review_route.  A run with a review step is reviewed under the attempt
\* that is on record as running, driven or not; an older one needs its session
\* idle.
OperatorStarts(c) ==
    /\ life = "up"
    /\ IF declared THEN ByHand /\ ReviewSeq # 0 /\ run.at # "entering" ELSE session = "idle"
    /\ Admits(c, ReviewSeq, FALSE)
    /\ UNCHANGED <<declared, row, iters, session, run, life, stops>>

-----------------------------------------------------------------------------
(* start_review and its watcher                                             *)

\* The capture, the view or the port is refused.
Refuses(c) ==
    /\ ReviewRefused(c)
    /\ rev' = [rev EXCEPT ![c] = Unstarted]
    /\ run' = IF rev[c].byRun THEN [run EXCEPT !.at = "paused"] ELSE run
    /\ UNCHANGED <<declared, row, iters, session, life, bounds>>

\* open_review: the row is open and marked before there is a process.
Opens(c) ==
    /\ ReviewRuns(c)
    /\ row' = [status |-> "open", marker |-> TRUE, seq |-> rev[c].seq]
    /\ session' = IF session = "idle" THEN "reviewing" ELSE session
    /\ UNCHANGED <<declared, iters, rev, run, life, bounds>>

Launches(c) ==
    /\ at[c] = "working" /\ rev[c].proc = "none"
    /\ rev' = [rev EXCEPT ![c].proc = "running"]
    /\ UNCHANGED <<guard, declared, row, iters, session, run, life, bounds>>

\* MUTANT: the marker stays until the verdict is on record.
Unmarked_Later == UNCHANGED row

\* clear_process_marker: the process was observed exiting.
Unmarked == row' = [row EXCEPT !.marker = FALSE]

\* The watcher's cleanup, before anything is recorded: the process, the
\* marker and the view go; exec itself may have failed.
Observes(c) ==
    /\ ReviewExits(c) /\ Unmarked
    /\ \/ rev[c].proc = "exited" /\ rev' = [rev EXCEPT ![c].proc = "none"]
       \/ rev[c].proc = "none" /\ rev' = [rev EXCEPT ![c].verdict = "error"]
    /\ UNCHANGED <<declared, iters, session, run, life, bounds>>

\* The reviewer exits, and its code is the verdict: 0 approves, or comments if
\* it printed any, 130 is an abort, any other an error.  One that cancel_review
\* signalled exits on the interrupt (130) or is killed after two seconds, so it
\* ends aborted or in error and no longer decides.
Answers(c) ==
    /\ at[c] = "working"
    /\ \E v \in CASE rev[c].proc = "running" -> {"approved", "comments", "error"}
                  [] rev[c].proc = "signalled" -> {"aborted", "error"}
                  [] OTHER -> {} :
        rev' = [rev EXCEPT ![c].proc = "exited", ![c].verdict = v]
    /\ UNCHANGED <<guard, declared, row, iters, session, run, life, bounds>>

\* MUTANT: the branch of the comments wakes nobody.
Notify_NotOfComments(v, n) ==
    run' = IF run.at # "parked" \/ v = "comments" THEN run
           ELSE [run EXCEPT !.at = "took", !.took = n]

\* _notify_completion: the parked run reads what has just been recorded, in
\* the loop's next turn.
Notify(v, n) ==
    run' = IF run.at # "parked" THEN run ELSE [run EXCEPT !.at = "took", !.took = n]

\* _interpret_exit and _finalize: the verdict is durable before the run is
\* woken, and the hold goes last.  Comments leave the review open.
Finalizes(c) ==
    /\ rev[c].verdict # "comments" \/ declared
    /\ ReviewFinal(c)
    /\ Append1(rev[c].seq, rev[c].verdict,
               IF rev[c].verdict = "comments" THEN "" ELSE rev[c].verdict)
    /\ Notify(rev[c].verdict, Len(iters'))
    /\ SessionReviewed
    /\ rev' = [rev EXCEPT ![c] = Unstarted]
    /\ UNCHANGED <<declared, life, bounds>>

\* An older run: the comments are for the agent, and the hold is given back
\* before it is prompted.
LoopsBack(c) ==
    /\ rev[c].verdict = "comments" /\ ~declared
    /\ ReviewLoopsBack(c)
    /\ Append1(rev[c].seq, "comments", "")
    /\ UNCHANGED <<declared, rev, session, run, life, bounds>>

Prompts(c) ==
    /\ LoopBackEnds(c) /\ session # "failed"
    /\ session' = "working"
    /\ rev' = [rev EXCEPT ![c] = Unstarted]
    /\ UNCHANGED <<declared, row, iters, run, life, bounds>>

CannotPrompt(c) ==
    /\ LoopBackEnds(c)
    /\ Append1(rev[c].seq, "error", "error")
    /\ rev' = [rev EXCEPT ![c] = Unstarted]
    /\ UNCHANGED <<declared, session, run, life, bounds>>

\* Whoever cancels finds the process, or finds nothing to cancel.
Signalled == [c \in Reviews |-> IF rev[c].proc = "running"
                THEN [rev[c] EXCEPT !.proc = "signalled"] ELSE rev[c]]

Cancels ==
    /\ life = "up" /\ Signalled # rev /\ rev' = Signalled
    /\ UNCHANGED <<guard, declared, row, iters, session, run, life, bounds>>

\* _consume_events: the primary session's exit wins over an open review.
SessionFails ==
    /\ life = "up" /\ session # "failed" /\ session' = "failed"
    /\ rev' = Signalled
    /\ UNCHANGED <<guard, declared, row, iters, run, life, bounds>>

-----------------------------------------------------------------------------
(* The other users of the guard                                             *)

AtReview == run.at \in {"entering", "parked", "recovering"}

\* The run's working steps; drafts, captures and deliveries; effects.
Others ==
    /\ life = "up"
    /\ \/ ~AtReview /\ (StepBegins \/ Leaves(Step, "working"))
       \/ \E c \in Hosts : HostBegins(c) \/ Leaves(c, "working")
       \/ Block \/ Unblock \/ CleanupBegins \/ CleanupFails
    /\ UNCHANGED <<declared, review, session, run, life, bounds>>

\* A turn may prompt while a review is not over.  In an older run the session
\* is then idle again before the watcher has let go, and idle is all that the
\* route asks: LateTurns = FALSE leaves that out.
OperatorTurns(c) ==
    /\ life = "up" /\ session # "failed"
    /\ \/ TurnAdmitted(c) /\ UNCHANGED session
       \/ (LateTurns \/ declared \/ \A r \in Reviews : at[r] = "idle")
          /\ TurnPrompts(c) /\ session' = "working"
    /\ UNCHANGED <<declared, review, run, life, bounds>>

\* The agent's turn is over, whoever asked for it.
TurnOver ==
    /\ life = "up"
    /\ session' = IF session = "working" THEN "idle" ELSE session
    /\ \/ \E c \in Turns : TurnEnds(c)
       \/ session = "working" /\ UNCHANGED guard
    /\ UNCHANGED <<declared, review, run, life, bounds>>

\* cancel_and_drop inside cleanup's hold: a reviewer that was running and
\* whose exit was never recorded is recorded as aborted.
CleansUp ==
    /\ life = "up" /\ CleanupEnds
    /\ IF row.status = "open" /\ row.marker
         THEN Append1(0, "aborted", "aborted") ELSE UNCHANGED <<row, iters>>
    /\ rev' = [c \in Reviews |-> Unstarted] /\ session' = "failed"
    /\ UNCHANGED <<declared, run, life, bounds>>

-----------------------------------------------------------------------------
(* Stops and restarts                                                       *)

\* The run's coroutine is gone; its record keeps saying `running`.
Stranded == IF AtReview THEN [run EXCEPT !.at = "recovering"] ELSE run

\* reviews.shutdown, after the runs and the agents: every process it knows is
\* signalled, and every watcher is waited for.
ShutsDown ==
    /\ life = "up" /\ life' = "stopping"
    /\ stops < MaxStops /\ stops' = stops + 1
    /\ at' = [c \in Callers |-> IF at[c] = "capturing" \/ c \notin Reviews THEN "idle" ELSE at[c]]
    /\ owner' = IF \E c \in Reviews : at'[c] \in {"working", "exiting"} THEN owner ELSE Free
    /\ rev' = [c \in Reviews |-> IF at[c] = "capturing" THEN Unstarted ELSE Signalled[c]]
    /\ run' = Stranded
    /\ UNCHANGED <<blocked, archived, declared, row, iters, session, rounds>>

\* restore_reviews: a marked open review was cut short.
Restore ==
    IF row.status = "open" /\ row.marker
      THEN /\ iters' = Append(iters, [seq |-> row.seq, outcome |-> "interrupted"])
           /\ row' = [row EXCEPT !.status = "aborted", !.marker = FALSE]
      ELSE UNCHANGED <<row, iters>>

\* The next daemon: nothing is held, the session is resumed, the run is not
\* driven yet.
Restarts ==
    /\ \/ life = "stopping" /\ (\A c \in Reviews : at[c] = "idle") /\ UNCHANGED stops
       \/ life = "up" /\ stops < MaxStops /\ stops' = stops + 1
    /\ life' = "up" /\ Restore
    /\ at' = [c \in Callers |-> "idle"] /\ owner' = Free
    /\ rev' = [c \in Reviews |-> Unstarted]
    /\ session' = IF archived THEN "failed" ELSE "idle"
    /\ run' = Stranded
    /\ UNCHANGED <<blocked, archived, declared, rounds>>

\* The recovery job gets to the run.
Redriven ==
    /\ life = "up" /\ run.at = "recovering"
    /\ run' = [run EXCEPT !.at = "entering"]
    /\ UNCHANGED <<guard, declared, review, session, life, bounds>>

-----------------------------------------------------------------------------
AtStep == Reaches \/ Consumes \/ RunCannotStart \/ Redriven
          \/ \E c \in Reviews : RunStarts(c) \/ OperatorStarts(c)

Watches(c) == Refuses(c) \/ Opens(c) \/ Launches(c) \/ Observes(c) \/ Finalizes(c)
              \/ LoopsBack(c) \/ Prompts(c) \/ CannotPrompt(c)

RNext ==
    \/ AtStep
    \/ \E c \in Reviews : Watches(c) \/ Answers(c)
    \/ Cancels \/ SessionFails
    \/ Others \/ TurnOver \/ CleansUp
    \/ \E c \in Turns : OperatorTurns(c)
    \/ ShutsDown \/ Restarts

RSpec == RInit /\ [][RNext]_rvars

\* Watchers run, reviewers and host operations end, agents finish turns.
RFairness ==
    /\ \A c \in Reviews : WF_rvars(Watches(c)) /\ WF_rvars(Answers(c))
    /\ WF_rvars(Others /\ owner' = Free) /\ WF_rvars(CleansUp)
    /\ WF_rvars(Redriven) /\ WF_rvars(Consumes)

RFairSpec == RSpec /\ RFairness

-----------------------------------------------------------------------------
(* Properties, besides HostExclusive of the guard                           *)

\* An attempt at the review step gets one verdict, whatever exits, signals,
\* stops and restarts come between: what a gate later binds by the attempt's
\* number is what the run was routed by.
OneVerdict ==
    \A i, j \in DOMAIN iters : iters[i].seq = iters[j].seq /\ iters[i].seq # 0 => i = j

\* A run that is parked at its review step does not stay there: the verdict
\* wakes it, or the step pauses, or a stop hands it to recovery.
ReviewStepEnds == run.at = "parked" ~> run.at # "parked"
=============================================================================
