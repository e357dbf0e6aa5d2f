----------------------------- MODULE WorkflowRun -----------------------------
(***************************************************************************)
(* One task's workflow run: the rows it keeps in the database, the asyncio *)
(* coroutines that drive it, the operator requests that move it, and the   *)
(* daemon stopping at any point and starting again.                        *)
(*                                                                         *)
(* Sources: workflows.py (WorkflowRunner), registry/workflows.py (the      *)
(* commits) and recovery.py (startup).                                     *)
(*                                                                         *)
(* Atomicity.  Everything runs on one event loop, so a coroutine is only   *)
(* interleaved with others where it awaits; but the daemon can die between *)
(* any two commits.  Each action below ends at the next commit or await.   *)
(* `cpu` names the coroutine that is between two awaits: until it reaches  *)
(* the next one, only it may move, and only Crash may stop it.             *)
(***************************************************************************)
EXTENDS WorkflowDefinition

CONSTANTS
    Drivers,              \* coroutine slots; bounds how many runs overlap
    MaxCrashes,           \* bound on daemon stops
    MaxAttempts,          \* operators stop asking for new attempts here
    ServeDuringRecovery   \* TRUE: operator requests are served while startup
                          \* recovery is still resuming sessions, as in app.py

NoDriver == 0

ASSUME DriversAssumption ==
    Drivers \subseteq Nat \ {0} /\ IsFiniteSet(Drivers)

ASSUME BoundsAssumption ==
    MaxCrashes \in Nat /\ MaxAttempts \in Nat /\ ServeDuringRecovery \in BOOLEAN

VARIABLES
    records,    \* workflow_step_records of the task, by seq
    wfStatus,   \* tasks.workflow_status
    wfStep,     \* tasks.workflow_step
    dispatched, \* delivery journal: attempts whose effect may have begun
    reviewed,   \* review iterations on record, by the attempt they belong to
    drv,        \* coroutine slot -> where WorkflowRunner._execute stands in it
    runs,       \* WorkflowRunner._runs[task]
    gateWait,   \* WorkflowRunner._gate_waits[task]: whose future it holds
    cpu,        \* the coroutine between two awaits
    boot,       \* the daemon: "serving", "down" or "recovering"
    snapshot,   \* the workflow_status startup classification read
    crashes

durable == <<records, wfStatus, wfStep, dispatched, reviewed>>
memory  == <<drv, runs, gateWait, cpu>>
daemon  == <<boot, snapshot, crashes>>
vars    == <<durable, memory, daemon>>

\* A coroutine's position.  `seq` is the attempt it is on, `to` the step it is
\* about to open, `nudge` whether a recovered agent attempt is only nudged,
\* `woken` whether its gate future has been resolved.
Pcs == {"off", "recover", "open", "loop", "enter", "session", "prompt", "idle",
        "work", "verdict", "parked", "resumed", "decided", "complete",
        "failing", "done"}

Driver == [pc : Pcs, seq : Nat, to : Steps \cup {NoStep}, nudge : BOOLEAN,
           woken : BOOLEAN]

Off == [pc |-> "off", seq |-> 0, to |-> NoStep, nudge |-> FALSE, woken |-> FALSE]

Init ==
    /\ records = << >>
    /\ wfStatus = "none" /\ wfStep = NoStep
    /\ dispatched = {} /\ reviewed = {}
    /\ drv = [d \in Drivers |-> Off]
    /\ runs = NoDriver /\ gateWait = NoDriver /\ cpu = NoDriver
    /\ boot = "serving" /\ snapshot = "none" /\ crashes = 0

-----------------------------------------------------------------------------
(* What a step of a coroutine is made of.                                  *)

At(d, pc) == drv[d].pc = pc /\ cpu \in {d, NoDriver}

Last == records[Len(records)]

KindOf(d) == Kind[records[drv[d].seq].step]

\* Move the coroutine on without awaiting, up to an await, or to its end.
Proceed(d, state) == drv' = [drv EXCEPT ![d] = state] /\ cpu' = d
Await(d, state)   == drv' = [drv EXCEPT ![d] = state] /\ cpu' = NoDriver
EndRun(d)         == Await(d, [drv[d] EXCEPT !.pc = "done"])

\* Where the coroutine stands once its next move is `dest`.
Toward(d, dest) ==
    IF dest \in Steps THEN [drv[d] EXCEPT !.pc = "open", !.to = dest]
                      ELSE [drv[d] EXCEPT !.pc = "complete"]

\* The loop takes an attempt: _Attempt(record, step, nudge).
Taking(seq, nudge) ==
    [Off EXCEPT !.pc = "loop", !.seq = seq, !.nudge = nudge]

SetRun(status, step) == wfStatus' = status /\ wfStep' = step

Pause(d) ==
    /\ LET n == drv[d].seq
       IN  records' = Rewrite(records, n, "waiting", TRUE, records[n].outcome)
    /\ SetRun("waiting", records[drv[d].seq].step)
    /\ EndRun(d)

\* finish_step_record
Finish(seq, status, outcome) ==
    records' = Rewrite(records, seq, status, FALSE, outcome)

\* _advance_in: finish one attempt and open its successor, or complete the
\* run, in the caller's transaction.  `history` is what the successor's
\* evidence was resolved against before the transaction began.
Advance(seq, outcome, dest, history) ==
    LET closed == Rewrite(records, seq, "ok", FALSE, outcome)
        next   == BoundedStep(history, dest)
    IN  IF dest = Complete
        THEN records' = closed /\ SetRun("complete", NoStep)
        ELSE /\ records' = Append(closed, NewAttempt(next, history))
             /\ SetRun("running", next)

\* _attempt_after_decision: take up whatever the committed decision opened.
AttemptAfterDecision(d) ==
    IF Len(records) > drv[d].seq
    THEN Proceed(d, Taking(Len(records), FALSE))
    ELSE EndRun(d)

\* _kick: a new coroutine, remembered in _runs over any earlier one.  It takes
\* the first free slot: slots are interchangeable.
Kick(state) ==
    \E d \in Drivers :
        /\ drv[d].pc = "off"
        /\ \A e \in Drivers : drv[e].pc = "off" => d <= e
        /\ drv' = [drv EXCEPT ![d] = state]
        /\ runs' = d

-----------------------------------------------------------------------------
(* The run loop: WorkflowRunner._execute.                                  *)

\* start_run, the spawn pipeline's handoff.
StartRun ==
    /\ boot = "serving" /\ wfStatus = "none" /\ runs = NoDriver
    /\ SetRun("running", NoStep)
    /\ Kick([Off EXCEPT !.pc = "open", !.to = Order[1]])
    /\ UNCHANGED <<records, dispatched, reviewed, gateWait, cpu, daemon>>

\* _open: bound first, then freeze the evidence, then append.
Open(d) ==
    /\ At(d, "open")
    /\ records' = Append(records,
                         NewAttempt(BoundedStep(records, drv[d].to), records))
    /\ Proceed(d, Taking(Len(records) + 1, FALSE))
    /\ UNCHANGED <<wfStatus, wfStep, dispatched, reviewed, runs, gateWait, daemon>>

\* The head of the loop: stop on missing evidence, else mark the run running.
Loop(d) ==
    /\ At(d, "loop")
    /\ LET a == records[drv[d].seq]
       IN  \/ /\ MissingRequired(a)
              /\ Pause(d)
           \/ /\ ~MissingRequired(a)
              /\ SetRun("running", a.step)
              /\ Proceed(d, [drv[d] EXCEPT !.pc = "enter"])
              /\ UNCHANGED records
    /\ UNCHANGED <<dispatched, reviewed, runs, gateWait, daemon>>

\* Where _run_step can stop with an uncertainty pause, by kind: a workspace
\* held by another writer, an unresolved condition or decision, a prompt that
\* does not render, a missing outcome, a review, capture or delivery that
\* could not be carried out.
MayPause(d) ==
    \/ drv[d].pc = "enter" /\ KindOf(d) \notin {"review", "delivery"}
    \/ drv[d].pc = "session" /\ ~drv[d].nudge
    \/ drv[d].pc = "idle"
    \/ drv[d].pc = "work" /\ KindOf(d) # "command"

StepPauses(d) ==
    /\ At(d, drv[d].pc) /\ MayPause(d)
    /\ Pause(d)
    /\ UNCHANGED <<dispatched, reviewed, runs, gateWait, daemon>>

StepFails(d) ==
    /\ drv[d].pc \in {"enter", "session", "prompt", "idle", "work", "verdict"}
    /\ At(d, drv[d].pc)
    /\ Finish(drv[d].seq, "failed", NoStep)
    /\ Proceed(d, [drv[d] EXCEPT !.pc = "failing"])
    /\ UNCHANGED <<wfStatus, wfStep, dispatched, reviewed, runs, gateWait, daemon>>

RunFails(d) ==
    /\ At(d, "failing")
    /\ SetRun("failed", NoStep)
    /\ EndRun(d)
    /\ UNCHANGED <<records, dispatched, reviewed, runs, gateWait, daemon>>

\* A step that ended well finishes its record, then moves toward `dest`.
Finishes(d, outcome, dest) ==
    /\ Finish(drv[d].seq, "ok", outcome)
    /\ Proceed(d, Toward(d, dest))
    /\ UNCHANGED <<wfStatus, wfStep, dispatched, reviewed, runs, gateWait, daemon>>

\* _run_decision_step: the first true case; its route is the outcome.
Decide(d) ==
    /\ At(d, "enter") /\ KindOf(d) = "decision"
    /\ \E dest \in Dests[records[drv[d].seq].step] \ {PauseHere} :
           Finishes(d, dest, dest)

\* _run_agent_step, to the first await: applying the session policy.
EnterAgent(d) ==
    /\ At(d, "enter") /\ KindOf(d) = "agent"
    /\ Await(d, [drv[d] EXCEPT !.pc = "session"])
    /\ UNCHANGED <<durable, runs, gateWait, daemon>>

\* The session is on its policy: send the prompt, or the nudge, and await the
\* receipt; or skip a step whose `when` is false.
SessionReady(d) ==
    /\ At(d, "session")
    /\ \/ /\ Await(d, [drv[d] EXCEPT !.pc = "prompt"])
          /\ UNCHANGED <<durable, runs, gateWait, daemon>>
       \/ /\ ~drv[d].nudge
          /\ Finishes(d, NoStep, StepAfter(records[drv[d].seq].step))

\* mark_prompt_sent, then wait for the session's idle.
PromptAcked(d) ==
    /\ At(d, "prompt")
    /\ records' = [records EXCEPT ![drv[d].seq] = [@ EXCEPT !.prompted = TRUE]]
    /\ Await(d, [drv[d] EXCEPT !.pc = "idle"])
    /\ UNCHANGED <<wfStatus, wfStep, dispatched, reviewed, runs, gateWait, daemon>>

\* The turn ended; a readable outcome, or a step that asks for none.
TurnEnds(d) ==
    /\ At(d, "idle")
    /\ \E outcome \in {"result", NoStep} :
           Finishes(d, outcome, StepAfter(records[drv[d].seq].step))

\* _run_command_step and _run_capture_step reach their await.
EnterWork(d) ==
    /\ At(d, "enter") /\ KindOf(d) \in {"command", "capture"}
    /\ Await(d, [drv[d] EXCEPT !.pc = "work"])
    /\ UNCHANGED <<durable, runs, gateWait, daemon>>

CommandDone(d) ==
    /\ At(d, "work") /\ KindOf(d) = "command"
    /\ Finishes(d, "result", StepAfter(records[drv[d].seq].step))

\* A capture goes where it declares; a declared pause is taken for an ending,
\* because _destination_step answers None for anything but a step.
CaptureDone(d) ==
    /\ At(d, "work") /\ KindOf(d) = "capture"
    /\ \E dest \in Dests[records[drv[d].seq].step] : Finishes(d, "result", dest)

EnterReview(d) ==
    /\ At(d, "enter") /\ KindOf(d) = "review"
    /\ IF drv[d].seq \in reviewed
       THEN Finishes(d, "result", StepAfter(records[drv[d].seq].step))
       ELSE /\ Await(d, [drv[d] EXCEPT !.pc = "work"])
            /\ UNCHANGED <<durable, runs, gateWait, daemon>>

ReviewLands(d) ==
    /\ At(d, "work") /\ KindOf(d) = "review"
    /\ reviewed' = reviewed \cup {drv[d].seq}
    /\ Await(d, [drv[d] EXCEPT !.pc = "verdict"])
    /\ UNCHANGED <<records, wfStatus, wfStep, dispatched, runs, gateWait, daemon>>

ConsumeVerdict(d) ==
    /\ At(d, "verdict")
    /\ Finishes(d, "result", StepAfter(records[drv[d].seq].step))

\* _run_delivery_step asks ShipManager.perform_action for the effect, which
\* writes its intent down before it begins.
EnterDelivery(d) ==
    /\ At(d, "enter") /\ KindOf(d) = "delivery"
    /\ Await(d, [drv[d] EXCEPT !.pc = "work"])
    /\ UNCHANGED <<durable, runs, gateWait, daemon>>

EffectBegins(d) ==
    /\ At(d, "work") /\ KindOf(d) = "delivery"
    /\ drv[d].seq \notin dispatched
    /\ dispatched' = dispatched \cup {drv[d].seq}
    /\ UNCHANGED <<records, wfStatus, wfStep, reviewed, memory, daemon>>

SettleDelivery(seq) ==
    /\ records[seq].status = "running"
    /\ \E dest \in Dests[records[seq].step] :
           Advance(seq, "result", dest, records)

DeliveryDone(d) ==
    /\ At(d, "work") /\ KindOf(d) = "delivery" /\ drv[d].seq \in dispatched
    /\ SettleDelivery(drv[d].seq)
    /\ Await(d, [drv[d] EXCEPT !.pc = "decided"])
    /\ UNCHANGED <<dispatched, reviewed, runs, gateWait, daemon>>

TakeSettled(d) ==
    /\ At(d, "decided")
    /\ AttemptAfterDecision(d)
    /\ UNCHANGED <<durable, runs, gateWait, daemon>>

\* park_gate, then the gate future.
ParkGate(d) ==
    /\ At(d, "enter") /\ KindOf(d) \in {"gate", "choice"}
    /\ LET n == drv[d].seq
       IN  records' = Rewrite(records, n, "waiting", records[n].pause, "result")
    /\ SetRun("waiting", records[drv[d].seq].step)
    /\ Await(d, [drv[d] EXCEPT !.pc = "parked"])
    /\ gateWait' = d
    /\ UNCHANGED <<dispatched, reviewed, runs, daemon>>

\* _await_choice and _await_gate, woken.
Woken(d) ==
    /\ At(d, "parked") /\ drv[d].woken
    /\ gateWait' = NoDriver
    /\ \/ /\ KindOf(d) = "choice"
          /\ AttemptAfterDecision(d)
          /\ UNCHANGED durable
       \/ /\ KindOf(d) = "gate"
          /\ Finish(drv[d].seq, "ok", "result")
          /\ Proceed(d, [drv[d] EXCEPT !.pc = "resumed"])
          /\ UNCHANGED <<wfStatus, wfStep, dispatched, reviewed>>
    /\ UNCHANGED <<runs, daemon>>

GateResumed(d) ==
    /\ At(d, "resumed")
    /\ SetRun("running", records[drv[d].seq].step)
    /\ Proceed(d, Toward(d, StepAfter(records[drv[d].seq].step)))
    /\ UNCHANGED <<records, dispatched, reviewed, runs, gateWait, daemon>>

RunCompletes(d) ==
    /\ At(d, "complete")
    /\ SetRun("complete", NoStep)
    /\ EndRun(d)
    /\ UNCHANGED <<records, dispatched, reviewed, runs, gateWait, daemon>>

\* _run_done: forget the run, unless _runs already holds a newer one.
RunDone(d) ==
    /\ At(d, "done")
    /\ Await(d, Off)
    /\ runs' = IF runs = d THEN NoDriver ELSE runs
    /\ UNCHANGED <<durable, gateWait, daemon>>

-----------------------------------------------------------------------------
(* Operator requests.  A request naming a stale attempt, an unoffered      *)
(* choice or a run that is not waiting is refused and changes nothing.     *)

\* Without ServeDuringRecovery an operator acts only on a recovered run.
OperatorMayAct ==
    /\ cpu = NoDriver
    /\ \/ boot = "serving"
       \/ boot = "recovering" /\ ServeDuringRecovery
    /\ ServeDuringRecovery \/ \A d \in Drivers : drv[d].pc # "recover"

WaitingOn(kind) ==
    /\ wfStatus = "waiting" /\ records # << >>
    /\ Last.status = "waiting" /\ ~Last.pause /\ Kind[Last.step] = kind

\* Resolve the gate's future, if it is there and not already resolved.
FutureOpen == gateWait # NoDriver /\ ~drv[gateWait].woken
Wake == drv' = [drv EXCEPT ![gateWait].woken = TRUE] /\ UNCHANGED runs

AnswerGate ==
    /\ OperatorMayAct /\ WaitingOn("choice") /\ Len(records) < MaxAttempts
    /\ LET n == Len(records)
           history == Rewrite(records, n, "ok", FALSE, Last.outcome)
       IN  \E dest \in Dests[Last.step] :
             /\ Advance(n, "result", dest, history)
             /\ IF FutureOpen THEN Wake
                ELSE IF dest = Complete THEN UNCHANGED <<drv, runs>>
                ELSE Kick(Taking(n + 1, FALSE))
    /\ UNCHANGED <<dispatched, reviewed, gateWait, cpu, daemon>>

\* resume_gate, format 1: only the future is resolved.
ResumeGate ==
    /\ OperatorMayAct /\ WaitingOn("gate") /\ FutureOpen
    /\ Wake
    /\ UNCHANGED <<durable, gateWait, cpu, daemon>>

PausedLast ==
    records # << >> /\ Last.status = "waiting" /\ Last.pause

\* _retry_target: a retry does not get past the blocked step's bound.  It hops
\* once: whether the gate it escapes to has reached a bound is not asked.
RetryTarget_Unbounded(recs, s) == s

RetryTarget(recs, s) == IF AtBound(recs, s) THEN OnExhausted[s] ELSE s

\* retry_step -> retry_paused_step: fail the paused attempt, open the next.
RetryStep ==
    /\ OperatorMayAct /\ PausedLast /\ Len(records) < MaxAttempts
    /\ LET n == Len(records)
           target == RetryTarget(records, Last.step)
       IN  /\ records' = Append(Rewrite(records, n, "failed", FALSE, Last.outcome),
                                NewAttempt(target, records))
           /\ SetRun("running", target)
           /\ Kick(Taking(n + 1, FALSE))
    /\ UNCHANGED <<dispatched, reviewed, gateWait, cpu, daemon>>

\* continue_delivery -> resume_paused_attempt: the same row runs again.
ContinueDelivery ==
    /\ OperatorMayAct /\ PausedLast /\ Kind[Last.step] = "delivery"
    /\ runs = NoDriver
    /\ records' = Rewrite(records, Len(records), "running", FALSE, Last.outcome)
    /\ SetRun("running", Last.step)
    /\ Kick(Taking(Len(records), FALSE))
    /\ UNCHANGED <<dispatched, reviewed, gateWait, cpu, daemon>>

-----------------------------------------------------------------------------
(* The daemon stops and starts.                                            *)

\* A kill at any point, or shutdown() cancelling the coroutines at an await.
\* A stop before the handoff belongs to the spawn pipeline, not to the run.
Crash ==
    /\ boot # "down" /\ wfStatus # "none" /\ crashes < MaxCrashes
    /\ crashes' = crashes + 1 /\ boot' = "down" /\ snapshot' = "none"
    /\ drv' = [d \in Drivers |-> Off]
    /\ runs' = NoDriver /\ gateWait' = NoDriver /\ cpu' = NoDriver
    /\ UNCHANGED durable

\* classify_startup_tasks reads the task row; requests are served from here on.
Restart ==
    /\ boot = "down"
    /\ boot' = "recovering" /\ snapshot' = wfStatus
    /\ UNCHANGED <<durable, memory, crashes>>

\* _recover_one, once its sessions are resumed, calls recover_run with the task
\* it was given at classification.
RecoverRun_Twice ==
    /\ boot = "recovering" /\ cpu = NoDriver
    /\ UNCHANGED <<boot, snapshot, crashes>>
    /\ Kick([Off EXCEPT !.pc = "recover"])
    /\ UNCHANGED <<durable, gateWait, cpu>>

RecoverRun_When(status) ==
    /\ boot = "recovering" /\ cpu = NoDriver
    /\ boot' = "serving"
    /\ IF runs # NoDriver \/ snapshot \notin status
       THEN UNCHANGED <<drv, runs>>
       ELSE Kick([Off EXCEPT !.pc = "recover"])
    /\ UNCHANGED <<durable, gateWait, cpu, snapshot, crashes>>

RecoverRun_AnyStatus == RecoverRun_When({"running", "waiting", "complete", "failed"})
RecoverRun_RunningOnly == RecoverRun_When({"running"})
RecoverRun_WaitingOnly == RecoverRun_When({"waiting"})

RecoverRun ==
    /\ boot = "recovering" /\ cpu = NoDriver
    /\ boot' = "serving"
    /\ IF runs # NoDriver \/ snapshot \notin {"running", "waiting"}
       THEN UNCHANGED <<drv, runs>>
       ELSE Kick([Off EXCEPT !.pc = "recover"])
    /\ UNCHANGED <<durable, gateWait, cpu, snapshot, crashes>>

(* _recover_attempt, by what the last record says.                         *)

RecoverEmpty(d) ==
    /\ At(d, "recover") /\ records = << >>
    /\ Proceed(d, Toward(d, Order[1]))
    /\ UNCHANGED <<durable, runs, gateWait, daemon>>

\* A pause is re-armed as persisted; a gate is re-armed on the same row.
RecoverWaiting(d) ==
    /\ At(d, "recover") /\ records # << >> /\ Last.status = "waiting"
    /\ IF Last.pause
       THEN EndRun(d) /\ UNCHANGED <<wfStatus, wfStep, gateWait>>
       ELSE /\ SetRun("waiting", Last.step)
            /\ Await(d, [Off EXCEPT !.pc = "parked", !.seq = Len(records)])
            /\ gateWait' = d
    /\ UNCHANGED <<records, dispatched, reviewed, runs, daemon>>

RecoverRunning_NewAttempt(d) ==
    /\ At(d, "recover") /\ records # << >> /\ Last.status = "running"
    /\ Kind[Last.step] # "delivery"
    /\ Proceed(d, Toward(d, Last.step))
    /\ UNCHANGED <<durable, runs, gateWait, daemon>>

RecoverRunning(d) ==
    /\ At(d, "recover") /\ records # << >> /\ Last.status = "running"
    /\ Kind[Last.step] # "delivery"
    /\ Proceed(d, Taking(Len(records), Kind[Last.step] = "agent" /\ Last.prompted))
    /\ UNCHANGED <<durable, runs, gateWait, daemon>>

\* _recover_delivery_attempt: adopt an effect the journal says succeeded, else
\* wait for an explicit continuation.  Never dispatched again from here.
RecoverDelivery(d) ==
    /\ At(d, "recover") /\ records # << >> /\ Last.status = "running"
    /\ Kind[Last.step] = "delivery"
    /\ \/ /\ Len(records) \in dispatched
          /\ SettleDelivery(Len(records))
          /\ Proceed(d, [drv[d] EXCEPT !.pc = "decided", !.seq = Len(records)])
       \/ /\ records' = Rewrite(records, Len(records), "waiting", TRUE, Last.outcome)
          /\ SetRun("waiting", Last.step)
          /\ EndRun(d)
    /\ UNCHANGED <<dispatched, reviewed, runs, gateWait, daemon>>

RecoverFinished(d) ==
    /\ At(d, "recover") /\ records # << >> /\ Last.status \in {"ok", "failed"}
    /\ LET s == Last.step
           routed == Kind[s] = "decision" /\ Last.outcome # NoStep
           answered == Kind[s] = "choice" /\ Last.outcome # NoStep
       IN  \/ /\ routed
              /\ Proceed(d, Toward(d, Last.outcome))
              /\ UNCHANGED <<wfStatus, wfStep>>
           \/ /\ answered
              /\ SetRun("failed", NoStep)
              /\ EndRun(d)
           \/ /\ ~routed /\ ~answered
              /\ IF StepAfter(s) \in Steps
                 THEN Proceed(d, Toward(d, StepAfter(s)))
                 ELSE EndRun(d)
              /\ UNCHANGED <<wfStatus, wfStep>>
    /\ UNCHANGED <<records, dispatched, reviewed, runs, gateWait, daemon>>

-----------------------------------------------------------------------------
Recover(d) ==
    \/ RecoverEmpty(d) \/ RecoverWaiting(d) \/ RecoverRunning(d)
    \/ RecoverDelivery(d) \/ RecoverFinished(d)

RunStep(d) ==
    \/ EnterAgent(d) \/ SessionReady(d) \/ PromptAcked(d) \/ TurnEnds(d)
    \/ EnterWork(d) \/ CommandDone(d) \/ CaptureDone(d) \/ Decide(d)
    \/ EnterReview(d) \/ ReviewLands(d) \/ ConsumeVerdict(d)
    \/ EnterDelivery(d) \/ EffectBegins(d) \/ DeliveryDone(d) \/ TakeSettled(d)
    \/ ParkGate(d) \/ StepPauses(d) \/ StepFails(d)

Execute(d) ==
    \/ Open(d) \/ Loop(d) \/ RunStep(d) \/ Woken(d) \/ GateResumed(d)
    \/ RunFails(d) \/ RunCompletes(d) \/ RunDone(d) \/ Recover(d)

Operator == AnswerGate \/ ResumeGate \/ RetryStep \/ ContinueDelivery

Next ==
    \/ StartRun \/ Operator \/ Crash \/ Restart \/ RecoverRun
    \/ \E d \in Drivers : Execute(d)

Spec == Init /\ [][Next]_vars

\* The event loop runs what is ready, and startup recovery is not postponed.
\* Nothing makes an agent's turn, a reviewer, a command or a forge answer:
\* FairDaemon leaves those waits out, FairWorld adds that they end.
External == {"session", "prompt", "idle", "work"}

FairDaemon ==
    /\ WF_vars(StartRun) /\ WF_vars(Restart) /\ WF_vars(RecoverRun)
    /\ \A d \in Drivers : WF_vars(drv[d].pc \notin External /\ Execute(d))

FairWorld == FairDaemon /\ \A d \in Drivers : WF_vars(Execute(d))

LiveSpec   == Spec /\ FairWorld

-----------------------------------------------------------------------------
(* Properties.                                                             *)

\* A coroutine past its start is on an attempt that exists.
Placed(d) ==
    /\ drv[d].pc \notin {"off", "recover", "open", "complete", "done"}
         => drv[d].seq \in DOMAIN records
    /\ drv[d].pc = "open" => drv[d].to \in Steps

RowsOK ==
    /\ records \in Seq(Attempt)
    /\ wfStatus \in {"none", "running", "waiting", "complete", "failed"}
    /\ wfStep \in Steps \cup {NoStep}
    /\ dispatched \subseteq DOMAIN records /\ reviewed \subseteq DOMAIN records

CoroutinesOK ==
    /\ drv \in [Drivers -> Driver]
    /\ \A d \in Drivers : Placed(d)
    /\ runs \in Drivers \cup {NoDriver}
    /\ gateWait \in Drivers \cup {NoDriver}
    /\ cpu \in Drivers \cup {NoDriver}

DaemonOK ==
    /\ boot \in {"serving", "down", "recovering"}
    /\ snapshot \in {"none", "running", "waiting", "complete", "failed"}
    /\ crashes \in Nat

\* Every row, coroutine and daemon variable has its shape, and no coroutine
\* refers to an attempt that was never recorded.
TypeOK == RowsOK /\ CoroutinesOK /\ DaemonOK

IsOpen(r) == r.status \in {"running", "waiting"}

\* "Steps strictly sequential": whatever crashes and answers interleave, only
\* the newest attempt is ever open, so no earlier one can still be acted on.
OneOpenAttempt ==
    \A i \in DOMAIN records : IsOpen(records[i]) => i = Len(records)

WithinBound(i) ==
    LET s == records[i].step
    IN  MaxVisits[s] # 0 => VisitsBy(records, s, i) <= MaxVisits[s]

\* The attempt before `i` was of a step at its bound, and `i` is its escape.
IsEscape(i) ==
    /\ i - 1 \in DOMAIN records
    /\ LET s == records[i - 1].step
       IN  /\ MaxVisits[s] # 0 /\ VisitsBy(records, s, i - 1) >= MaxVisits[s]
           /\ records[i].step = OnExhausted[s]

\* No route, answer, retry or restart opens an attempt beyond its step's bound.
\* The exception is the gate a step at its bound escapes to right behind that
\* step: _retry_target opens it without counting the gate's own visits.
VisitBound == \A i \in DOMAIN records : WithinBound(i) \/ IsEscape(i)

\* The evidence bound at entry is finished work, and newer than every earlier
\* attempt of the step its selector counts `after`: no attempt is started on,
\* or approved from, what an earlier round of the loop left behind.
EvidenceIsFresh ==
    \A i \in DOMAIN records : \A sel \in Evidence[records[i].step] :
        LET e == records[i].evidence[sel]
        IN  e # 0 => /\ e < i /\ records[e].status = "ok"
                     /\ \A j \in e + 1 .. i - 1 : records[j].step # sel.after

\* "Runs complete/failed are never re-driven", restarts included.
TerminalIsFinal ==
    [][(wfStatus \in {"complete", "failed"}) => wfStatus' = wfStatus /\ records' = records]_vars

Live(d) == drv[d].pc \notin {"off", "done"}

\* The one place a run is left behind: its last declared step is finished and
\* the daemon stopped before the run row said so.
LostEnding ==
    /\ records # << >> /\ ~IsOpen(Last) /\ StepAfter(Last.step) = Complete
    /\ \A d \in Drivers : ~Live(d)

\* At rest, the run row shows a wait exactly when the newest attempt holds one,
\* whichever of their commits a stop fell between: no operator is shown a
\* question nobody asks, and none that is asked is hidden.  A run left at a lost
\* ending keeps the row of the gate it ended on.
WaitIsHeld ==
    /\ boot = "serving" /\ cpu = NoDriver
    /\ \A d \in Drivers : drv[d].pc # "recover"
    => \/ wfStatus = "waiting" <=> records # << >> /\ Last.status = "waiting"
       \/ LostEnding

\* If turns, reviews, commands and effects end, every run comes to a wait or
\* an ending: the visit bounds leave no cycle to spin in.
RunSettles == wfStatus = "running" ~> wfStatus # "running" \/ LostEnding

\* A plain gate's question can be answered in the end: some coroutine holds
\* the future resume_gate needs.
GateIsArmed == WaitingOn("gate") ~> ~WaitingOn("gate") \/ gateWait # NoDriver
=============================================================================
