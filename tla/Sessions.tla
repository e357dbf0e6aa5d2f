------------------------------ MODULE Sessions ------------------------------
(***************************************************************************)
(* One named agent session of one task: the children that serve it one     *)
(* after another, the boundary under which a model policy is handed to it, *)
(* the status the tracker derives from its frames, the questions it asks,  *)
(* and the workflow step and the operator who both prompt it               *)
(* (`agent.py`, `sessions.py`, `rpc.py`, `registry/sessions.py`, the agent *)
(* routes of `api/rest.py`, `WorkflowRunner._ensure_session` and           *)
(* `_run_agent_step`, session recovery in `recovery.py`).                  *)
(*                                                                         *)
(* What a child writes to its stdout reaches the daemon in order: frames,  *)
(* acknowledgements and answers to get_state share one queue.  Sessions do *)
(* not share state with each other, so one is enough.                      *)
(***************************************************************************)
EXTENDS Naturals, Sequences

CONSTANTS
    StepPolicy,    \* the accepted policy of each step, [active, aux] records
    MaxChildren,   \* bound: children started
    MaxQuestions,  \* bound: questions asked
    MaxRequests,   \* bound: requests of the operator
    MaxRestarts    \* bound: restarts of the daemon

ASSUME SessionAssumption ==
    /\ StepPolicy \in Seq([active : Nat, aux : Nat]) /\ StepPolicy # <<>>
    /\ MaxChildren \in Nat \ {0}
    /\ MaxQuestions \in Nat /\ MaxRequests \in Nat /\ MaxRestarts \in Nat

VARIABLES
    child,       \* the processes started so far
    registered,  \* AgentSupervisor._handles: a child, or 0
    lock,        \* session_boundary: is a policy being applied
    applied,     \* durable: task_sessions.applied_policy_json
    known,       \* durable: omp_session_id has been captured
    status,      \* SessionTracker._sessions
    pending,     \* SessionTracker._pending: a question, or none
    frames,      \* what the watched child wrote and nobody handled yet
    watched,     \* the child behind `frames`
    debounce,    \* "none", "armed", "asked" (get_state is on its way), or
                 \* "stale": the one of a child that has been replaced
    watchdog,    \* is the stall watchdog armed
    run,         \* the coroutine of the workflow step
    asked, requests, restarts

vars == <<child, registered, lock, applied, known, status, pending, frames, watched,
          debounce, watchdog, run, asked, requests, restarts>>

durable == <<applied, known>>
timers == <<debounce, watchdog>>
counters == <<asked, requests, restarts>>

Steps == 1..Len(StepPolicy)
Children == 1..MaxChildren
None == [id |-> 0, kind |-> "none"]
NoChild == [at |-> "none", policy |-> [active |-> 0, aux |-> 0], retiring |-> FALSE,
            turn |-> "none", question |-> None, mail |-> <<>>]

\* run.step: the step to run next, 0 once the run has failed.
\* run.over: the turn of the step's own prompt has ended.
\* run.heard: the first event since the step subscribed to the hub.
Between == [at |-> "ready", step |-> 1, child |-> 0, over |-> FALSE, heard |-> "none"]

Init ==
    /\ child = [c \in Children |-> NoChild]
    /\ registered = 0 /\ lock = FALSE
    /\ applied = [active |-> 0, aux |-> 0] /\ known = FALSE
    /\ status = "none" /\ pending = None
    /\ frames = <<>> /\ watched = 0
    /\ debounce = "none" /\ watchdog = FALSE
    /\ run = Between
    /\ asked = 0 /\ requests = 0 /\ restarts = 0

Live(c) == c # 0 /\ child[c].at = "live"
Busy(c) == child[c].turn # "none" \/ child[c].mail # <<>>

\* SessionTracker._transition: failed is terminal, an untracked session starts.
Becomes(s) == IF status = "failed" \/ (status = "none" /\ s # "starting")
                THEN status ELSE s
From(allowed, s) == IF status \in allowed THEN Becomes(s) ELSE status

-----------------------------------------------------------------------------
(* The child: what omp does, as far as the daemon can see it                *)

\* A frame of a child nobody watches reaches nobody.
Writes(c, fs) == frames' = IF watched = c THEN frames \o fs ELSE frames

Frame(type) == [type |-> type, question |-> None, busy |-> FALSE]

ChildSteps(c) ==
    /\ Live(c)
    /\ UNCHANGED <<registered, lock, durable, status, pending, watched, timers,
                   requests, restarts>>

\* A queued message begins a turn.
Begin(c) ==
    /\ ChildSteps(c) /\ child[c].turn = "none" /\ child[c].mail # <<>>
    /\ child' = [child EXCEPT ![c].turn = Head(child[c].mail),
                              ![c].mail = Tail(child[c].mail)]
    /\ Writes(c, <<Frame("agent_start")>>)
    /\ UNCHANGED <<run, asked>>

\* extension_ui_request, with the tool execution it belongs to.
Asks(c, kind) ==
    /\ ChildSteps(c) /\ child[c].turn # "none" /\ child[c].question = None
    /\ asked < MaxQuestions /\ asked' = asked + 1
    /\ LET q == [id |-> asked', kind |-> kind] IN
       /\ child' = [child EXCEPT ![c].question = q]
       /\ Writes(c, <<[Frame("request") EXCEPT !.question = q]>>)
    /\ UNCHANGED run

\* The ask ends without an answer.  An approval is only ever answered.
Withdraws(c) ==
    /\ ChildSteps(c) /\ child[c].question.kind = "ask"
    /\ Writes(c, <<[Frame("ask_end") EXCEPT !.question = child[c].question]>>)
    /\ child' = [child EXCEPT ![c].question = None]
    /\ UNCHANGED <<run, asked>>

\* The model call is retried, and goes on.
Retries(c) ==
    /\ ChildSteps(c) /\ child[c].turn # "none" /\ child[c].question = None
    /\ ~\E i \in DOMAIN frames : frames[i].type = "auto_retry_start"
    /\ Writes(c, <<Frame("auto_retry_start"), Frame("auto_retry_end")>>)
    /\ UNCHANGED <<child, run, asked>>

\* The end of a turn, noted for the step whose prompt began it.
Over(c) == run' = IF child[c].turn = "step" /\ run.child = c
                    THEN [run EXCEPT !.over = TRUE] ELSE run

Ends(c) ==
    /\ ChildSteps(c) /\ child[c].turn # "none" /\ child[c].question = None
    /\ Over(c)
    /\ child' = [child EXCEPT ![c].turn = "none"]
    /\ Writes(c, <<Frame("agent_end")>>)
    /\ UNCHANGED asked

Dies(c) ==
    /\ ChildSteps(c)
    /\ child' = [child EXCEPT ![c].at = "dead"]
    /\ UNCHANGED <<frames, run, asked>>

-----------------------------------------------------------------------------
(* SessionTracker                                                           *)

\* MUTANT: only the frames that name a stall recover from one.
Recovers_Not == status

\* _recover_from_stall: any other frame of the agent.
Recovers == From({"stalled"}, "working")

\* MUTANT: the allowed status of an answered approval is missing.
Resumes_AskOnly == From({"waiting-input"}, "working")

\* answer_pending: the turn goes on.
Resumes == From({"waiting-input", "waiting-approval"}, "working")

ClearPending == pending' = None

\* Cancelling the debounce forgets its request: the response will be unknown.
Unanswered(fs) ==
    [i \in DOMAIN fs |-> IF fs[i].type = "state" THEN Frame("unknown") ELSE fs[i]]

\* The response for an unknown request is dropped.
OnUnknown ==
    /\ Head(frames).type = "unknown"
    /\ frames' = Tail(frames) /\ UNCHANGED <<status, pending, timers>>

\* `agent_start`, in whatever status but failed.
OnStart ==
    /\ Head(frames).type = "agent_start"
    /\ status' = Becomes("working") /\ ClearPending
    /\ debounce' = "none" /\ watchdog' = TRUE
    /\ frames' = Unanswered(Tail(frames))

OnEnd ==
    /\ Head(frames).type = "agent_end"
    /\ status' = Recovers /\ ClearPending
    /\ debounce' = "armed" /\ watchdog' = FALSE
    /\ frames' = Unanswered(Tail(frames))

\* A request outside a turn is ignored; a stalled session recovers first.
OnRequest ==
    /\ Head(frames).type = "request"
    /\ IF status \in {"working", "stalled"}
         THEN /\ pending' = Head(frames).question
              /\ status' = IF pending'.kind = "approval" THEN "waiting-approval"
                                                         ELSE "waiting-input"
         ELSE UNCHANGED <<status, pending>>
    /\ watchdog' = FALSE
    /\ frames' = Tail(frames) /\ UNCHANGED debounce

\* The execution that ends is the one a pending ask belongs to, or unknown.
OnAskEnd ==
    /\ Head(frames).type = "ask_end"
    /\ IF pending = Head(frames).question
         THEN ClearPending /\ status' = From({"waiting-input", "stalled"}, "working")
         ELSE UNCHANGED pending /\ status' = Recovers
    /\ watchdog' = (status' = "working")
    /\ frames' = Tail(frames) /\ UNCHANGED debounce

OnRetry ==
    /\ Head(frames).type \in {"auto_retry_start", "auto_retry_end"}
    /\ status' = IF Head(frames).type = "auto_retry_start"
                   THEN From({"working", "stalled"}, "retrying")
                   ELSE From({"retrying"}, "working")
    /\ watchdog' = (status' = "working")
    /\ frames' = Tail(frames) /\ UNCHANGED <<pending, debounce>>

\* _dispatch, then _watch_events: one frame of the child's fan-out.
HandleFrame ==
    /\ frames # <<>>
    /\ OnUnknown \/ OnStart \/ OnEnd \/ OnRequest \/ OnAskEnd \/ OnRetry
    /\ UNCHANGED <<child, registered, lock, durable, watched, run, counters>>

\* The hub's subscriber keeps the first event it waits for.
Hears(event) == run' = IF run.at = "waiting" /\ run.heard = "none"
                         THEN [run EXCEPT !.heard = event] ELSE run

\* _debounced_idle: the quiet period is over, get_state is written.
DebounceAsks ==
    /\ debounce \in {"armed", "stale"}
    /\ IF debounce = "armed" /\ Live(watched)
         THEN /\ debounce' = "asked"
              /\ frames' = Append(frames, [Frame("state") EXCEPT !.busy = Busy(watched)])
              /\ UNCHANGED <<status, run>>
         ELSE \* the request fails: the quiet period alone decides
              /\ debounce' = "none" /\ UNCHANGED frames
              /\ status' = From({"working"}, "idle")
              /\ IF status = "working" THEN Hears("idle") ELSE UNCHANGED run
    /\ UNCHANGED <<child, registered, lock, durable, pending, watched, watchdog, counters>>

\* A turn streams or a message is queued: not a turn boundary.
StaysBusy(f) == f.busy

\* _debounced_idle: the answer.
DebounceHears ==
    /\ frames # <<>> /\ Head(frames).type = "state"
    /\ frames' = Tail(frames) /\ debounce' = "none"
    /\ IF StaysBusy(Head(frames))
         THEN watchdog' = TRUE /\ UNCHANGED <<status, run>>
         ELSE /\ UNCHANGED watchdog
              /\ status' = From({"working"}, "idle")
              /\ IF status = "working" THEN Hears("idle") ELSE UNCHANGED run
    /\ UNCHANGED <<child, registered, lock, durable, pending, watched, counters>>

Stalls ==
    /\ watchdog /\ watchdog' = FALSE
    /\ status' = From({"working"}, "stalled")
    /\ UNCHANGED <<child, registered, lock, durable, pending, frames, watched, debounce,
                   run, counters>>

-----------------------------------------------------------------------------
(* AgentSupervisor                                                          *)

\* AgentSupervisor._watch, once both pipes are flushed.  The exit of a child
\* being replaced is part of the handoff; any other fails the session.
ExitSeen(c) ==
    /\ child[c].at = "dead"
    /\ c = watched => ~\E i \in DOMAIN frames : frames[i].type = "ack"
    /\ child' = [child EXCEPT ![c] = [NoChild EXCEPT !.at = "gone"]]
    /\ registered' = IF registered = c THEN 0 ELSE registered
    /\ IF child[c].retiring
         THEN UNCHANGED <<status, pending, timers, frames, run>>
         ELSE /\ status' = Becomes("failed") /\ ClearPending
              /\ debounce' = "none" /\ watchdog' = FALSE /\ frames' = Unanswered(frames)
              /\ Hears("exited")
    /\ UNCHANGED <<lock, durable, watched, counters>>

\* AgentSupervisor._retire: no one can take this child any more.
Retire(c) ==
    /\ child' = [child EXCEPT ![c].retiring = TRUE]
    /\ registered' = IF registered = c THEN 0 ELSE registered

\* AgentSupervisor._start_locked, up to the ready handshake.
Starts(resumed) ==
    \E c \in Children :
        /\ child[c].at = "none" /\ \A d \in 1..(c - 1) : child[d].at # "none"
        /\ child' = [child EXCEPT ![c].at = "starting"]
        /\ status' = IF resumed THEN status ELSE Becomes("starting")
        /\ run' = [run EXCEPT !.at = "starting", !.child = c]

\* The step's failure fails the run; step 0 is no step.
Failed == [Between EXCEPT !.step = 0]

-----------------------------------------------------------------------------
(* The run: WorkflowRunner._ensure_session under the session's boundary     *)

Unheard == UNCHANGED <<applied, known, pending, frames, watched, timers, counters>>

\* session_start_failed, and the lock is given back.
Refused == /\ status' = Becomes("failed") /\ run' = Failed /\ lock' = FALSE

\* The boundary is entered: a live child is read again under it.
Enter ==
    /\ run.at = "ready" /\ run.step \in Steps /\ ~lock
    /\ \/ /\ Live(registered) /\ lock' = TRUE
          /\ run' = [run EXCEPT !.at = "checking", !.child = registered]
          /\ UNCHANGED <<child, status>>
       \/ registered = 0 /\ lock' = TRUE /\ Starts(FALSE)
       \/ \* dead, and not yet unregistered: AgentAlreadyRunningError
          registered # 0 /\ ~Live(registered) /\ Refused /\ UNCHANGED child
    /\ Unheard /\ UNCHANGED registered

\* _await_turn_boundary: a question, a turn or a message is waiting; or the
\* child did not answer (its state, or the name of its session).
NotAtBoundary ==
    /\ run.at = "checking"
    /\ Refused /\ UNCHANGED <<child, registered>> /\ Unheard

\* The child's answer comes behind every frame it wrote before.
AtBoundary ==
    /\ run.at = "checking" /\ frames = <<>> /\ Live(run.child) /\ pending = None /\ ~Busy(run.child)
    /\ run' = [run EXCEPT !.at = "changing"]
    /\ UNCHANGED <<child, registered, lock, status>> /\ Unheard

Wanted == StepPolicy[run.step]

\* MUTANT: a live child takes any policy in place.
SameAuxiliary_Live == Live(run.child)

\* The helpers of a child are fixed when it starts.
SameAuxiliary == child[run.child].policy.aux = Wanted.aux

\* _reconfigure_in_place: the active pair is asserted, read back and recorded.
Reconfigure ==
    /\ run.at = "changing" /\ SameAuxiliary /\ Live(run.child)
    /\ child' = [child EXCEPT ![run.child].policy.active = Wanted.active]
    /\ applied' = Wanted
    /\ run' = [run EXCEPT !.at = "applied"] /\ lock' = FALSE
    /\ UNCHANGED <<registered, known, status, pending, frames, watched, timers, counters>>

\* The child took the model and refused the thinking, answered neither, or
\* the record could not be written: it is on an unknown pair.
GiveUp(c) ==
    /\ child' = [child EXCEPT ![c].policy.active = 0, ![c].retiring = TRUE]
    /\ registered' = IF registered = c THEN 0 ELSE registered
    /\ run' = [run EXCEPT !.at = "abandoning"] /\ UNCHANGED <<lock, status>>

ReconfigureFails ==
    /\ run.at = "changing" /\ SameAuxiliary
    /\ GiveUp(run.child) /\ Unheard

\* _replace_for_policy: the old child goes completely before the next comes.
Replace ==
    /\ run.at = "changing" /\ ~SameAuxiliary
    /\ status' = Becomes("starting")
    /\ Retire(run.child)
    /\ run' = [run EXCEPT !.at = "retiring"]
    /\ UNCHANGED lock /\ Unheard

Retired ==
    /\ run.at \in {"retiring", "abandoning"} /\ child[run.child].at = "gone"
    /\ IF run.at = "retiring" THEN Starts(TRUE) /\ UNCHANGED lock
                              ELSE Refused /\ UNCHANGED child
    /\ Unheard /\ UNCHANGED registered

\* What the child that is being started runs under, once it is verified.
Verified == IF run.at = "recovering" THEN applied ELSE Wanted

\* Ready, asserted, read back, the same native session: recorded, registered
\* and watched.  The handshake takes longer than what an earlier child wrote;
\* its debounce is left to run out.
Started ==
    /\ run.at \in {"starting", "recovering"} /\ frames = <<>>
    /\ child' = [child EXCEPT ![run.child].at = "live", ![run.child].policy = Verified]
    /\ applied' = Verified
    /\ registered' = run.child /\ lock' = FALSE
    /\ watched' = run.child /\ frames' = <<>>
    /\ debounce' = IF debounce = "none" THEN "none" ELSE "stale"
    /\ IF run.at = "starting"
         THEN run' = [run EXCEPT !.at = "applied"] /\ UNCHANGED status
         ELSE run' = [Between EXCEPT !.step = run.step] /\ status' = From({"starting"}, "idle")
    /\ UNCHANGED <<known, pending, watchdog, counters>>

\* MUTANT: the child that failed its handshake is left running.
Abandons_Running(c) == [child EXCEPT ![c].at = "live"]

\* The candidate of a failed start is killed before anybody can prompt it.
Abandons(c) == [child EXCEPT ![c] = [NoChild EXCEPT !.at = "gone"]]

\* A run whose session would not resume is driven again all the same.
StartFails ==
    /\ run.at \in {"starting", "recovering"}
    /\ child' = Abandons(run.child)
    /\ status' = Becomes("failed") /\ lock' = FALSE
    /\ run' = IF run.at = "starting" THEN Failed ELSE [Between EXCEPT !.step = run.step]
    /\ Unheard /\ UNCHANGED registered

Sequel == [Between EXCEPT !.step = run.step + 1]

\* The session's id is captured if it answers.  A step whose `when` is false
\* is complete as soon as its session is ready.
Skip ==
    /\ run.at = "applied"
    /\ known' \in {TRUE, known}
    /\ status' = From({"starting"}, "idle") /\ run' = Sequel
    /\ UNCHANGED <<child, registered, lock, applied, pending, frames, watched, timers, counters>>

Prompt ==
    /\ run.at = "applied" /\ Live(run.child)
    /\ known' \in {TRUE, known}
    /\ child' = [child EXCEPT ![run.child].mail = Append(@, "step")]
    /\ Writes(run.child, <<Frame("ack")>>)
    /\ run' = [run EXCEPT !.at = "sent"]
    /\ UNCHANGED <<registered, lock, applied, status, pending, watched, timers, counters>>

\* The child is gone, or the receipt does not come in time.
PromptFails ==
    /\ \/ run.at = "applied" /\ ~Live(run.child)
       \/ run.at = "sent"
    /\ run' = Failed
    /\ UNCHANGED <<child, registered, lock, status>> /\ Unheard

\* The receipt; the step listens to the hub from here on.
Acked ==
    /\ frames # <<>> /\ Head(frames).type = "ack" /\ frames' = Tail(frames)
    /\ run' = IF run.at = "sent" THEN [run EXCEPT !.at = "waiting"] ELSE run
    /\ UNCHANGED <<child, registered, lock, durable, status, pending, watched, timers, counters>>

StepHears ==
    /\ run.at = "waiting" /\ run.heard # "none"
    /\ run' = IF run.heard = "idle" THEN Sequel ELSE Failed
    /\ UNCHANGED <<child, registered, lock, status>> /\ Unheard

-----------------------------------------------------------------------------
(* The operator                                                             *)

\* MUTANT: AgentSupervisor.get, without the session's boundary.
Acquires_Unlocked == Live(registered)

\* AgentSupervisor.acquire: the live handle, read under the boundary.
Acquires == ~lock /\ Live(registered)

Operates == /\ requests < MaxRequests /\ requests' = requests + 1
            /\ UNCHANGED <<lock, durable, watched, timers, asked, restarts>>

\* Steering and follow-ups: one more message for the child.
FollowUp ==
    /\ Operates /\ Acquires
    /\ child' = [child EXCEPT ![registered].mail = Append(@, "operator")]
    /\ UNCHANGED <<registered, status, pending, frames, run>>

\* abort_and_prompt: the question is moot, the turn ends, the message is next.
Interrupt ==
    /\ Operates /\ Acquires /\ ClearPending
    /\ LET c == registered
           q == child[c].question IN
       /\ child' = [child EXCEPT ![c].turn = "none", ![c].question = None,
                                 ![c].mail = <<"operator">> \o @]
       /\ Writes(c, (IF q.kind = "ask" THEN <<[Frame("ask_end") EXCEPT !.question = q]>>
                                       ELSE <<>>)
                    \o (IF child[c].turn # "none" THEN <<Frame("agent_end")>> ELSE <<>>))
       /\ Over(c)
    /\ UNCHANGED <<registered, status>>

\* The question the card shows is answered, and clears on send, which does not
\* wait: a reply fits the pipe.  A reply to a question the child has dropped is
\* dropped too.
Answer ==
    /\ Operates /\ Acquires /\ pending # None
    /\ ClearPending /\ status' = Resumes
    /\ IF child[registered].question = pending
         THEN /\ child' = [child EXCEPT ![registered].question = None]
              /\ Writes(registered, IF pending.kind = "ask"
                    THEN <<[Frame("ask_end") EXCEPT !.question = pending]>> ELSE <<>>)
         ELSE UNCHANGED <<child, frames>>
    /\ UNCHANGED <<registered, run>>

\* The stop route: a kill, outside the boundary.
Stop ==
    /\ Operates /\ Live(registered)
    /\ child' = [child EXCEPT ![registered].at = "dead"]
    /\ UNCHANGED <<registered, status, pending, frames, run>>

-----------------------------------------------------------------------------
(* A restart: children and memory are gone, the task_sessions row stays.    *)
(* Recovery resumes the session before the run is driven again.             *)

Restart ==
    /\ restarts < MaxRestarts /\ restarts' = restarts + 1
    /\ LET gone == [c \in Children |-> IF child[c].at = "none" THEN NoChild
                                       ELSE [NoChild EXCEPT !.at = "gone"]]
           free == {c \in Children : gone[c].at = "none"} IN
       IF known
         THEN \E c \in free :
                /\ \A d \in free : c <= d
                /\ child' = [gone EXCEPT ![c].at = "starting"]
                /\ run' = [Between EXCEPT !.at = "recovering", !.step = run.step, !.child = c]
                /\ status' = "starting" /\ lock' = TRUE
         ELSE /\ child' = gone /\ run' = [Between EXCEPT !.step = run.step]
              /\ status' = "none" /\ lock' = FALSE
    /\ registered' = 0 /\ pending' = None /\ frames' = <<>> /\ watched' = 0
    /\ debounce' = "none" /\ watchdog' = FALSE
    /\ UNCHANGED <<durable, asked, requests>>

Daemon == HandleFrame \/ Acked \/ DebounceAsks \/ DebounceHears \/ StepHears
          \/ \E c \in Children : ExitSeen(c)

Entering == Enter \/ NotAtBoundary \/ AtBoundary \/ Reconfigure \/ ReconfigureFails
            \/ Replace \/ Retired \/ Started \/ StartFails

Driving == Skip \/ Prompt \/ PromptFails

Agent == \E c \in Children : Begin(c) \/ Asks(c, "ask") \/ Asks(c, "approval")
                              \/ Withdraws(c) \/ Retries(c) \/ Ends(c) \/ Dies(c)

Operator == FollowUp \/ Interrupt \/ Answer \/ Stop

Next == Daemon \/ Stalls \/ Entering \/ Driving \/ Agent \/ Operator \/ Restart

Spec == Init /\ [][Next]_vars

\* The event loop gets to everything that is ready; nothing is assumed of
\* the agent, the operator, or how an awaited call turns out.
FairSpec == Spec /\ WF_vars(HandleFrame) /\ WF_vars(Acked) /\ WF_vars(DebounceAsks)
                 /\ WF_vars(DebounceHears) /\ WF_vars(StepHears)
                 /\ \A c \in Children : WF_vars(ExitSeen(c))

-----------------------------------------------------------------------------
(* Properties                                                               *)

\* ADR-0027: configuration never interrupts work.  No child is retired while
\* it has a turn, a question or a message waiting.
HandoffNeverInterrupts ==
    [][\A c \in Children : child'[c].retiring /\ ~child[c].retiring
          => ~Busy(c) /\ child[c].question = None]_vars

\* No child runs on that the supervisor has lost: it is registered, or the
\* handoff that holds the session's boundary still has it in hand.
NoOrphan ==
    \A c \in Children : child[c].at = "live"
        => c = registered \/ (lock /\ run.child = c)

\* ADR-0027: what is recorded is what runs.  A child that can be prompted runs
\* under the recorded policy, the one recovery would restore it under; and a
\* step prompts only when that is the policy it was accepted with.
RecordedPolicy ==
    /\ Live(registered) => child[registered].policy = applied
    /\ run.at \in {"applied", "sent", "waiting"} => applied = Wanted

\* Once every frame and message is handled the card tells the truth: it shows a question
\* exactly while the agent waits for its answer, and no turn runs under a
\* session that reads idle or starting.
StatusAgrees ==
    frames = <<>> /\ debounce = "none" /\ ~lock /\ Live(registered) /\ status # "failed"
        /\ child[registered].mail = <<>>
        => LET c == child[registered] IN
           /\ pending = c.question
           /\ pending # None <=> status \in {"waiting-input", "waiting-approval"}
           /\ c.turn # "none" => status \notin {"idle", "starting"}

\* Liveness.  A step whose agent has nothing left to do does not wait for
\* ever, as long as its session has not been given up as failed.
Overdue == run.at = "waiting" /\ ~Busy(run.child)
StepEnds == ~<>[](Overdue /\ status # "failed")

=============================================================================
