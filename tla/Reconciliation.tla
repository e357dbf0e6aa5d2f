--------------------------- MODULE Reconciliation ---------------------------
(***************************************************************************)
(* What an upgrade leaves for the operator to decide                       *)
(* (work/reconciliation.py): a project that carried launch configuration   *)
(* on templates acknowledges the retired judge setting, and a task from    *)
(* before pinned inputs or retained definitions is confirmed to continue   *)
(* under a definition it can be explained by.                              *)
(*                                                                         *)
(* A confirmation runs in a thread of the request pool and commits several *)
(* times: decision, pin, session policies, the old escalation gate.  Other *)
(* requests, library and profile edits, the operator's Continue on the     *)
(* event loop and a stop of the daemon fall between any two commits.       *)
(***************************************************************************)
EXTENDS Naturals, Sequences, SequencesExt, FiniteSets

CONSTANTS
    Operators,     \* browser tabs that preview and confirm the task
    Values,        \* what `judge_model` may be set to in config.toml
    Revisions,     \* the definitions the library may hold under the task's name
    Definition,    \* revision -> the steps it declares, and what else may not fit
    Histories,     \* the step records such a task may have
    MaxEdits,      \* bound: changes of the library entry and of the profile
    MaxRestarts,   \* bound: stops of the daemon
    Returns        \* whether the operator may set the judge back to an older value

None == "none"

ASSUME ReconciliationAssumption ==
    /\ None \notin Values \cup Revisions
    /\ Histories # {} /\ MaxEdits \in Nat /\ MaxRestarts \in Nat /\ Returns \in BOOLEAN

VARIABLES
    up,        \* whether the daemon runs
    config,    \* config.toml's judge_model
    evidence,  \* the judge values recorded as daemon evidence, in order
    acked,     \* the project's DECISION_JUDGE_MODEL
    launch,    \* the project's launch_config_state
    page,      \* the judge value the open reconciliation page shows, or "closed"
    library,   \* the current revision of the task's workflow name
    profile,   \* which roles the chosen profile holds
    inputs,    \* whether the task has accepted launch inputs
    binding,   \* its pinned revision, and the boundary recorded with it
    records,   \* workflow_step_records
    policies,  \* whether its sessions have an applied policy
    decided,   \* DECISION_WORKFLOW_CONTINUATION
    tabs,      \* operator -> the continuation its tab previews
    calls,     \* operator -> the confirm request it has under way
    run,       \* what the resumed run waits for: nothing, a gate, a retry, a step
    edits, restarts

project == <<config, evidence, acked, launch, page>>
task    == <<inputs, binding, records, policies, decided, run>>
vars    == <<up, project, library, profile, task, tabs, calls, edits, restarts>>

Unpinned == [revision |-> None, through |-> 0, interrupted |-> 0]
Idle     == [pc |-> "idle"]
Blank    == [revision |-> None]

-----------------------------------------------------------------------------
\* The project.

\* Which recorded judge value the project still has to acknowledge.
PendingJudge ==
    IF evidence = << >> \/ acked = Last(evidence) THEN None ELSE Last(evidence)

\* MUTANT: any earlier acknowledgement keeps the project quiet.
StaysReconciled_Once(recorded) == acked # None

\* An acknowledged, unchanged value leaves the project as it is.
StaysReconciled(recorded) == acked = recorded

\* _capture_retired_judge_model: a value not seen before is new evidence, and
\* one this project has not acknowledged blocks its launches.
Captures ==
    IF config = None THEN UNCHANGED <<evidence, launch>>
    ELSE /\ evidence' = IF config \in ToSet(evidence) THEN evidence
                        ELSE Append(evidence, config)
         /\ launch' = IF StaysReconciled(config) THEN launch ELSE "needs-reconciliation"

\* The operator edits config.toml while the daemon is down.
Configures(v) ==
    /\ ~up /\ v # config
    /\ v \in ToSet(evidence) /\ v # Last(evidence) => Returns
    /\ config' = v
    /\ UNCHANGED <<up, evidence, acked, launch, page, library, profile, task, tabs, calls,
                   edits, restarts>>

\* project_reconciliation: the page shows what is pending now.
Shows ==
    /\ up /\ launch = "needs-reconciliation"
    /\ page' = PendingJudge
    /\ UNCHANGED <<up, config, evidence, acked, launch, library, profile, task, tabs, calls,
                   edits, restarts>>

\* confirm_project_reconciliation: refused unless what is pending now is
\* acknowledged; the page's acknowledgement is a yes or a no, and the
\* fingerprint it sends back names the project's evidence, not the daemon's.
ConfirmsProject ==
    /\ up /\ page # "closed"
    /\ PendingJudge # None => page # None
    /\ launch' = "reconciled"
    /\ acked' = IF PendingJudge = None THEN acked ELSE PendingJudge
    /\ page' = "closed"
    /\ UNCHANGED <<up, config, evidence, library, profile, task, tabs, calls, edits, restarts>>

-----------------------------------------------------------------------------
\* The task.

Open(r) == r.status \in {"running", "waiting"}

\* _legacy_gate_pair: the old engine's escalation, a gate recorded under the
\* name of the decision before it, which ended with no outcome.
LegacyGatePair(n) ==
    /\ n > 1
    /\ records[n - 1].step = records[n].step
    /\ records[n - 1].kind = "decision" /\ ~records[n - 1].outcome

KindIn(rev, step) ==
    IF step \in DOMAIN Definition[rev].steps THEN Definition[rev].steps[step] ELSE None

\* A record the candidate declares under the same kind, or the known pair.
Explains(rev, n) ==
    \/ KindIn(rev, records[n].step) = records[n].kind
    \/ /\ records[n].kind = "gate" /\ KindIn(rev, records[n].step) = "decision"
       /\ LegacyGatePair(n)

\* _compatibility_problems: an environment nobody wired, results under the old
\* envelope, records and sessions the candidate does not declare.
Problems(rev) ==
    {"environment" : x \in {y \in {1} : Definition[rev].environment}}
    \cup {"envelope" : n \in {k \in DOMAIN records :
                                Definition[rev].named /\ records[k].kind = "agent"
                                /\ records[k].outcome}}
    \cup {n \in DOMAIN records : ~Explains(rev, n)}

\* _history_boundary
Through == Len(records)
Interrupted == IF records # << >> /\ Open(Last(records)) THEN Len(records) ELSE 0

\* workflow_readiness: the one state that needs no confirmation.
Ready == inputs /\ binding # Unpinned

\* _resolve_continuation and _continuation_token: what confirming would pin and
\* what the operator is shown, or nothing where it refuses.
Resolution ==
    [revision |-> library, through |-> Through, interrupted |-> Interrupted,
     problems |-> Problems(library), roles |-> IF inputs THEN 0 ELSE profile]
Resolves == ~Ready /\ library # None

Previews(o) ==
    /\ up /\ calls[o].pc = "idle" /\ Resolves
    /\ tabs' = [tabs EXCEPT ![o] = Resolution]
    /\ UNCHANGED <<up, project, library, profile, task, calls, edits, restarts>>

\* confirm_task_configuration: stale previews and problems are refused first.
Confirms(o) ==
    /\ up /\ calls[o].pc = "idle" /\ Resolves
    /\ tabs[o] = Resolution /\ tabs[o].problems = {}
    /\ calls' = [calls EXCEPT ![o] = [pc |-> "reserve"]]
    /\ UNCHANGED <<up, project, library, profile, task, tabs, edits, restarts>>

\* MUTANT: what is resolved under the reservation is not compared again.
Agrees_Trusted(o) == Resolves

\* Resolved again under the write reservation and compared with the preview.
Agrees(o) == Resolves /\ tabs[o] = Resolution

\* The reservation: the decision is recorded, or the request is refused.
Decides(o) ==
    /\ up /\ calls[o].pc = "reserve"
    /\ IF Agrees(o)
       THEN /\ decided' = library
            /\ calls' = [calls EXCEPT ![o] = [pc |-> "pin", fresh |-> Resolution]]
       ELSE calls' = [calls EXCEPT ![o] = Idle] /\ UNCHANGED decided
    /\ UNCHANGED <<up, project, library, profile, inputs, binding, records, policies, run, tabs,
                   edits, restarts>>

\* pin_execution_inputs or pin_workflow_binding: once, and refused afterwards.
Pins(o) ==
    /\ up /\ calls[o].pc = "pin"
    /\ LET fresh == calls[o].fresh
           whole == fresh.roles # 0
       IN  IF (whole /\ inputs) \/ binding # Unpinned
           THEN /\ calls' = [calls EXCEPT ![o] = Idle]
                /\ UNCHANGED <<inputs, binding>>
           ELSE /\ inputs' = TRUE
                /\ binding' = [revision |-> fresh.revision, through |-> fresh.through,
                               interrupted |-> fresh.interrupted]
                /\ calls' = [calls EXCEPT ![o] =
                               [pc |-> IF whole THEN "seed" ELSE "convert", fresh |-> fresh]]
    /\ UNCHANGED <<up, project, library, profile, records, policies, decided, run, tabs,
                   edits, restarts>>

\* _seed_session_continuation: the sessions it has get the confirmed policy.
Seeds(o) ==
    /\ up /\ calls[o].pc = "seed"
    /\ policies' = TRUE
    /\ calls' = [calls EXCEPT ![o].pc = "convert"]
    /\ UNCHANGED <<up, project, library, profile, inputs, binding, records, decided, run, tabs,
                   edits, restarts>>

\* _convert_legacy_escalation_gate: the pair's open gate becomes a pause whose
\* retry evaluates the decision again.
Converts(o) ==
    /\ up /\ calls[o].pc = "convert"
    /\ LET n == Len(records) IN
       records' = IF /\ n > 0 /\ records[n].status = "waiting" /\ ~records[n].pause
                     /\ records[n].kind = "gate" /\ LegacyGatePair(n)
                     /\ KindIn(calls[o].fresh.revision, records[n].step) = "decision"
                  THEN [records EXCEPT ![n].pause = TRUE] ELSE records
    /\ calls' = [calls EXCEPT ![o] = Idle]
    /\ UNCHANGED <<up, project, library, profile, inputs, binding, policies, decided, run, tabs,
                   edits, restarts>>

-----------------------------------------------------------------------------
\* The run, once the task is ready.

\* _recover_attempt on the last record.
Recovered ==
    IF records = << >> THEN "step"
    ELSE LET r == Last(records) IN
         IF r.status = "waiting" THEN (IF r.pause THEN "retry" ELSE "gate") ELSE "step"

\* continue_task and recover_task: a run that is not already driven is.
Continues ==
    /\ up /\ Ready /\ run = "none"
    /\ run' = Recovered
    /\ UNCHANGED <<up, project, library, profile, inputs, binding, records, policies, decided,
                   tabs, calls, edits, restarts>>

\* resume_gate, with the gate armed: the record ends and the run falls through
\* to the step declared after the one the gate is recorded under.
ResumesGate ==
    /\ up /\ run = "gate" /\ ~Last(records).pause
    /\ records' = [records EXCEPT ![Len(records)].status = "ok"]
    /\ run' = "step"
    /\ UNCHANGED <<up, project, library, profile, inputs, binding, policies, decided, tabs, calls,
                   edits, restarts>>

\* retry_paused_step: the paused record ends and the decision is opened again.
Retries ==
    /\ up /\ Ready /\ records # << >> /\ Last(records).pause
    /\ LET n == Len(records) IN
       records' = Append([records EXCEPT ![n].status = "failed", ![n].pause = FALSE],
                         [step |-> records[n].step, kind |-> "decision", status |-> "running",
                          pause |-> FALSE, outcome |-> FALSE])
    /\ run' = "step"
    /\ UNCHANGED <<up, project, library, profile, inputs, binding, policies, decided, tabs,
                   calls, edits, restarts>>

-----------------------------------------------------------------------------
\* Around them.

\* Somebody saves another revision under the name, archives or restores it, or
\* edits the profile's roles.
Edits ==
    /\ up /\ edits < MaxEdits
    /\ \/ \E r \in (Revisions \cup {None}) \ {library} : library' = r /\ UNCHANGED profile
       \/ profile' = profile + 1 /\ UNCHANGED library
    /\ edits' = edits + 1
    /\ UNCHANGED <<up, project, task, tabs, calls, restarts>>

\* The daemon stops: requests and the driven run are gone, pages stay open.
Stops ==
    /\ up /\ restarts < MaxRestarts
    /\ up' = FALSE /\ restarts' = restarts + 1
    /\ run' = "none" /\ calls' = [o \in Operators |-> Idle]
    /\ UNCHANGED <<project, library, profile, inputs, binding, records, policies, decided, tabs,
                   edits>>

\* create_app: initialize before anything is recovered, then every task whose
\* definition resolves.
Starts ==
    /\ ~up /\ up' = TRUE
    /\ Captures
    /\ run' = IF Ready THEN Recovered ELSE "none"
    /\ UNCHANGED <<config, acked, page, library, profile, inputs, binding, records, policies,
                   decided, tabs, calls, edits, restarts>>

\* As the migration leaves them: the project agreed or not, the task with its
\* inputs or without.
Init ==
    /\ up = FALSE
    /\ config \in Values \cup {None}
    /\ evidence = << >> /\ acked = None /\ page = "closed"
    /\ launch \in {"reconciled", "needs-reconciliation"}
    /\ library \in Revisions /\ profile = 1
    /\ inputs \in BOOLEAN /\ binding = Unpinned
    /\ records \in Histories
    /\ policies = FALSE /\ decided = None /\ run = "none"
    /\ tabs = [o \in Operators |-> Blank] /\ calls = [o \in Operators |-> Idle]
    /\ edits = 0 /\ restarts = 0

Next ==
    \/ \E v \in Values \cup {None} : Configures(v)
    \/ Shows \/ ConfirmsProject
    \/ \E o \in Operators :
         Previews(o) \/ Confirms(o) \/ Decides(o) \/ Pins(o) \/ Seeds(o) \/ Converts(o)
    \/ Continues \/ ResumesGate \/ Retries
    \/ Edits \/ Stops \/ Starts

Spec == Init /\ [][Next]_vars

-----------------------------------------------------------------------------
\* While the daemon runs, a project that may launch has acknowledged the judge
\* setting the daemon found: a changed value reopens the acknowledgement
\* (_capture_retired_judge_model).
BlockedUntilAcknowledged ==
    up /\ launch = "reconciled" /\ config # None => acked = config

\* A pinned continuation is one an operator previewed: the same revision and the
\* same history boundary, and no problem with either (confirm_task_configuration).
PinnedIsReviewed ==
    binding # Unpinned =>
        \E o \in Operators :
            /\ tabs[o].revision = binding.revision
            /\ tabs[o].through = binding.through /\ tabs[o].interrupted = binding.interrupted
            /\ tabs[o].problems = {}

=============================================================================
