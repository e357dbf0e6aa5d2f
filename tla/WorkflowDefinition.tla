------------------------- MODULE WorkflowDefinition -------------------------
(***************************************************************************)
(* A pinned workflow definition, as the run engine reads it, and the pure  *)
(* functions the engine applies to it: fall-through, the visit bound and   *)
(* the evidence an attempt freezes when it opens.                          *)
(*                                                                         *)
(* Sources: workflow_definitions.py (the parsed steps, select_evidence)    *)
(* and workflows.py (_bounded_step, _entry_evidence).  Prompts, predicates *)
(* and texts are data: the run engine only sees which destination they     *)
(* select, so a decision's cases are the set of destinations it names.     *)
(***************************************************************************)
EXTENDS Naturals, Sequences, FiniteSets

CONSTANTS
    Order,        \* the declared steps, in order: a sequence of names
    Kind,         \* step -> its kind
    Dests,        \* step -> the destinations its cases, choices or next name
    MaxVisits,    \* step -> its visit bound, 0 when it declares none
    OnExhausted,  \* step -> the gate its exhausted bound reaches, or NoStep
    Evidence      \* step -> the evidence selectors it declares

Complete  == "complete"     \* the destination {complete: true}
PauseHere == "pause"        \* the destination {pause: true}
NoStep    == "none"

Steps == {Order[i] : i \in DOMAIN Order}

\* A gate without choices (format 1) and one with choices (format 2 on) share
\* a kind in the source and are told apart by `step.choices`; here by name.
Kinds == {"agent", "command", "decision", "gate", "choice", "capture",
          "review", "delivery"}

Selector == [steps : SUBSET Steps, after : Steps \cup {NoStep},
             required : BOOLEAN, withOutcome : BOOLEAN]

\* The shape load-time validation leaves: names resolve, a bound comes with a
\* gate to reach, only decisions, choice gates, captures and deliveries route.
ASSUME OrderAssumption ==
    /\ Order \in Seq(STRING) /\ Order # << >>
    /\ \A i, j \in DOMAIN Order : Order[i] = Order[j] => i = j
    /\ Steps \cap {Complete, PauseHere, NoStep, "result"} = {}

ASSUME KindAssumption == Kind \in [Steps -> Kinds]

ASSUME DestsAssumption ==
    /\ Dests \in [Steps -> SUBSET (Steps \cup {Complete, PauseHere})]
    /\ \A s \in Steps :
         /\ Kind[s] \in {"capture", "delivery"} => Cardinality(Dests[s]) = 1
         /\ Kind[s] \in {"choice", "delivery"} => PauseHere \notin Dests[s]

\* _validate_references asks on_exhausted for a declared gate, which may have a
\* bound of its own; _validate_graph refuses an escape that leads back to its
\* step, so the escapes of bounded steps form no cycle.
ASSUME BoundAssumption ==
    /\ MaxVisits \in [Steps -> Nat]
    /\ OnExhausted \in [Steps -> Steps \cup {NoStep}]
    /\ \A s \in Steps : MaxVisits[s] # 0 =>
         OnExhausted[s] \in Steps /\ Kind[OnExhausted[s]] \in {"gate", "choice"}
    /\ \A X \in SUBSET {s \in Steps : MaxVisits[s] # 0} :
         X # {} => \E s \in X : OnExhausted[s] \notin X

ASSUME EvidenceAssumption == Evidence \in [Steps -> SUBSET Selector]

-----------------------------------------------------------------------------
\* One row of workflow_step_records.  `outcome` keeps what later control flow
\* reads of it: a decision's route, whether there is one at all, or none.
Statuses == {"running", "waiting", "ok", "failed"}
Outcomes == Steps \cup {Complete, "result", NoStep}

Selectors == UNION {Evidence[s] : s \in Steps}

\* `evidence` binds each selector its step declares to a seq; 0 is unbound.
Attempt ==
    [step : Steps, status : Statuses, pause : BOOLEAN, outcome : Outcomes,
     prompted : BOOLEAN, evidence : [Selectors -> Nat]]

\* WorkflowDefinition.step_after: the fall-through, or the end of the run.
StepAfter(s) ==
    LET i == CHOOSE k \in DOMAIN Order : Order[k] = s
    IN  IF i < Len(Order) THEN Order[i + 1] ELSE Complete

Visits(recs, s) == Cardinality({i \in DOMAIN recs : recs[i].step = s})

\* The visits among the first `n` attempts.
VisitsBy(recs, s, n) == Cardinality({i \in DOMAIN recs : i <= n /\ recs[i].step = s})

AtBound(recs, s) == MaxVisits[s] # 0 /\ Visits(recs, s) >= MaxVisits[s]

Exhausted(recs) == {s \in Steps : AtBound(recs, s)}

\* The exhausted steps that _bounded_step hops over, `s` first: the least set
\* that holds `s` and, with each step, the exhausted gate it escapes to.
HopsOver(recs, s) ==
    LET Follows(X) == \A t \in X :
            OnExhausted[t] \in Exhausted(recs) => OnExhausted[t] \in X
    IN  {t \in Exhausted(recs) : \A X \in SUBSET Exhausted(recs) :
            s \in X /\ Follows(X) => t \in X}

\* _bounded_step: where opening a step lands, from gate to gate while the bound
\* of each is reached.  Its seen-guard is for a cycle that does not load.
BoundedStep(recs, s) ==
    IF ~AtBound(recs, s) THEN s
    ELSE CHOOSE t \in Steps \ Exhausted(recs) :
            \E u \in HopsOver(recs, s) : OnExhausted[u] = t

Latest(S) == IF S = {} THEN 0 ELSE CHOOSE n \in S : \A m \in S : m <= n

Qualifies(sel, r) ==
    r.step \in sel.steps /\ r.status = "ok"
    /\ (sel.withOutcome => r.outcome # NoStep)

SelectEvidence_NoFloor(sel, recs) ==
    Latest({i \in DOMAIN recs : Qualifies(sel, recs[i])})

\* select_evidence: the newest finished record that matches, counted only past
\* the newest record of the `after` step.  0 is the unbound selector.
SelectEvidence(sel, recs) ==
    LET floor == Latest({i \in DOMAIN recs : recs[i].step = sel.after})
    IN  Latest({i \in DOMAIN recs : i > floor /\ Qualifies(sel, recs[i])})

\* _entry_evidence / resolve_evidence: bind every selector once, at opening.
EntryEvidence(s, recs) ==
    [sel \in Selectors |->
        IF sel \in Evidence[s] THEN SelectEvidence(sel, recs) ELSE 0]

\* missing_required_evidence: read back from the frozen bindings.
MissingRequired(a) == \E sel \in Evidence[a.step] : sel.required /\ a.evidence[sel] = 0

\* An update of one row, as finish_step_record, _set_waiting, _advance_in,
\* retry_paused_step and resume_paused_attempt write it.
Rewrite(recs, n, status, pause, outcome) ==
    [recs EXCEPT ![n] = [@ EXCEPT !.status = status, !.pause = pause,
                                  !.outcome = outcome]]

\* The row append_step_record, _advance_in and retry_paused_step insert.
NewAttempt(s, recs) ==
    [step |-> s, status |-> "running", pause |-> FALSE, outcome |-> NoStep,
     prompted |-> FALSE, evidence |-> EntryEvidence(s, recs)]
=============================================================================
