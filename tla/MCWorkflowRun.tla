---------------------------- MODULE MCWorkflowRun ----------------------------
(***************************************************************************)
(* Small definitions to check WorkflowRun on.  Each has the shape of one   *)
(* packaged workflow, cut to the steps that make it interesting.           *)
(***************************************************************************)
EXTENDS WorkflowRun

Select(steps, after, required) ==
    [steps |-> steps, after |-> after, required |-> required, withOutcome |-> TRUE]

\* Destinations of the listed steps; every other step falls through.
Routes(routed) == [s \in Steps |-> IF s \in DOMAIN routed THEN routed[s] ELSE {}]
Bounds(max)    == [s \in Steps |-> IF s \in DOMAIN max THEN max[s] ELSE 0]
Escapes(to)    == [s \in Steps |-> IF s \in DOMAIN to THEN to[s] ELSE NoStep]
Selects(ev)    == [s \in Steps |-> IF s \in DOMAIN ev THEN ev[s] ELSE {}]

\* single-step with a result: implement, keep what it wrote, review, route,
\* approve, and a delivery; two rounds at most, then a gate, bounded itself.
\* Its answer leads to a capture whose next goes back to the review: the one
\* way a document that loads comes to a step at its bound after the gate that
\* step escapes to.
DeliverOrder ==
    <<"implement", "keep", "review", "route", "approve", "push", "stop", "again", "end">>
DeliverKind ==
    [implement |-> "agent", keep |-> "capture", review |-> "review", route |-> "decision",
     approve |-> "choice", push |-> "delivery", stop |-> "choice", again |-> "capture",
     end |-> "choice"]
DeliverDests ==
    Routes([keep    |-> {"review"},
            route   |-> {"implement", "approve"},
            approve |-> {"implement", "push", Complete},
            push    |-> {Complete},
            stop    |-> {"again", Complete},
            again   |-> {"review"},
            end     |-> {Complete}])
DeliverMax    == Bounds([implement |-> 2, keep |-> 2, review |-> 2, stop |-> 1])
DeliverEscape ==
    Escapes([implement |-> "stop", keep |-> "stop", review |-> "stop", stop |-> "end"])
DeliverEvidence ==
    Selects([implement |-> {Select({"approve"}, NoStep, FALSE)},
             keep      |-> {Select({"implement"}, "approve", TRUE)},
             review    |-> {Select({"implement"}, NoStep, TRUE)},
             approve   |-> {Select({"review"}, "implement", TRUE)},
             again     |-> {Select({"implement"}, NoStep, TRUE)}])

\* A format-1 definition: a plain gate falls through, a decision ends the run.
PlainOrder == <<"plan", "judge", "ask", "check", "finish">>
PlainKind ==
    [plan |-> "agent", judge |-> "decision", ask |-> "gate",
     check |-> "command", finish |-> "decision"]
PlainDests ==
    Routes([judge |-> {"plan", "check", "ask", PauseHere}, finish |-> {Complete}])
PlainMax      == Bounds([plan |-> 2])
PlainEscape   == Escapes([plan |-> "ask"])
PlainEvidence == Selects([check |-> {Select({"plan"}, NoStep, FALSE)}])
=============================================================================
