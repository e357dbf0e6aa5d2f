--------------------------- MODULE MCWorkflowGraph ---------------------------
(* The documents the walks are taken over: every way to fill in these shapes.  *)
(* Most are refused; the ones that load are walked.                            *)
EXTENDS WorkflowGraph

Work == {Blank}
Review == {[Blank EXCEPT !.kind = "review"]}
Small(S) == {D \in SUBSET S : D # {} /\ Cardinality(D) <= 2}

Decision(to) == {[Blank EXCEPT !.kind = "decision", !.to = D] : D \in to}
Gate(to) == {[Blank EXCEPT !.kind = "gate", !.to = D] : D \in to}
Bounded(S, escapes) ==
    S \cup {[s EXCEPT !.max = 2, !.onExhausted = e] : s \in S, e \in escapes}

Capture(to) == {[Blank EXCEPT !.kind = "capture", !.to = {t}, !.steps = {1},
                     !.required = TRUE, !.withOutcome = w] : t \in to, w \in BOOLEAN}
ResultGate(steps, to, accepts) ==
    {[Blank EXCEPT !.kind = "gate", !.to = D, !.steps = S, !.required = r,
          !.binds = b, !.accepts = A] :
        D \in to, A \in accepts, S \in steps, r \in BOOLEAN, b \in {"none", "result"}}

ReviewGate(steps, to, nexts, chains) ==
    {[Blank EXCEPT !.kind = "gate", !.to = D, !.steps = S, !.required = r,
          !.binds = "review", !.grants = {[next |-> n, chain |-> c]}] :
        D \in to, S \in steps, r \in BOOLEAN, n \in nexts, c \in chains}
Delivery(action, approvals, previous, to) ==
    {[Blank EXCEPT !.kind = "delivery", !.action = action, !.approval = g,
          !.previous = p, !.to = {t}] : g \in approvals, p \in previous, t \in to}

\* Two decisions and a gate after some work, bounded or not, looping anywhere.
Loops ==
    <<Bounded(Work, {2, 4}),
      Bounded(Decision(Small({1, 2, 3, 4})), {4}),
      Bounded(Decision({{4}, {1, 4}, {2, 4}, {1, Complete}, {2, Complete}, {2, PauseHere}}),
              {1, 4}),
      Bounded(Gate({{Complete}, {1}, {1, Complete}, {5, Complete}}), {4})>>

\* Two gates, where an exhausted bound may lead to a bounded gate.
Escapes ==
    <<Bounded(Work, {3, 4}), Decision(Small({1, 3, 4, Complete})),
      Bounded(Gate(Small({1, 2, 4, Complete})), {4}),
      Bounded(Gate(Small({1, 2, 3, Complete})), {3})>>

\* A review, the gate that asks about it and a chain ...
Chained ==
    <<Review,
      ReviewGate({{}, {1}, {3}}, {{}, {1}, {4}, {Complete}}, {3, 4},
                 {<<3>>, <<3, 4>>, <<4>>, <<4, 3>>}),
      Delivery("commit", {2, 3}, {NoStep}, {4, Complete}),
      Delivery("push", {2}, {NoStep, 3}, {3, Complete})>>

\* ... and the same with the chain declared before the gate.
Ahead ==
    <<Work \cup Review \cup Decision({{2}, {3}, {2, 3}, {3, Complete}, {4}}),
      Delivery("commit", {4}, {NoStep}, {3, Complete}), Work \cup Review,
      ReviewGate({{1}, {3}, {1, 3}}, {{2}, {3}, {4}, {Complete}}, {2}, {<<2>>})>>

\* A capture that goes on to any of the given steps, and the gate that accepts it.
Captured(to) ==
    <<Bounded(Work, {4}), Decision({{3}, {4}, {3, 4}}), Capture(to),
      ResultGate({{2}, {3}}, {{}, {1}, {Complete}}, {{}, {Complete}})>>

\* A capture that goes on to the review of its result, or into the chain: at
\* its head, or in the middle ...
Entered ==
    <<Work, Capture({3, 5, 6}), Review,
      ReviewGate({{3}}, {{1}, {3}, {Complete}}, {5}, {<<5>>, <<5, 6>>}),
      Delivery("commit", {4}, {NoStep}, {6, Complete}),
      Delivery("push", {4}, {5}, {Complete})>>

\* ... and a document that begins with its delivery.
First ==
    <<Delivery("commit", {3}, {NoStep}, {Complete}), Review,
      ReviewGate({{2}}, {{1}, {2}, {Complete}}, {1}, {<<1>>})>>

MCShapes == {Loops, Escapes, Chained, Ahead, Captured({1, 2, 4}), Entered, First}
=============================================================================
