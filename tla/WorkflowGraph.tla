---------------------------- MODULE WorkflowGraph ----------------------------
(***************************************************************************)
(* What loading a workflow document guarantees about every run of it: the  *)
(* parser and the validator of workflow_definitions.py as a predicate on   *)
(* documents, and the engine's walk over an accepted one.  A behaviour     *)
(* picks a document, keeps it only when the code would, and then takes     *)
(* every route that answers, predicates and verdicts could send it on.     *)
(*                                                                         *)
(* The grammar is formats 3 and 4 (named endings, choice gates, delivery   *)
(* chains, captures).  A step is its place in the declared order.  What a  *)
(* step says to a model or a person is not kept; what may route is.        *)
(***************************************************************************)
EXTENDS Integers, Sequences, SequencesExt, FiniteSets

CONSTANT Shapes   \* the documents offered: for each, what its steps may be

VARIABLES
    doc,        \* the accepted document
    at,         \* the step that is open, or how the walk stopped
    from,       \* history: the step the walk left last
    visits,     \* step -> attempts opened, for the steps that declare a bound
    done,       \* the steps some attempt of which finished
    granted,    \* the actions the last approving answer still authorizes
    exhausted   \* the steps whose bound has sent the run to a gate

vars == <<doc, at, from, visits, done, granted, exhausted>>

NoStep    == 0
Complete  == -1
PauseHere == -2
FellOff   == -3

\* One parsed step.  `to` is where its cases, its plain choices or its `next`
\* lead, `accepts` where the choices that require an accepted result lead,
\* `grants` the choices that authorize a chain; `steps` is what its one evidence
\* selector may select and `binds` what a gate says that evidence is.
Blank ==
    [kind |-> "agent", to |-> {}, accepts |-> {}, grants |-> {}, max |-> 0, onExhausted |-> NoStep,
     steps |-> {}, required |-> FALSE, withOutcome |-> FALSE, outcome |-> TRUE,
     binds |-> "none", action |-> "none", approval |-> NoStep,
     previous |-> NoStep]

Named(d) == DOMAIN d
KindOf(d, s) == IF s \in Named(d) THEN d[s].kind ELSE "undeclared"
StepAfter(d, s) == IF s < Len(d) THEN s + 1 ELSE FellOff
Deliveries(d) == {s \in Named(d) : d[s].kind = "delivery"}
Routes(step) == step.to \cup step.accepts \cup {g.next : g \in step.grants}
Grants(d) == UNION {{<<s, g>> : g \in d[s].grants} : s \in Named(d)}

-----------------------------------------------------------------------------
\* The parser.

\* _parse_destination: only a decision's case and a capture's next may pause.
DestinationParses(step) ==
    PauseHere \in Routes(step) => step.kind \in {"decision", "capture"}

\* _parse_bound: a bound and the gate it reaches are declared together.
BoundParses(step) == (step.max = 0) = (step.onExhausted = NoStep)

\* _parse_grant: a chain is a nonempty list that repeats nothing.
GrantParses(g) == g.chain # << >> /\ IsInjective(g.chain) /\ Len(g.chain) <= 3

\* _parse_choices: a gate of these formats offers at least one answer.
ChoicesParse(step) ==
    step.kind = "gate" =>
        /\ Routes(step) # {}
        /\ \A g \in step.grants : GrantParses(g)

\* The capture and decision branches of _parse_step.
RoutingParses(step) ==
    /\ step.kind = "decision" => step.to # {}
    /\ step.kind = "capture" => Cardinality(step.to) = 1
    /\ step.kind \in {"agent", "command", "review"} => step.to = {}

\* The delivery branch of _parse_step: no bound, no evidence, one explicit next,
\* and a predecessor for every action but the commit.
DeliveryParses(step) ==
    step.kind = "delivery" =>
        /\ step.max = 0 /\ step.steps = {}
        /\ Cardinality(step.to) = 1
        /\ (step.action = "commit") = (step.previous = NoStep)

\* _primitive_definition_from_document: every step parses on its own.
Parses(d) ==
    /\ d # << >>
    /\ \A s \in Named(d) :
         /\ DestinationParses(d[s]) /\ BoundParses(d[s]) /\ ChoicesParse(d[s])
         /\ RoutingParses(d[s]) /\ DeliveryParses(d[s])

-----------------------------------------------------------------------------
\* The validator.

\* _validate_references, routes and bounds: every name resolves, and what an
\* exhausted bound reaches is a gate.
RoutesResolve(d) ==
    \A s \in Named(d) :
        /\ Routes(d[s]) \subseteq Named(d) \cup {Complete, PauseHere}
        /\ d[s].steps \subseteq Named(d)
        /\ d[s].onExhausted # NoStep => KindOf(d, d[s].onExhausted) = "gate"

\* ... a capture is produced by required, outcome-bearing evidence of an agent
\* or command step,
CaptureIsProduced(d) ==
    \A s \in Named(d) : d[s].kind = "capture" =>
        /\ d[s].steps # {} /\ d[s].required /\ d[s].withOutcome
        /\ \A p \in d[s].steps : \/ KindOf(d, p) = "command"
                                 \/ KindOf(d, p) = "agent" /\ d[p].outcome

\* ... and a gate that binds a result binds required evidence of captures, with
\* a way out that accepts nothing.
ResultIsCaptured(d) ==
    \A s \in Named(d) : d[s].kind = "gate" =>
        /\ d[s].accepts # {} => d[s].binds = "result"
        /\ d[s].binds = "result" =>
             /\ d[s].grants = {}
             /\ d[s].steps # {} /\ d[s].required
             /\ \A p \in d[s].steps : KindOf(d, p) = "capture"
             /\ d[s].to # {}

\* _validate_named_endings: the last step must route somewhere.
EndingIsNamed(d) == d[Len(d)].kind \in {"decision", "delivery", "gate"}

\* MUTANT: the review's binding may be optional.
GateIsReviewed_Optional(d) ==
    \A s \in Named(d) : d[s].kind = "gate" =>
        /\ (d[s].grants # {}) = (d[s].binds = "review")
        /\ d[s].binds = "review" =>
             /\ d[s].steps # {} /\ \A r \in d[s].steps : KindOf(d, r) = "review"
             /\ d[s].to \cup d[s].accepts # {}

\* _validate_delivery, gates: an authorizing gate binds required evidence of a
\* review, and offers a way out that publishes nothing.
GateIsReviewed(d) ==
    \A s \in Named(d) : d[s].kind = "gate" =>
        /\ (d[s].grants # {}) = (d[s].binds = "review")
        /\ d[s].binds = "review" =>
             /\ d[s].steps # {} /\ d[s].required
             /\ \A r \in d[s].steps : KindOf(d, r) = "review"
             /\ d[s].to \cup d[s].accepts # {}

\* DELIVERY_CHAINS
Chains == {<<"commit", "push", "pr">>, <<"commit", "push">>, <<"commit">>}

\* _validate_grant: the chain's members, their order, approval and ending.
GrantIsExact(d, gate, g) ==
    LET last == Len(g.chain) IN
    /\ \A n \in DOMAIN g.chain : KindOf(d, g.chain[n]) = "delivery"
    /\ [n \in DOMAIN g.chain |-> d[g.chain[n]].action] \in Chains
    /\ g.next = g.chain[1]
    /\ \A n \in DOMAIN g.chain : LET member == d[g.chain[n]] IN
         /\ member.approval = gate
         /\ member.previous = IF n = 1 THEN NoStep ELSE g.chain[n - 1]
         /\ member.to = IF n = last THEN {Complete} ELSE {g.chain[n + 1]}

\* _validate_delivery: every grant is exact, no two share an action, and every
\* action is granted by some choice.
ChainsAreOwned(d) ==
    /\ \A p \in Grants(d) : GrantIsExact(d, p[1], p[2])
    /\ \A p, q \in Grants(d) :
         p # q => ToSet(p[2].chain) \cap ToSet(q[2].chain) = {}
    /\ Deliveries(d) = UNION {ToSet(p[2].chain) : p \in Grants(d)}

\* _falls_through: whether finishing this step walks to the following one.
FallsThrough(step) == step.kind \notin {"decision", "gate", "delivery"}

\* MUTANT: a fall-through is not taken for an edge.
EntriesAreGranted_ExplicitOnly(d) ==
    \A s \in Named(d) \ Deliveries(d) :
        /\ d[s].onExhausted \notin Deliveries(d)
        /\ d[s].kind # "capture" => (d[s].to \cup d[s].accepts) \cap Deliveries(d) = {}

\* _validate_delivery_entries: no route, exhausted bound or fall-through enters
\* a chain.  The edges it lists are a decision's and a gate's: a capture's next
\* is not among them.
EntriesAreGranted(d) ==
    /\ \A s \in Named(d) \ Deliveries(d) :
         /\ d[s].onExhausted \notin Deliveries(d)
         /\ d[s].kind # "capture" => (d[s].to \cup d[s].accepts) \cap Deliveries(d) = {}
    /\ \A s \in Named(d) :
         FallsThrough(d[s]) => StepAfter(d, s) \notin Deliveries(d)

\* MUTANT: a gate's answers are not taken for edges.
Successors_NoAnswers(d, s) ==
    IF FallsThrough(d[s]) THEN {StepAfter(d, s)} \cap Named(d)
    ELSE IF d[s].kind = "gate" THEN {} ELSE Routes(d[s]) \cap Named(d)

\* _successors: every step this one can reach in one move, exhaustion aside.
\* A capture is taken for a step that falls through.
Successors(d, s) ==
    IF FallsThrough(d[s]) THEN {StepAfter(d, s)} \cap Named(d)
    ELSE Routes(d[s]) \cap Named(d)

\* The steps a walk from `start` comes to along the edges, itself included.
Walked(d, start, Edges(_)) ==
    LET met[n \in 0..Len(d)] ==
          IF n = 0 THEN start ELSE met[n - 1] \cup UNION {Edges(s) : s \in met[n - 1]}
    IN  met[Len(d)]

\* _validate_graph, cycles: the unbounded steps alone must have none.
EveryCycleIsBounded(d) ==
    LET Free(s) == {t \in Successors(d, s) : d[t].max = 0} IN
    \A s \in Named(d) : d[s].max = 0 => s \notin Walked(d, Free(s), Free)

\* _reachable_from: along routes and exhausted bounds alike.
ReachableFrom(d, start) ==
    LET Edges(s) == Successors(d, s) \cup ({d[s].onExhausted} \cap Named(d))
    IN  Walked(d, {start}, Edges)

\* MUTANT: only the gate's own routes are looked at.
EscapesLeave_OneHop(d) ==
    \A s \in Named(d) : d[s].max # 0 =>
        /\ s # d[s].onExhausted
        /\ s \notin Successors(d, d[s].onExhausted)

\* _validate_graph, escapes: an exhausted bound never leads back to its step.
EscapesLeave(d) ==
    \A s \in Named(d) : d[s].max # 0 => s \notin ReachableFrom(d, d[s].onExhausted)

\* definition_from_document accepts the document.
Accepted(d) ==
    /\ Parses(d)
    /\ RoutesResolve(d) /\ CaptureIsProduced(d) /\ ResultIsCaptured(d)
    /\ EndingIsNamed(d)
    /\ GateIsReviewed(d) /\ ChainsAreOwned(d) /\ EntriesAreGranted(d)
    /\ EveryCycleIsBounded(d) /\ EscapesLeave(d)

-----------------------------------------------------------------------------
\* The engine's walk.

Declared == DOMAIN doc
Open == at \in Declared

\* A required selector that binds nothing pauses the attempt that opens.
Backed(s) == doc[s].required => doc[s].steps \cap done # {}

\* _bounded_step: from a step at its bound to its gate, and on while that gate
\* is at its own.
AtBound(s) == doc[s].max # 0 /\ visits[s] >= doc[s].max
Landing(t) ==
    LET hop[n \in 0..Len(doc)] ==
          IF n = 0 THEN t
          ELSE IF AtBound(hop[n - 1]) THEN doc[hop[n - 1]].onExhausted ELSE hop[n - 1]
    IN  [n \in 0..Len(doc) |-> hop[n]]

\* _advance_in: open the landing step's attempt, or end where the route ends.
Advance(t) ==
    IF t \notin Declared
    THEN at' = t /\ UNCHANGED <<visits, exhausted>>
    ELSE LET hops == Landing(t)
             to   == hops[Len(doc)]
         IN  /\ at' = to
             /\ visits' = IF doc[to].max = 0 THEN visits
                          ELSE [visits EXCEPT ![to] = @ + 1]
             /\ exhausted' = exhausted \cup {hops[n] : n \in {m \in DOMAIN hops : hops[m] # to}}

Leave(t, chain) ==
    /\ Open /\ Backed(at)
    /\ Advance(t) /\ from' = at
    /\ done' = done \cup {at}
    /\ granted' = chain
    /\ UNCHANGED doc

\* A finished agent, command or review step is followed by the next one.
FallThrough ==
    /\ Open /\ doc[at].kind \in {"agent", "command", "review"}
    /\ Leave(StepAfter(doc, at), << >>)

\* _run_capture_step: the engine follows the capture's declared next.
CaptureRoutes ==
    /\ Open /\ doc[at].kind = "capture"
    /\ \E t \in doc[at].to : Leave(t, << >>)

\* A decision takes one of its cases, or its otherwise.
Decides ==
    /\ Open /\ doc[at].kind = "decision"
    /\ \E t \in doc[at].to : Leave(t, << >>)

\* The operator answers a gate with a choice that grants nothing ...
Answers ==
    /\ Open /\ doc[at].kind = "gate"
    /\ \E t \in doc[at].to \cup doc[at].accepts : Leave(t, << >>)

\* ... or with one that authorizes a chain.
Authorizes ==
    /\ Open /\ doc[at].kind = "gate"
    /\ \E g \in doc[at].grants : Leave(g.next, g.chain)

\* ShipManager.perform_action: the action is the one outstanding.
Permitted == granted # << >> /\ Head(granted) = at

\* A delivery step that was performed continues at its declared next.
Delivers ==
    /\ Open /\ doc[at].kind = "delivery" /\ Permitted
    /\ \E t \in doc[at].to : Leave(t, Tail(granted))

\* An attempt whose required evidence is missing waits for the operator, and
\* so does a delivery that is refused.
Stops ==
    /\ Open
    /\ ~Backed(at) \/ (doc[at].kind = "delivery" /\ ~Permitted)
    /\ at' = PauseHere
    /\ UNCHANGED <<doc, from, visits, done, granted, exhausted>>

Documents(shape) ==
    FoldLeft(LAMBDA docs, steps : {Append(d, s) : d \in docs, s \in steps}, {<< >>}, shape)

\* start_run opens the first declared step, whatever it is.
Init ==
    /\ \E shape \in Shapes : doc \in Documents(shape)
    /\ Accepted(doc)
    /\ at = 1 /\ from = NoStep
    /\ visits = [s \in DOMAIN doc |-> IF s = 1 /\ doc[1].max # 0 THEN 1 ELSE 0]
    /\ done = {} /\ granted = << >> /\ exhausted = {}

Next == FallThrough \/ CaptureRoutes \/ Decides \/ Answers \/ Authorizes \/ Delivers \/ Stops

\* Every answer, verdict and outcome comes: the engine goes on from each, and
\* whoever is asked is taken to answer.
Spec == Init /\ [][Next]_vars /\ WF_vars(Next)

-----------------------------------------------------------------------------
\* Every run of an accepted document comes to an end or to an operator's pause:
\* _validate_graph's promise that every cycle is cut by a declared bound.  The
\* exception is a cycle through a capture, whose next _successors does not read.
RunEnds == <>(~Open) \/ []<>(Open /\ doc[at].kind = "capture")

\* A privileged action is open only when the last answer granted it and it is
\* that chain's next action (_validate_delivery, _validate_delivery_entries).
\* The exceptions are the two entries the validator does not look at: the next
\* of a capture, and the start of the run.
DeliveryIsGranted ==
    Open /\ doc[at].kind = "delivery" =>
        Permitted \/ from = NoStep \/ doc[from].kind = "capture"

\* No delivery is performed before a review finished, and no gate is answered
\* about a result before a capture finished.
AnswersAreBacked ==
    \A s \in done :
        /\ doc[s].kind = "delivery" => \E r \in done : doc[r].kind = "review"
        /\ doc[s].binds = "result" => \E c \in done : doc[c].kind = "capture"

\* Once a bound sent the run to its gate the bounded step is never open again:
\* the escape leaves the loop, through any chain of further bounds.
ExhaustionIsFinal == at \notin exhausted
=============================================================================
