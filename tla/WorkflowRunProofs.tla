-------------------------- MODULE WorkflowRunProofs --------------------------
(***************************************************************************)
(* What is proved of WorkflowRun for every definition, every number of     *)
(* coroutines and every bound: its type invariant; that no interleaving of *)
(* routes, answers, retries and restarts takes a step past its visit bound,*)
(* requests served during recovery included; and, while none is, that a    *)
(* run has one open attempt at most, stands on evidence newer than its     *)
(* work, shows a wait exactly when an attempt holds one, and is final once *)
(* it has ended.  The last four rest on Sequential: at most one coroutine  *)
(* runs, and the rows are as its position requires.                        *)
(***************************************************************************)
EXTENDS WorkflowRun, FiniteSetTheorems, WellFoundedInduction, TLAPS

-----------------------------------------------------------------------------
(* The operators of WorkflowDefinition.                                    *)

\* Rewriting one row keeps the history's length, its type and its steps.
LEMMA RewriteFacts ==
    ASSUME NEW recs \in Seq(Attempt), NEW n \in DOMAIN recs,
           NEW status \in Statuses, NEW pause \in BOOLEAN,
           NEW outcome \in Outcomes
    PROVE  /\ Rewrite(recs, n, status, pause, outcome) \in Seq(Attempt)
           /\ Len(Rewrite(recs, n, status, pause, outcome)) = Len(recs)
           /\ \A i \in DOMAIN recs :
                Rewrite(recs, n, status, pause, outcome)[i].step = recs[i].step
<1> DEFINE a == [recs[n] EXCEPT !.status = status, !.pause = pause,
                                !.outcome = outcome]
<1>1. recs[n] \in Attempt
  OBVIOUS
<1>2. a \in Attempt /\ a.step = recs[n].step
  BY <1>1 DEF Attempt
<1>3. Rewrite(recs, n, status, pause, outcome) = [recs EXCEPT ![n] = a]
  BY DEF Rewrite
<1> HIDE DEF a
<1> QED
  BY <1>2, <1>3

\* A nonempty set of naturals below a bound has a greatest element: the least
\* of its upper bounds.
LEMMA Greatest ==
    ASSUME NEW n \in Nat, NEW S \in SUBSET (1 .. n), S # {}
    PROVE  \E m \in S : \A k \in S : k <= m
<1> DEFINE Above == {b \in Nat : \A k \in S : k <= b}
           Less  == OpToRel(<, Nat)
<1>1. n \in Above
  OBVIOUS
<1>2. PICK b \in Above : \A c \in Above : ~(<<c, b>> \in Less)
  <2>1. IsWellFoundedOn(Less, Nat)
    BY NatLessThanWellFounded
  <2>2. Above \subseteq Nat
    OBVIOUS
  <2> HIDE DEF Above, Less
  <2> QED
    BY <1>1, <2>1, <2>2, WFMin
<1>3. \A c \in Above : b <= c
  <2>1. SUFFICES ASSUME NEW c \in Above, c < b PROVE FALSE
    OBVIOUS
  <2>2. <<c, b>> \in {ss \in Nat \X Nat : ss[1] < ss[2]}
    BY <2>1
  <2> QED
    BY <1>2, <2>2 DEF OpToRel
<1>4. b \in S
  <2>1. SUFFICES ASSUME b \notin S PROVE FALSE
    OBVIOUS
  <2>2. PICK k \in S : TRUE
    OBVIOUS
  <2>3. b - 1 \in Nat /\ \A j \in S : j <= b - 1
    BY <2>1, <2>2
  <2> QED
    BY <1>3, <2>3
<1> QED
  BY <1>4

\* The newest of a set of sequence numbers is a natural number.
LEMMA LatestType ==
    ASSUME NEW n \in Nat, NEW S \in SUBSET (1 .. n)
    PROVE  Latest(S) \in Nat
<1>1. CASE S = {}
  BY <1>1 DEF Latest
<1>2. CASE S # {}
  <2>1. \E m \in S : \A k \in S : k <= m
    BY <1>2, Greatest
  <2>2. (CHOOSE m \in S : \A k \in S : k <= m) \in S
    BY <2>1, Zenon
  <2>3. Latest(S) \in S
    BY <1>2, <2>2 DEF Latest
  <2>4. S \subseteq Nat
    OBVIOUS
  <2> QED
    BY <2>3, <2>4, Zenon
<1> QED
  BY <1>1, <1>2

\* What _open appends is a well-formed row.
LEMMA NewAttemptType ==
    ASSUME NEW recs \in Seq(Attempt), NEW s \in Steps
    PROVE  NewAttempt(s, recs) \in Attempt
<1>1. \A sel : SelectEvidence(sel, recs) \in Nat
  <2> TAKE sel
  <2> DEFINE floor == Latest({i \in DOMAIN recs : recs[i].step = sel.after})
             S == {i \in DOMAIN recs : i > floor /\ Qualifies(sel, recs[i])}
  <2>1. S \in SUBSET (1 .. Len(recs)) /\ Len(recs) \in Nat
    OBVIOUS
  <2>2. Latest(S) \in Nat
    <3> HIDE DEF S
    <3> QED BY <2>1, LatestType
  <2> QED
    BY <2>2 DEF SelectEvidence
<1>2. EntryEvidence(s, recs) \in [Selectors -> Nat]
  BY <1>1 DEF EntryEvidence
<1> QED
  BY <1>2 DEF NewAttempt, Attempt, Statuses, Outcomes

\* _bounded_step lands on a declared step that is not at its bound: of the steps
\* it hops over one escapes to a step that is not exhausted, since the escapes
\* form no cycle.
LEMMA BoundedStepType ==
    ASSUME NEW recs, NEW s \in Steps
    PROVE  BoundedStep(recs, s) \in Steps /\ ~AtBound(recs, BoundedStep(recs, s))
<1> DEFINE Full == Exhausted(recs)
           Hops == HopsOver(recs, s)
           Lands(t) == \E u \in Hops : OnExhausted[u] = t
<1>1. CASE ~AtBound(recs, s)
  BY <1>1 DEF BoundedStep
<1>2. CASE AtBound(recs, s)
  <2>1. s \in Hops /\ Hops \subseteq Full
    BY <1>2 DEF HopsOver, Exhausted
  <2>2. Full \subseteq {u \in Steps : MaxVisits[u] # 0}
    BY DEF Exhausted, AtBound
  <2>3. Hops \in SUBSET {u \in Steps : MaxVisits[u] # 0} /\ Hops # {}
    BY <2>1, <2>2
  <2>4. PICK u \in Hops : OnExhausted[u] \notin Hops
    BY <2>3, BoundAssumption
  <2>5. OnExhausted[u] \in Steps
    BY <2>2, <2>1, BoundAssumption
  <2>6. OnExhausted[u] \notin Full
    <3>1. SUFFICES ASSUME OnExhausted[u] \in Full PROVE OnExhausted[u] \in Hops
      BY <2>4
    <3> QED
      BY <3>1 DEF HopsOver
  <2>7. \E t \in Steps \ Full : Lands(t)
    BY <2>5, <2>6
  <2>8. BoundedStep(recs, s) = CHOOSE t \in Steps \ Full : Lands(t)
    BY <1>2 DEF BoundedStep
  <2> HIDE DEF Lands, Full
  <2>9. BoundedStep(recs, s) \in Steps \ Full
    BY <2>7, <2>8
  <2> QED
    BY <2>9 DEF Full, Exhausted
<1> QED
  BY <1>1, <1>2

LEMMA RetryTargetType ==
    ASSUME NEW recs, NEW s \in Steps
    PROVE  RetryTarget(recs, s) \in Steps
  BY BoundAssumption DEF RetryTarget, AtBound

LEMMA StepAfterType ==
    ASSUME NEW s \in Steps
    PROVE  StepAfter(s) \in Steps \cup {Complete}
<1> DEFINE i == CHOOSE k \in DOMAIN Order : Order[k] = s
<1>1. i \in DOMAIN Order
  BY DEF Steps
<1>2. CASE i < Len(Order)
  <2>1. i + 1 \in DOMAIN Order
    BY <1>1, <1>2, OrderAssumption
  <2> QED
    BY <1>2, <2>1 DEF StepAfter, Steps
<1>3. CASE ~(i < Len(Order))
  BY <1>3 DEF StepAfter
<1> QED
  BY <1>2, <1>3

LEMMA FirstStep == Order[1] \in Steps
  BY OrderAssumption DEF Steps

\* Visits are counted by step name alone.
LEMMA VisitsByStep ==
    ASSUME NEW recs, NEW others, NEW s,
           DOMAIN recs = DOMAIN others,
           \A i \in DOMAIN recs : recs[i].step = others[i].step
    PROVE  Visits(recs, s) = Visits(others, s)
<1>1. {i \in DOMAIN recs : recs[i].step = s} = {i \in DOMAIN others : others[i].step = s}
  OBVIOUS
<1> QED
  BY <1>1 DEF Visits

\* Opening an attempt is one more visit to its step and to no other.
LEMMA VisitsAppend ==
    ASSUME NEW recs \in Seq(Attempt), NEW a \in Attempt, NEW s
    PROVE  /\ Visits(recs, s) \in Nat
           /\ Visits(Append(recs, a), s) =
                IF a.step = s THEN Visits(recs, s) + 1 ELSE Visits(recs, s)
<1> DEFINE n == Len(recs)
           S == {i \in DOMAIN recs : recs[i].step = s}
           T == {i \in DOMAIN Append(recs, a) : Append(recs, a)[i].step = s}
<1>1. n \in Nat /\ S \subseteq 1 .. n /\ n + 1 \notin S
  OBVIOUS
<1>2. IsFiniteSet(S) /\ Cardinality(S) \in Nat
  <2>1. IsFiniteSet(1 .. n)
    BY <1>1, FS_Interval
  <2>2. IsFiniteSet(S)
    <3> HIDE DEF S, n
    <3> QED BY <1>1, <2>1, FS_Subset
  <2> QED
    BY <2>2, FS_CardinalityType
<1>3. T = IF a.step = s THEN S \cup {n + 1} ELSE S
  <2>1. DOMAIN Append(recs, a) = DOMAIN recs \cup {n + 1}
    OBVIOUS
  <2>2. /\ Append(recs, a)[n + 1] = a
        /\ \A i \in DOMAIN recs : Append(recs, a)[i] = recs[i]
    OBVIOUS
  <2> QED
    BY <1>1, <2>1, <2>2
<1>4. Cardinality(T) = IF a.step = s THEN Cardinality(S) + 1 ELSE Cardinality(S)
  <2> HIDE DEF S, T, n
  <2>1. CASE a.step = s
    BY <1>1, <1>2, <1>3, <2>1, FS_AddElement
  <2>2. CASE a.step # s
    BY <1>3, <2>2
  <2> QED
    BY <2>1, <2>2
<1> QED
  BY <1>2, <1>4 DEF Visits

-----------------------------------------------------------------------------
(* Type correctness.                                                       *)

\* Rows that only grow or are rewritten leave every coroutine placed; the one
\* that moved is placed by assumption.
LEMMA MoveKeepsPlaces ==
    ASSUME TypeOK, NEW d \in Drivers, NEW c \in Driver,
           records' \in Seq(Attempt), Len(records) <= Len(records'),
           drv' = [drv EXCEPT ![d] = c],
           c.pc \notin {"off", "recover", "open", "complete", "done"}
               => c.seq \in 1 .. Len(records'),
           c.pc = "open" => c.to \in Steps
    PROVE  /\ drv' \in [Drivers -> Driver]
           /\ \A e \in Drivers : Placed(e)'
           /\ DOMAIN records \subseteq DOMAIN records'
<1> USE DEF TypeOK, RowsOK, CoroutinesOK
<1>1. drv' \in [Drivers -> Driver]
  OBVIOUS
<1>2. DOMAIN records \subseteq DOMAIN records'
  OBVIOUS
<1>3. ASSUME NEW e \in Drivers PROVE Placed(e)'
  <2>1. CASE e = d
    BY <2>1 DEF Placed
  <2>2. CASE e # d
    BY <1>2, <2>2 DEF Placed
  <2> QED
    BY <2>1, <2>2
<1> QED
  BY <1>1, <1>2, <1>3

\* Where Toward leads is a well-placed position.
LEMMA TowardType ==
    ASSUME NEW d \in Drivers, drv \in [Drivers -> Driver], NEW dest
    PROVE  /\ Toward(d, dest) \in Driver
           /\ Toward(d, dest).pc \in {"open", "complete"}
           /\ Toward(d, dest).pc = "open" => Toward(d, dest).to \in Steps
  BY DEF Toward, Driver, Pcs

\* A coroutine's own attempt is a recorded row.
LEMMA OnAttempt ==
    ASSUME TypeOK, NEW d \in Drivers,
           drv[d].pc \notin {"off", "recover", "open", "complete", "done"}
    PROVE  /\ drv[d] \in Driver /\ drv[d].seq \in DOMAIN records
           /\ records[drv[d].seq] \in Attempt
  BY DEF TypeOK, RowsOK, CoroutinesOK, Placed

LEMMA AppendFacts ==
    ASSUME NEW recs \in Seq(Attempt), NEW a \in Attempt
    PROVE  Append(recs, a) \in Seq(Attempt) /\ Len(Append(recs, a)) = Len(recs) + 1
  OBVIOUS

LEMMA TakingType ==
    ASSUME NEW seq \in Nat, NEW nudge \in BOOLEAN
    PROVE  Taking(seq, nudge) \in Driver /\ Taking(seq, nudge).pc = "loop"
           /\ Taking(seq, nudge).seq = seq /\ ~Taking(seq, nudge).woken
  BY DEF Taking, Off, Driver, Pcs

\* The history of a step of the system: rows are rewritten without changing
\* what they are attempts of, and at most one attempt is appended, of a step that
\* is not at its bound or of the one a retried step at its bound escapes to.
SameSteps(recs) ==
    /\ recs \in Seq(Attempt) /\ Len(recs) = Len(records)
    /\ \A i \in DOMAIN records : recs[i].step = records[i].step

MayOpen(s) ==
    \/ ~AtBound(records, s)
    \/ records # << >> /\ AtBound(records, Last.step) /\ s = OnExhausted[Last.step]

Opened(recs) ==
    \E closed \in Seq(Attempt), a \in Attempt :
        SameSteps(closed) /\ MayOpen(a.step) /\ recs = Append(closed, a)

HistoryStep == SameSteps(records') \/ Opened(records')

LEMMA HistoryStepFacts ==
    ASSUME records \in Seq(Attempt), HistoryStep
    PROVE  records' \in Seq(Attempt) /\ Len(records) <= Len(records')
<1>1. CASE SameSteps(records')
  BY <1>1 DEF SameSteps
<1>2. CASE Opened(records')
  <2>1. PICK closed \in Seq(Attempt), a \in Attempt :
          Len(closed) = Len(records) /\ records' = Append(closed, a)
    BY <1>2 DEF Opened, SameSteps
  <2>2. records' \in Seq(Attempt) /\ Len(records') = Len(closed) + 1
    BY <2>1, AppendFacts
  <2> QED
    BY <2>1, <2>2
<1> QED
  BY <1>1, <1>2 DEF HistoryStep

LEMMA RewriteSame ==
    ASSUME records \in Seq(Attempt), NEW n \in DOMAIN records,
           NEW status \in Statuses, NEW pause \in BOOLEAN,
           NEW outcome \in Outcomes
    PROVE  SameSteps(Rewrite(records, n, status, pause, outcome))
  BY RewriteFacts DEF SameSteps

LEMMA UnchangedSame ==
    ASSUME records \in Seq(Attempt), records' = records
    PROVE  HistoryStep
  BY DEF HistoryStep, SameSteps

\* The bound reads step names only, so it may count an edited history.
LEMMA BoundedSame ==
    ASSUME records \in Seq(Attempt), NEW recs, SameSteps(recs), NEW s
    PROVE  AtBound(recs, s) = AtBound(records, s)
<1>1. /\ DOMAIN recs = DOMAIN records
      /\ \A i \in DOMAIN recs : recs[i].step = records[i].step
  BY DEF SameSteps
<1>2. Visits(recs, s) = Visits(records, s)
  BY <1>1, VisitsByStep
<1> QED
  BY <1>2 DEF AtBound

\* Appending what _open, _advance_in or retry_paused_step opens.
LEMMA AppendOpens ==
    ASSUME records \in Seq(Attempt), NEW closed, SameSteps(closed),
           NEW history, SameSteps(history), NEW s \in Steps, MayOpen(s)
    PROVE  /\ NewAttempt(s, history) \in Attempt
           /\ Opened(Append(closed, NewAttempt(s, history)))
           /\ Len(Append(closed, NewAttempt(s, history))) = Len(records) + 1
<1> DEFINE a == NewAttempt(s, history)
<1>2. a \in Attempt
  BY NewAttemptType DEF SameSteps
<1>3. a.step = s
  BY DEF NewAttempt
<1>4. closed \in Seq(Attempt) /\ Len(closed) = Len(records)
  BY DEF SameSteps
<1> HIDE DEF a
<1>5. Len(Append(closed, a)) = Len(records) + 1
  BY <1>2, <1>4, AppendFacts
<1> QED
  BY <1>2, <1>3, <1>4, <1>5 DEF Opened, a

\* A route lands where an attempt may be opened, and so does a retry.
LEMMA BoundedOpens ==
    ASSUME records \in Seq(Attempt), NEW recs, SameSteps(recs), NEW s \in Steps
    PROVE  BoundedStep(recs, s) \in Steps /\ MayOpen(BoundedStep(recs, s))
  BY BoundedStepType, BoundedSame DEF MayOpen

LEMMA RetryOpens ==
    ASSUME records # << >>, Last.step \in Steps
    PROVE  LET s == RetryTarget(records, Last.step) IN s \in Steps /\ MayOpen(s)
  BY RetryTargetType DEF RetryTarget, MayOpen

\* A step that moves one coroutine, whatever it writes to the history.
LEMMA StepType ==
    ASSUME TypeOK, NEW d \in Drivers, NEW c \in Driver, HistoryStep,
           drv' = [drv EXCEPT ![d] = c], UNCHANGED daemon,
           c.pc \notin {"off", "recover", "open", "complete", "done"}
               => c.seq \in 1 .. Len(records'),
           c.pc = "open" => c.to \in Steps,
           wfStatus' \in {"none", "running", "waiting", "complete", "failed"},
           wfStep' \in Steps \cup {NoStep},
           dispatched' \subseteq DOMAIN records,
           reviewed' \subseteq DOMAIN records,
           runs' \in Drivers \cup {NoDriver},
           gateWait' \in Drivers \cup {NoDriver},
           cpu' \in Drivers \cup {NoDriver}
    PROVE  TypeOK'
<1>1. records' \in Seq(Attempt) /\ Len(records) <= Len(records')
  BY HistoryStepFacts DEF TypeOK, RowsOK
<1>2. /\ drv' \in [Drivers -> Driver]
      /\ \A e \in Drivers : Placed(e)'
      /\ DOMAIN records \subseteq DOMAIN records'
  BY <1>1, MoveKeepsPlaces
<1> QED
  BY <1>1, <1>2
  DEF TypeOK, RowsOK, CoroutinesOK, DaemonOK, daemon

\* A coroutine that moves without writing to the history.
LEMMA MoveType ==
    ASSUME TypeOK, NEW d \in Drivers, NEW c \in Driver,
           drv' = [drv EXCEPT ![d] = c], UNCHANGED <<records, daemon>>,
           c.pc \notin {"off", "recover", "open", "complete", "done"}
               => c.seq \in DOMAIN records,
           c.pc = "open" => c.to \in Steps,
           wfStatus' \in {"none", "running", "waiting", "complete", "failed"},
           wfStep' \in Steps \cup {NoStep},
           dispatched' \subseteq DOMAIN records,
           reviewed' \subseteq DOMAIN records,
           runs' \in Drivers \cup {NoDriver},
           gateWait' \in Drivers \cup {NoDriver},
           cpu' \in Drivers \cup {NoDriver}
    PROVE  TypeOK' /\ HistoryStep
<1>1. records \in Seq(Attempt) /\ records' = records
  BY DEF TypeOK, RowsOK
<1>2. HistoryStep
  BY <1>1, UnchangedSame
<1>3. c.pc \notin {"off", "recover", "open", "complete", "done"}
        => c.seq \in 1 .. Len(records')
  BY <1>1
<1> QED
  BY <1>2, <1>3, StepType

\* The moves that touch no row and stay on the coroutine's attempt.
LEMMA AwaitType ==
    ASSUME TypeOK, NEW d \in Drivers, NEW pc \in Pcs, pc # "open",
           drv[d].pc \notin {"off", "recover", "open", "complete", "done"},
           Await(d, [drv[d] EXCEPT !.pc = pc]),
           UNCHANGED <<durable, runs, gateWait, daemon>>
    PROVE  TypeOK' /\ HistoryStep
<1> DEFINE c == [drv[d] EXCEPT !.pc = pc]
<1>1. drv[d] \in Driver /\ drv[d].seq \in DOMAIN records
  BY OnAttempt
<1>2. c \in Driver /\ c.pc = pc /\ c.seq = drv[d].seq
  BY <1>1 DEF Driver
<1>3. drv' = [drv EXCEPT ![d] = c] /\ cpu' = NoDriver
  BY DEF Await
<1> HIDE DEF c
<1> QED
  BY <1>1, <1>2, <1>3, MoveType
  DEF TypeOK, RowsOK, CoroutinesOK, durable, daemon

\* The commits that rewrite the coroutine's own row.
LEMMA PauseType ==
    ASSUME TypeOK, NEW d \in Drivers, Pause(d),
           drv[d].pc \notin {"off", "recover", "open", "complete", "done"},
           UNCHANGED <<dispatched, reviewed, runs, gateWait, daemon>>
    PROVE  TypeOK' /\ HistoryStep
<1> DEFINE n == drv[d].seq
           c == [drv[d] EXCEPT !.pc = "done"]
<1>1. /\ drv[d] \in Driver /\ n \in DOMAIN records /\ records[n] \in Attempt
      /\ records \in Seq(Attempt)
  BY OnAttempt DEF TypeOK, RowsOK
<1>2. records[n].outcome \in Outcomes /\ records[n].step \in Steps
  BY <1>1 DEF Attempt
<1>3. HistoryStep
  BY <1>1, <1>2, RewriteSame DEF Pause, Statuses, HistoryStep
<1>4. c \in Driver /\ c.pc = "done"
  BY <1>1 DEF Driver, Pcs
<1>5. drv' = [drv EXCEPT ![d] = c] /\ cpu' = NoDriver
      /\ wfStatus' = "waiting" /\ wfStep' = records[n].step
  BY DEF Pause, EndRun, Await, SetRun
<1> HIDE DEF c
<1> QED
  BY <1>2, <1>3, <1>4, <1>5, StepType DEF TypeOK, RowsOK, CoroutinesOK

LEMMA FinishType ==
    ASSUME TypeOK, NEW d \in Drivers, NEW status \in Statuses,
           NEW outcome \in Outcomes, NEW c \in Driver,
           drv[d].pc \notin {"off", "recover", "open", "complete", "done"},
           Finish(drv[d].seq, status, outcome), Proceed(d, c),
           c.seq = drv[d].seq, c.pc = "open" => c.to \in Steps,
           UNCHANGED <<wfStatus, wfStep, dispatched, reviewed, runs, daemon>>,
           gateWait' \in Drivers \cup {NoDriver}
    PROVE  TypeOK' /\ HistoryStep
<1>1. /\ drv[d] \in Driver /\ drv[d].seq \in DOMAIN records
      /\ records \in Seq(Attempt)
  BY OnAttempt DEF TypeOK, RowsOK
<1>2. SameSteps(records')
  BY <1>1, RewriteSame DEF Finish
<1>3. HistoryStep /\ c.seq \in 1 .. Len(records')
  BY <1>1, <1>2 DEF HistoryStep, SameSteps
<1>4. drv' = [drv EXCEPT ![d] = c] /\ cpu' = d
  BY DEF Proceed
<1> QED
  BY <1>3, <1>4, StepType DEF TypeOK, RowsOK, CoroutinesOK

LEMMA FinishesType ==
    ASSUME TypeOK, NEW d \in Drivers, NEW outcome \in Outcomes, NEW dest,
           drv[d].pc \notin {"off", "recover", "open", "complete", "done"},
           Finishes(d, outcome, dest)
    PROVE  TypeOK' /\ HistoryStep
<1>1. drv \in [Drivers -> Driver] /\ gateWait \in Drivers \cup {NoDriver}
  BY DEF TypeOK, CoroutinesOK
<1>2. /\ Toward(d, dest) \in Driver
      /\ Toward(d, dest).pc = "open" => Toward(d, dest).to \in Steps
  BY <1>1, TowardType
<1>3. Toward(d, dest).seq = drv[d].seq
  BY <1>1 DEF Toward, Driver
<1> QED
  BY <1>1, <1>2, <1>3, FinishType DEF Finishes, Statuses

\* _advance_in closes one attempt and opens at most one.
LEMMA AdvanceFacts ==
    ASSUME records \in Seq(Attempt), NEW seq \in DOMAIN records,
           NEW outcome \in Outcomes, NEW dest \in Steps \cup {Complete},
           NEW history, SameSteps(history),
           Advance(seq, outcome, dest, history)
    PROVE  /\ HistoryStep
           /\ dest # Complete => Len(records') = Len(records) + 1
           /\ wfStatus' \in {"none", "running", "waiting", "complete", "failed"}
           /\ wfStep' \in Steps \cup {NoStep}
<1> DEFINE closed == Rewrite(records, seq, "ok", FALSE, outcome)
<1>1. SameSteps(closed)
  BY RewriteSame DEF Statuses
<1>2. CASE dest = Complete
  BY <1>1, <1>2 DEF Advance, SetRun, HistoryStep
<1>3. CASE dest # Complete
  <2>1. dest \in Steps
    BY <1>3
  <2>2. /\ records' = Append(closed, NewAttempt(BoundedStep(history, dest), history))
        /\ wfStatus' = "running" /\ wfStep' = BoundedStep(history, dest)
    BY <1>3 DEF Advance, SetRun
  <2>3. BoundedStep(history, dest) \in Steps /\ MayOpen(BoundedStep(history, dest))
    BY <2>1, BoundedOpens
  <2> HIDE DEF closed
  <2>4. Opened(records') /\ Len(records') = Len(records) + 1
    BY <1>1, <2>2, <2>3, AppendOpens
  <2> QED
    BY <2>2, <2>3, <2>4 DEF HistoryStep
<1> QED
  BY <1>2, <1>3

-----------------------------------------------------------------------------
(* Every action keeps the types and takes a HistoryStep.                   *)

LEMMA KickType ==
    ASSUME TypeOK, NEW c \in Driver, Kick(c), HistoryStep, UNCHANGED daemon,
           c.pc \notin {"off", "recover", "open", "complete", "done"}
               => c.seq \in 1 .. Len(records'),
           c.pc = "open" => c.to \in Steps,
           wfStatus' \in {"none", "running", "waiting", "complete", "failed"},
           wfStep' \in Steps \cup {NoStep},
           UNCHANGED <<dispatched, reviewed, gateWait, cpu>>
    PROVE  TypeOK'
<1>1. PICK d \in Drivers : drv' = [drv EXCEPT ![d] = c] /\ runs' = d
  BY DEF Kick
<1> QED
  BY <1>1, StepType DEF TypeOK, RowsOK, CoroutinesOK

LEMMA StartRunType ==
    ASSUME TypeOK, StartRun PROVE TypeOK' /\ HistoryStep
<1> DEFINE c == [Off EXCEPT !.pc = "open", !.to = Order[1]]
<1>1. c \in Driver /\ c.pc = "open" /\ c.to \in Steps
  BY FirstStep DEF Off, Driver, Pcs
<1>2. HistoryStep
  BY UnchangedSame DEF TypeOK, RowsOK, StartRun
<1>3. /\ Kick(c) /\ wfStatus' = "running" /\ wfStep' = NoStep
      /\ UNCHANGED <<dispatched, reviewed, gateWait, cpu, daemon>>
  BY DEF StartRun, SetRun
<1> HIDE DEF c
<1> QED
  BY <1>1, <1>2, <1>3, KickType

LEMMA OpenType ==
    ASSUME TypeOK, NEW d \in Drivers, Open(d) PROVE TypeOK' /\ HistoryStep
<1> DEFINE c == Taking(Len(records) + 1, FALSE)
<1>1. records \in Seq(Attempt) /\ drv[d].to \in Steps
  BY DEF TypeOK, RowsOK, CoroutinesOK, Placed, Open, At
<1>2. SameSteps(records)
  BY <1>1 DEF SameSteps
<1>3. Opened(records') /\ Len(records') = Len(records) + 1
  BY <1>1, <1>2, AppendOpens, BoundedOpens DEF Open
<1>4. Len(records) \in Nat /\ Len(records) + 1 \in Nat
  BY <1>1
<1>5. c \in Driver /\ c.pc = "loop" /\ c.seq = Len(records) + 1
  BY <1>4, TakingType
<1>6. drv' = [drv EXCEPT ![d] = c] /\ cpu' = d
  BY DEF Open, Proceed
<1> HIDE DEF c
<1>7. c.seq \in 1 .. Len(records')
  BY <1>3, <1>4, <1>5
<1> QED
  BY <1>3, <1>5, <1>6, <1>7, StepType
  DEF HistoryStep, TypeOK, RowsOK, CoroutinesOK, Open

LEMMA LoopType ==
    ASSUME TypeOK, NEW d \in Drivers, Loop(d) PROVE TypeOK' /\ HistoryStep
<1>0. drv[d].pc \notin {"off", "recover", "open", "complete", "done"}
  BY DEF Loop, At
<1>1. /\ drv[d] \in Driver /\ drv[d].seq \in DOMAIN records
      /\ records[drv[d].seq] \in Attempt
  BY <1>0, OnAttempt
<1>2. UNCHANGED <<dispatched, reviewed, runs, gateWait, daemon>>
  BY DEF Loop
<1>3. CASE Pause(d)
  BY <1>0, <1>2, <1>3, PauseType
<1>4. CASE /\ SetRun("running", records[drv[d].seq].step)
           /\ Proceed(d, [drv[d] EXCEPT !.pc = "enter"])
           /\ UNCHANGED records
  <2> DEFINE c == [drv[d] EXCEPT !.pc = "enter"]
  <2>1. c \in Driver /\ c.pc = "enter" /\ c.seq = drv[d].seq
    BY <1>1 DEF Driver, Pcs
  <2>2. /\ drv' = [drv EXCEPT ![d] = c] /\ cpu' = d /\ wfStatus' = "running"
        /\ wfStep' = records[drv[d].seq].step
    BY <1>4 DEF Proceed, SetRun
  <2>3. records[drv[d].seq].step \in Steps
    BY <1>1 DEF Attempt
  <2> HIDE DEF c
  <2> QED
    BY <1>1, <1>2, <1>4, <2>1, <2>2, <2>3, MoveType
    DEF TypeOK, RowsOK, CoroutinesOK
<1> QED
  BY <1>3, <1>4 DEF Loop

\* The steps of _run_step that wait for something outside the daemon.
LEMMA EnterType ==
    ASSUME TypeOK, NEW d \in Drivers,
           \/ EnterAgent(d) \/ EnterWork(d) \/ EnterDelivery(d)
    PROVE  TypeOK' /\ HistoryStep
<1>1. /\ drv[d].pc \notin {"off", "recover", "open", "complete", "done"}
      /\ UNCHANGED <<durable, runs, gateWait, daemon>>
      /\ \/ Await(d, [drv[d] EXCEPT !.pc = "session"])
         \/ Await(d, [drv[d] EXCEPT !.pc = "work"])
  BY DEF EnterAgent, EnterWork, EnterDelivery, At
<1>2. {"session", "work"} \subseteq Pcs
  BY DEF Pcs
<1> QED
  BY <1>1, <1>2, AwaitType

LEMMA OutcomeTypes == {"result", NoStep} \subseteq Outcomes
  BY DEF Outcomes

LEMMA PromptType ==
    ASSUME TypeOK, NEW d \in Drivers, PromptAcked(d)
    PROVE  TypeOK' /\ HistoryStep
<1> DEFINE n == drv[d].seq
           c == [drv[d] EXCEPT !.pc = "idle"]
           a == [records[n] EXCEPT !.prompted = TRUE]
<1>1. /\ drv[d] \in Driver /\ n \in DOMAIN records /\ records[n] \in Attempt
      /\ records \in Seq(Attempt)
  BY OnAttempt DEF TypeOK, RowsOK, PromptAcked, At
<1>2. a \in Attempt /\ a.step = records[n].step
  BY <1>1 DEF Attempt
<1>3. records' = [records EXCEPT ![n] = a]
  BY DEF PromptAcked
<1>4. c \in Driver /\ c.pc = "idle" /\ c.seq = n
  BY <1>1 DEF Driver, Pcs
<1>5. drv' = [drv EXCEPT ![d] = c] /\ cpu' = NoDriver
  BY DEF PromptAcked, Await
<1> HIDE DEF a, c
<1>6. SameSteps(records')
  BY <1>1, <1>2, <1>3 DEF SameSteps
<1>7. HistoryStep /\ c.seq \in 1 .. Len(records')
  BY <1>1, <1>4, <1>6 DEF HistoryStep, SameSteps
<1> QED
  BY <1>4, <1>5, <1>7, StepType
  DEF TypeOK, RowsOK, CoroutinesOK, PromptAcked

\* The steps that finish a record and route on.
LEMMA EndsType ==
    ASSUME TypeOK, NEW d \in Drivers,
           \/ SessionReady(d) \/ TurnEnds(d) \/ CommandDone(d)
           \/ CaptureDone(d) \/ Decide(d) \/ EnterReview(d)
           \/ ConsumeVerdict(d)
    PROVE  TypeOK' /\ HistoryStep
<1>0. drv[d].pc \notin {"off", "recover", "open", "complete", "done"}
  BY DEF SessionReady, TurnEnds, CommandDone, CaptureDone, Decide, EnterReview,
         ConsumeVerdict, At
<1>1. CASE Await(d, [drv[d] EXCEPT !.pc = "prompt"])
           /\ UNCHANGED <<durable, runs, gateWait, daemon>>
  <2>1. "prompt" \in Pcs BY DEF Pcs
  <2> QED BY <1>0, <1>1, <2>1, AwaitType
<1>2. CASE Await(d, [drv[d] EXCEPT !.pc = "work"])
           /\ UNCHANGED <<durable, runs, gateWait, daemon>>
  <2>1. "work" \in Pcs BY DEF Pcs
  <2> QED BY <1>0, <1>2, <2>1, AwaitType
<1>3. CASE \E outcome \in Outcomes : \E dest : Finishes(d, outcome, dest)
  BY <1>0, <1>3, FinishesType
<1>4. ASSUME Decide(d)
      PROVE  \E outcome \in Outcomes : \E dest : Finishes(d, outcome, dest)
  <2>1. records[drv[d].seq] \in Attempt
    BY <1>0, OnAttempt
  <2>2. records[drv[d].seq].step \in Steps
    BY <2>1 DEF Attempt
  <2>3. PICK dest \in Dests[records[drv[d].seq].step] \ {PauseHere} :
            Finishes(d, dest, dest)
    BY <1>4 DEF Decide
  <2>4. dest \in Outcomes
    BY <2>2, <2>3, DestsAssumption DEF Outcomes
  <2> QED
    BY <2>3, <2>4
<1>5. CASE \/ TurnEnds(d) \/ CommandDone(d) \/ CaptureDone(d)
           \/ ConsumeVerdict(d)
  <2>1. \E outcome \in Outcomes : \E dest : Finishes(d, outcome, dest)
    BY <1>5, OutcomeTypes DEF TurnEnds, CommandDone, CaptureDone, ConsumeVerdict
  <2> QED BY <1>3, <2>1
<1>6. CASE SessionReady(d)
  BY <1>1, <1>3, <1>6, OutcomeTypes DEF SessionReady
<1>7. CASE EnterReview(d)
  BY <1>2, <1>3, <1>7, OutcomeTypes DEF EnterReview
<1> QED
  BY <1>3, <1>4, <1>5, <1>6, <1>7

LEMMA ReviewLandsType ==
    ASSUME TypeOK, NEW d \in Drivers, ReviewLands(d)
    PROVE  TypeOK' /\ HistoryStep
<1> DEFINE c == [drv[d] EXCEPT !.pc = "verdict"]
<1>1. drv[d] \in Driver /\ drv[d].seq \in DOMAIN records
  BY OnAttempt DEF ReviewLands, At
<1>2. c \in Driver /\ c.pc = "verdict" /\ c.seq = drv[d].seq
  BY <1>1 DEF Driver, Pcs
<1>3. drv' = [drv EXCEPT ![d] = c] /\ cpu' = NoDriver
  BY DEF ReviewLands, Await
<1>4. reviewed' \subseteq DOMAIN records
  BY <1>1 DEF ReviewLands, TypeOK, RowsOK
<1> HIDE DEF c
<1> QED
  BY <1>1, <1>2, <1>3, <1>4, MoveType
  DEF ReviewLands, TypeOK, RowsOK, CoroutinesOK

LEMMA EffectBeginsType ==
    ASSUME TypeOK, NEW d \in Drivers, EffectBegins(d)
    PROVE  TypeOK' /\ HistoryStep
<1>1. drv[d].seq \in DOMAIN records
  BY OnAttempt DEF EffectBegins, At
<1>2. drv \in [Drivers -> Driver] /\ UNCHANGED drv
  BY DEF EffectBegins, memory, TypeOK, CoroutinesOK
<1>3. drv' = [drv EXCEPT ![d] = drv[d]] /\ drv[d] \in Driver
  BY <1>2
<1>4. dispatched' \subseteq DOMAIN records
  BY <1>1 DEF EffectBegins, TypeOK, RowsOK
<1> QED
  BY <1>1, <1>3, <1>4, MoveType
  DEF EffectBegins, memory, TypeOK, RowsOK, CoroutinesOK, Placed

\* The one write that settles a delivery, from the loop or from recovery.
LEMMA SettleFacts ==
    ASSUME TypeOK, NEW seq \in DOMAIN records, SettleDelivery(seq),
           Kind[records[seq].step] = "delivery"
    PROVE  /\ HistoryStep
           /\ wfStatus' \in {"none", "running", "waiting", "complete", "failed"}
           /\ wfStep' \in Steps \cup {NoStep}
<1>1. records \in Seq(Attempt) /\ records[seq].step \in Steps
  <2>1. records \in Seq(Attempt) /\ records[seq] \in Attempt
    BY DEF TypeOK, RowsOK
  <2> QED
    BY <2>1 DEF Attempt
<1>2. PICK dest \in Dests[records[seq].step] : Advance(seq, "result", dest, records)
  BY DEF SettleDelivery
<1>3. dest \in Steps \cup {Complete}
  BY <1>1, <1>2, DestsAssumption
<1>4. SameSteps(records) /\ "result" \in Outcomes
  BY <1>1 DEF SameSteps, Outcomes
<1> QED
  BY <1>1, <1>2, <1>3, <1>4, AdvanceFacts

LEMMA DeliveryDoneType ==
    ASSUME TypeOK, NEW d \in Drivers, DeliveryDone(d)
    PROVE  TypeOK' /\ HistoryStep
<1> DEFINE c == [drv[d] EXCEPT !.pc = "decided"]
<1>1. /\ drv[d] \in Driver /\ drv[d].seq \in DOMAIN records
      /\ records \in Seq(Attempt)
  BY OnAttempt DEF DeliveryDone, At, TypeOK, RowsOK
<1>2. c \in Driver /\ c.pc = "decided" /\ c.seq = drv[d].seq
  BY <1>1 DEF Driver, Pcs
<1>3. drv' = [drv EXCEPT ![d] = c] /\ cpu' = NoDriver
  BY DEF DeliveryDone, Await
<1>4. /\ HistoryStep
      /\ wfStatus' \in {"none", "running", "waiting", "complete", "failed"}
      /\ wfStep' \in Steps \cup {NoStep}
  BY <1>1, SettleFacts DEF DeliveryDone, KindOf
<1>5. records' \in Seq(Attempt) /\ Len(records) <= Len(records')
  BY <1>1, <1>4, HistoryStepFacts
<1> HIDE DEF c
<1>6. c.seq \in 1 .. Len(records')
  BY <1>1, <1>2, <1>5
<1> QED
  BY <1>2, <1>3, <1>4, <1>6, StepType
  DEF DeliveryDone, TypeOK, RowsOK, CoroutinesOK

\* Taking up what a committed decision opened, or stopping.
LEMMA AfterDecisionType ==
    ASSUME TypeOK, NEW d \in Drivers, AttemptAfterDecision(d),
           drv[d].pc \notin {"off", "recover", "open", "complete", "done"},
           UNCHANGED <<durable, runs, daemon>>,
           gateWait' \in Drivers \cup {NoDriver}
    PROVE  TypeOK' /\ HistoryStep
<1>1. /\ drv[d] \in Driver /\ drv[d].seq \in DOMAIN records
      /\ records \in Seq(Attempt)
  BY OnAttempt DEF TypeOK, RowsOK
<1>2. PICK c \in Driver :
        /\ drv' = [drv EXCEPT ![d] = c] /\ cpu' \in {d, NoDriver}
        /\ c.pc \in {"loop", "done"}
        /\ c.pc = "loop" => c.seq \in DOMAIN records
  <2>1. CASE Len(records) > drv[d].seq
    <3>1. /\ Taking(Len(records), FALSE) \in Driver
          /\ Taking(Len(records), FALSE).pc = "loop"
          /\ Taking(Len(records), FALSE).seq = Len(records)
      <4>1. Len(records) \in Nat /\ FALSE \in BOOLEAN
        BY <1>1
      <4> QED
        BY <4>1, TakingType
    <3>2. Len(records) \in DOMAIN records
      BY <1>1
    <3> QED
      BY <2>1, <3>1, <3>2 DEF AttemptAfterDecision, Proceed
  <2>2. CASE ~(Len(records) > drv[d].seq)
    <3>1. /\ [drv[d] EXCEPT !.pc = "done"] \in Driver
          /\ [drv[d] EXCEPT !.pc = "done"].pc = "done"
      BY <1>1 DEF Driver, Pcs
    <3> QED
      BY <2>2, <3>1 DEF AttemptAfterDecision, EndRun, Await
  <2> QED
    BY <2>1, <2>2
<1> QED
  BY <1>2, MoveType DEF durable, TypeOK, RowsOK, CoroutinesOK

LEMMA ParkGateType ==
    ASSUME TypeOK, NEW d \in Drivers, ParkGate(d)
    PROVE  TypeOK' /\ HistoryStep
<1> DEFINE n == drv[d].seq
           c == [drv[d] EXCEPT !.pc = "parked"]
<1>1. /\ drv[d] \in Driver /\ n \in DOMAIN records /\ records[n] \in Attempt
      /\ records \in Seq(Attempt)
  BY OnAttempt DEF ParkGate, At, TypeOK, RowsOK
<1>2. records[n].pause \in BOOLEAN /\ records[n].step \in Steps
  BY <1>1 DEF Attempt
<1>3. SameSteps(records')
  BY <1>1, <1>2, RewriteSame DEF ParkGate, Statuses, Outcomes
<1>4. c \in Driver /\ c.pc = "parked" /\ c.seq = n
  BY <1>1 DEF Driver, Pcs
<1>5. /\ drv' = [drv EXCEPT ![d] = c] /\ cpu' = NoDriver
      /\ wfStatus' = "waiting" /\ wfStep' = records[n].step
  BY DEF ParkGate, Await, SetRun
<1> HIDE DEF c
<1>6. HistoryStep /\ c.seq \in 1 .. Len(records')
  BY <1>1, <1>3, <1>4 DEF HistoryStep, SameSteps
<1> QED
  BY <1>2, <1>4, <1>5, <1>6, StepType
  DEF ParkGate, TypeOK, RowsOK, CoroutinesOK

LEMMA FailsType ==
    ASSUME TypeOK, NEW d \in Drivers, StepFails(d)
    PROVE  TypeOK' /\ HistoryStep
<1> DEFINE c == [drv[d] EXCEPT !.pc = "failing"]
<1>0. drv[d].pc \notin {"off", "recover", "open", "complete", "done"}
  BY DEF StepFails
<1>1. drv[d] \in Driver
  BY <1>0, OnAttempt
<1>2. c \in Driver /\ c.pc = "failing" /\ c.seq = drv[d].seq
  BY <1>1 DEF Driver, Pcs
<1>3. Finish(drv[d].seq, "failed", NoStep) /\ Proceed(d, c)
  BY DEF StepFails
<1>4. "failed" \in Statuses /\ NoStep \in Outcomes
  BY DEF Statuses, Outcomes
<1> HIDE DEF c
<1> QED
  BY <1>0, <1>2, <1>3, <1>4, FinishType
  DEF StepFails, TypeOK, CoroutinesOK

LEMMA StepPausesType ==
    ASSUME TypeOK, NEW d \in Drivers, StepPauses(d)
    PROVE  TypeOK' /\ HistoryStep
<1>1. drv[d].pc \notin {"off", "recover", "open", "complete", "done"}
  BY DEF StepPauses, MayPause
<1> QED
  BY <1>1, PauseType DEF StepPauses

LEMMA WokenType ==
    ASSUME TypeOK, NEW d \in Drivers, Woken(d)
    PROVE  TypeOK' /\ HistoryStep
<1>0. /\ drv[d].pc \notin {"off", "recover", "open", "complete", "done"}
      /\ gateWait' \in Drivers \cup {NoDriver}
  BY DEF Woken, At
<1>1. CASE AttemptAfterDecision(d) /\ UNCHANGED durable
  BY <1>0, <1>1, AfterDecisionType DEF Woken
<1>2. CASE /\ Finish(drv[d].seq, "ok", "result")
           /\ Proceed(d, [drv[d] EXCEPT !.pc = "resumed"])
           /\ UNCHANGED <<wfStatus, wfStep, dispatched, reviewed>>
  <2> DEFINE c == [drv[d] EXCEPT !.pc = "resumed"]
  <2>1. drv[d] \in Driver
    BY <1>0, OnAttempt
  <2>2. c \in Driver /\ c.pc = "resumed" /\ c.seq = drv[d].seq /\ Proceed(d, c)
    BY <1>2, <2>1 DEF Driver, Pcs
  <2>3. "ok" \in Statuses /\ "result" \in Outcomes
    BY DEF Statuses, Outcomes
  <2> HIDE DEF c
  <2> QED
    BY <1>0, <1>2, <2>2, <2>3, FinishType DEF Woken
<1> QED
  BY <1>1, <1>2 DEF Woken

LEMMA GateResumedType ==
    ASSUME TypeOK, NEW d \in Drivers, GateResumed(d)
    PROVE  TypeOK' /\ HistoryStep
<1> DEFINE c == Toward(d, StepAfter(records[drv[d].seq].step))
<1>1. drv[d] \in Driver /\ records[drv[d].seq] \in Attempt
  BY OnAttempt DEF GateResumed, At
<1>2. records[drv[d].seq].step \in Steps
  BY <1>1 DEF Attempt
<1>3. /\ c \in Driver /\ c.pc \in {"open", "complete"}
      /\ c.pc = "open" => c.to \in Steps
  BY TowardType DEF TypeOK, CoroutinesOK
<1>4. /\ drv' = [drv EXCEPT ![d] = c] /\ cpu' = d /\ wfStatus' = "running"
      /\ wfStep' = records[drv[d].seq].step
  BY DEF GateResumed, Proceed, SetRun
<1> HIDE DEF c
<1> QED
  BY <1>2, <1>3, <1>4, MoveType
  DEF GateResumed, TypeOK, RowsOK, CoroutinesOK

\* The two endings of a coroutine, and its done callback.
LEMMA EndingType ==
    ASSUME TypeOK, NEW d \in Drivers, RunFails(d) \/ RunCompletes(d) \/ RunDone(d)
    PROVE  TypeOK' /\ HistoryStep
<1>1. drv[d] \in Driver
  BY DEF TypeOK, CoroutinesOK
<1>2. /\ [drv[d] EXCEPT !.pc = "done"] \in Driver
      /\ [drv[d] EXCEPT !.pc = "done"].pc = "done"
      /\ Off \in Driver /\ Off.pc = "off"
  BY <1>1 DEF Driver, Pcs, Off
<1>3. PICK c \in Driver :
        c.pc \in {"off", "done"} /\ drv' = [drv EXCEPT ![d] = c] /\ cpu' = NoDriver
  BY <1>2 DEF RunFails, RunCompletes, RunDone, EndRun, Await
<1>4. /\ wfStatus' \in {"none", "running", "waiting", "complete", "failed"}
      /\ wfStep' \in Steps \cup {NoStep}
      /\ runs' \in Drivers \cup {NoDriver}
      /\ UNCHANGED <<records, dispatched, reviewed, gateWait, daemon>>
  BY DEF RunFails, RunCompletes, RunDone, SetRun, durable,
         TypeOK, RowsOK, CoroutinesOK
<1> QED
  BY <1>3, <1>4, MoveType DEF TypeOK, RowsOK, CoroutinesOK

-----------------------------------------------------------------------------
(* Operator requests.                                                      *)

\* An open last attempt is a recorded row.
LEMMA LastAttempt ==
    ASSUME TypeOK, records # << >>
    PROVE  /\ records \in Seq(Attempt) /\ Len(records) \in Nat
           /\ Len(records) \in DOMAIN records /\ Last \in Attempt
           /\ Last.step \in Steps /\ Last.outcome \in Outcomes
           /\ Last.prompted \in BOOLEAN
<1>1. /\ records \in Seq(Attempt) /\ Len(records) \in Nat
      /\ Len(records) \in DOMAIN records
  BY DEF TypeOK, RowsOK
<1>2. Last \in Attempt
  BY <1>1 DEF Last
<1> QED
  BY <1>1, <1>2 DEF Attempt

LEMMA WakeType ==
    ASSUME TypeOK, FutureOpen, Wake, HistoryStep,
           wfStatus' \in {"none", "running", "waiting", "complete", "failed"},
           wfStep' \in Steps \cup {NoStep},
           UNCHANGED <<dispatched, reviewed, gateWait, cpu, daemon>>
    PROVE  TypeOK'
<1> DEFINE c == [drv[gateWait] EXCEPT !.woken = TRUE]
<1>1. gateWait \in Drivers /\ drv[gateWait] \in Driver /\ Placed(gateWait)
  BY DEF FutureOpen, TypeOK, CoroutinesOK
<1>2. /\ c \in Driver /\ c.pc = drv[gateWait].pc /\ c.seq = drv[gateWait].seq
      /\ c.to = drv[gateWait].to
  BY <1>1 DEF Driver
<1>3. drv' = [drv EXCEPT ![gateWait] = c] /\ runs' = runs
  BY DEF Wake
<1>4. records' \in Seq(Attempt) /\ Len(records) <= Len(records')
      /\ records \in Seq(Attempt)
  BY HistoryStepFacts DEF TypeOK, RowsOK
<1> HIDE DEF c
<1>5. /\ c.pc \notin {"off", "recover", "open", "complete", "done"}
           => c.seq \in 1 .. Len(records')
      /\ c.pc = "open" => c.to \in Steps
  BY <1>1, <1>2, <1>4 DEF Placed
<1> QED
  BY <1>1, <1>2, <1>3, <1>5, StepType DEF TypeOK, RowsOK, CoroutinesOK

\* A coroutine started on the attempt the request opened or reopened.
LEMMA KickTaking ==
    ASSUME TypeOK, NEW n \in Nat, n # 0, Kick(Taking(n, FALSE)),
           HistoryStep, n <= Len(records'), UNCHANGED daemon,
           wfStatus' \in {"none", "running", "waiting", "complete", "failed"},
           wfStep' \in Steps \cup {NoStep},
           UNCHANGED <<dispatched, reviewed, gateWait, cpu>>
    PROVE  TypeOK'
<1> DEFINE c == Taking(n, FALSE)
<1>1. c \in Driver /\ c.pc = "loop" /\ c.seq = n /\ Kick(c)
  BY TakingType
<1>2. records' \in Seq(Attempt)
  BY HistoryStepFacts DEF TypeOK, RowsOK
<1> HIDE DEF c
<1>3. c.seq \in 1 .. Len(records')
  BY <1>1, <1>2
<1> QED
  BY <1>1, <1>3, KickType

LEMMA UnmovedType ==
    ASSUME TypeOK, HistoryStep, UNCHANGED <<drv, runs>>,
           wfStatus' \in {"none", "running", "waiting", "complete", "failed"},
           wfStep' \in Steps \cup {NoStep},
           UNCHANGED <<dispatched, reviewed, gateWait, cpu, daemon>>
    PROVE  TypeOK'
<1>1. /\ records' \in Seq(Attempt) /\ Len(records) <= Len(records')
      /\ records \in Seq(Attempt)
  BY HistoryStepFacts DEF TypeOK, RowsOK
<1>2. DOMAIN records \subseteq DOMAIN records'
  BY <1>1
<1>3. \A d \in Drivers : Placed(d)'
  BY <1>2 DEF Placed, TypeOK, CoroutinesOK
<1> QED
  BY <1>1, <1>2, <1>3
  DEF TypeOK, RowsOK, CoroutinesOK, DaemonOK, daemon

LEMMA AnswerGateType ==
    ASSUME TypeOK, AnswerGate PROVE TypeOK' /\ HistoryStep
<1> DEFINE n == Len(records)
           history == Rewrite(records, n, "ok", FALSE, Last.outcome)
<1>0. UNCHANGED <<dispatched, reviewed, gateWait, cpu, daemon>>
  BY DEF AnswerGate
<1>1. PICK dest \in Dests[Last.step] :
        /\ Advance(n, "result", dest, history)
        /\ IF FutureOpen THEN Wake
           ELSE IF dest = Complete THEN UNCHANGED <<drv, runs>>
           ELSE Kick(Taking(n + 1, FALSE))
  BY DEF AnswerGate
<1>2. /\ records \in Seq(Attempt) /\ n \in Nat /\ n \in DOMAIN records
      /\ Last.step \in Steps /\ Last.outcome \in Outcomes
      /\ Kind[Last.step] = "choice"
  BY LastAttempt DEF AnswerGate, WaitingOn
<1>3. dest \in Steps \cup {Complete}
  BY <1>1, <1>2, DestsAssumption
<1>4. SameSteps(history) /\ "result" \in Outcomes
  BY <1>2, RewriteSame DEF Statuses, Outcomes
<1> HIDE DEF n, history
<1>5. /\ HistoryStep
      /\ dest # Complete => Len(records') = Len(records) + 1
      /\ wfStatus' \in {"none", "running", "waiting", "complete", "failed"}
      /\ wfStep' \in Steps \cup {NoStep}
  BY <1>1, <1>2, <1>3, <1>4, AdvanceFacts
<1>6. CASE FutureOpen
  BY <1>0, <1>1, <1>5, <1>6, WakeType
<1>7. CASE ~FutureOpen /\ dest = Complete
  BY <1>0, <1>1, <1>5, <1>7, UnmovedType
<1>8. CASE ~FutureOpen /\ dest # Complete
  <2>1. n + 1 \in Nat /\ n + 1 # 0 /\ n + 1 <= Len(records')
    BY <1>2, <1>5, <1>8 DEF n
  <2> QED
    BY <1>0, <1>1, <1>5, <1>8, <2>1, KickTaking
<1> QED
  BY <1>5, <1>6, <1>7, <1>8

LEMMA ResumeGateType ==
    ASSUME TypeOK, ResumeGate PROVE TypeOK' /\ HistoryStep
<1>1. HistoryStep
  BY UnchangedSame DEF ResumeGate, durable, TypeOK, RowsOK
<1> QED
  BY <1>1, WakeType DEF ResumeGate, durable, TypeOK, RowsOK

LEMMA RetryStepType ==
    ASSUME TypeOK, RetryStep PROVE TypeOK' /\ HistoryStep
<1> DEFINE n == Len(records)
           closed == Rewrite(records, n, "failed", FALSE, Last.outcome)
           target == RetryTarget(records, Last.step)
<1>1. /\ records \in Seq(Attempt) /\ n \in Nat /\ n \in DOMAIN records
      /\ Last.step \in Steps /\ Last.outcome \in Outcomes
  BY LastAttempt DEF RetryStep, PausedLast
<1>3. /\ records' = Append(closed, NewAttempt(target, records))
      /\ wfStatus' = "running" /\ wfStep' = target
      /\ Kick(Taking(n + 1, FALSE))
      /\ UNCHANGED <<dispatched, reviewed, gateWait, cpu, daemon>>
  BY DEF RetryStep, SetRun
<1>4. SameSteps(closed) /\ SameSteps(records)
  BY <1>1, RewriteSame DEF Statuses, SameSteps
<1>5. target \in Steps /\ MayOpen(target)
  BY <1>1, RetryOpens
<1> HIDE DEF closed, target
<1>6. Opened(records') /\ Len(records') = n + 1
  BY <1>1, <1>3, <1>4, <1>5, AppendOpens
<1>7. n + 1 \in Nat /\ n + 1 # 0 /\ n + 1 <= Len(records') /\ HistoryStep
  BY <1>1, <1>6 DEF HistoryStep
<1> QED
  BY <1>3, <1>5, <1>7, KickTaking

LEMMA ContinueDeliveryType ==
    ASSUME TypeOK, ContinueDelivery PROVE TypeOK' /\ HistoryStep
<1> DEFINE n == Len(records)
<1>1. /\ records \in Seq(Attempt) /\ n \in Nat /\ n \in DOMAIN records
      /\ Last.step \in Steps /\ Last.outcome \in Outcomes
  BY LastAttempt DEF ContinueDelivery, PausedLast
<1>2. /\ records' = Rewrite(records, n, "running", FALSE, Last.outcome)
      /\ wfStatus' = "running" /\ wfStep' = Last.step
      /\ Kick(Taking(n, FALSE))
      /\ UNCHANGED <<dispatched, reviewed, gateWait, cpu, daemon>>
  BY DEF ContinueDelivery, SetRun
<1>3. SameSteps(records')
  BY <1>1, <1>2, RewriteSame DEF Statuses
<1>4. HistoryStep /\ n # 0 /\ n <= Len(records')
  BY <1>1, <1>3 DEF HistoryStep, SameSteps
<1> QED
  BY <1>1, <1>2, <1>4, KickTaking

-----------------------------------------------------------------------------
(* The daemon stops and starts.                                            *)

LEMMA CrashType ==
    ASSUME TypeOK, Crash PROVE TypeOK' /\ HistoryStep
<1>1. Off \in Driver /\ Off.pc = "off"
  BY DEF Off, Driver, Pcs
<1>2. drv' \in [Drivers -> Driver] /\ \A d \in Drivers : drv'[d].pc = "off"
  BY <1>1 DEF Crash
<1>3. \A d \in Drivers : Placed(d)'
  BY <1>2 DEF Placed
<1>4. HistoryStep
  BY UnchangedSame DEF Crash, durable, TypeOK, RowsOK
<1> QED
  BY <1>2, <1>3, <1>4
  DEF Crash, durable, TypeOK, RowsOK, CoroutinesOK, DaemonOK

LEMMA RestartType ==
    ASSUME TypeOK, Restart PROVE TypeOK' /\ HistoryStep
<1>1. HistoryStep
  BY UnchangedSame DEF Restart, durable, TypeOK, RowsOK
<1>2. \A d \in Drivers : Placed(d)'
  BY DEF Restart, durable, memory, TypeOK, CoroutinesOK, Placed
<1> QED
  BY <1>1, <1>2
  DEF Restart, durable, memory, TypeOK, RowsOK, CoroutinesOK, DaemonOK

LEMMA RecoverRunType ==
    ASSUME TypeOK, RecoverRun PROVE TypeOK' /\ HistoryStep
<1>1. HistoryStep
  BY UnchangedSame DEF RecoverRun, durable, TypeOK, RowsOK
<1>2. /\ drv' \in [Drivers -> Driver] /\ runs' \in Drivers \cup {NoDriver}
      /\ \A e \in Drivers : Placed(e)'
  <2>1. CASE UNCHANGED <<drv, runs>>
    BY <2>1 DEF RecoverRun, durable, TypeOK, CoroutinesOK, Placed
  <2>2. CASE Kick([Off EXCEPT !.pc = "recover"])
    <3> DEFINE c == [Off EXCEPT !.pc = "recover"]
    <3>1. c \in Driver /\ c.pc = "recover"
      BY DEF Off, Driver, Pcs
    <3>2. PICK d \in Drivers : drv' = [drv EXCEPT ![d] = c] /\ runs' = d
      BY <2>2 DEF Kick
    <3>3. records' \in Seq(Attempt) /\ Len(records) <= Len(records')
      BY <1>1, HistoryStepFacts DEF TypeOK, RowsOK
    <3> HIDE DEF c
    <3> QED
      BY <3>1, <3>2, <3>3, MoveKeepsPlaces
  <2> QED
    BY <2>1, <2>2 DEF RecoverRun
<1> QED
  BY <1>1, <1>2
  DEF RecoverRun, durable, TypeOK, RowsOK, CoroutinesOK, DaemonOK

\* Recovery that moves the coroutine and writes at most the run row.
LEMMA RecoverQuietType ==
    ASSUME TypeOK, NEW d \in Drivers,
           RecoverEmpty(d) \/ RecoverWaiting(d) \/ RecoverRunning(d)
           \/ RecoverFinished(d)
    PROVE  TypeOK' /\ HistoryStep
<1> DEFINE Good(c) ==
             /\ c \in Driver /\ c.pc # "off"
             /\ c.pc \notin {"off", "recover", "open", "complete", "done"}
                  => c.seq \in DOMAIN records
             /\ c.pc = "open" => c.to \in Steps
<1>0. drv \in [Drivers -> Driver] /\ drv[d] \in Driver
  BY DEF TypeOK, CoroutinesOK
<1>1. Good([drv[d] EXCEPT !.pc = "done"])
  BY <1>0 DEF Driver, Pcs
<1>2. \A dest : Good(Toward(d, dest))
  <2> TAKE dest
  <2> QED BY <1>0, TowardType
<1>3. records # << >> =>
        Good([Off EXCEPT !.pc = "parked", !.seq = Len(records)])
  BY LastAttempt DEF Off, Driver, Pcs
<1>4. records # << >> => \A nudge \in BOOLEAN : Good(Taking(Len(records), nudge))
  BY LastAttempt, TakingType
<1>5. records # << >> => Last.step \in Steps /\ Last.prompted \in BOOLEAN
  BY LastAttempt
<1>6. /\ UNCHANGED <<records, dispatched, reviewed, runs, daemon>>
      /\ gateWait' \in Drivers \cup {NoDriver}
      /\ wfStatus' \in {"none", "running", "waiting", "complete", "failed"}
      /\ wfStep' \in Steps \cup {NoStep}
  BY <1>5 DEF RecoverEmpty, RecoverWaiting, RecoverRunning, RecoverFinished,
              SetRun, durable, TypeOK, RowsOK, CoroutinesOK
<1>7. \E c : Good(c) /\ drv' = [drv EXCEPT ![d] = c] /\ cpu' \in {d, NoDriver}
  <2> HIDE DEF Good
  <2>1. CASE RecoverEmpty(d)
    BY <1>2, <2>1 DEF RecoverEmpty, Proceed
  <2>2. CASE RecoverWaiting(d)
    BY <1>1, <1>3, <2>2 DEF RecoverWaiting, EndRun, Await
  <2>3. CASE RecoverRunning(d)
    <3>1. (Kind[Last.step] = "agent" /\ Last.prompted) \in BOOLEAN
      OBVIOUS
    <3> QED
      BY <1>4, <2>3, <3>1 DEF RecoverRunning, Proceed
  <2>4. CASE RecoverFinished(d)
    BY <1>1, <1>2, <2>4 DEF RecoverFinished, Proceed, EndRun, Await
  <2> QED
    BY <2>1, <2>2, <2>3, <2>4
<1>8. PICK c : Good(c) /\ drv' = [drv EXCEPT ![d] = c] /\ cpu' \in {d, NoDriver}
  BY <1>7
<1> QED
  BY <1>6, <1>8, MoveType DEF TypeOK, RowsOK, CoroutinesOK

LEMMA RecoverDeliveryType ==
    ASSUME TypeOK, NEW d \in Drivers, RecoverDelivery(d)
    PROVE  TypeOK' /\ HistoryStep
<1> DEFINE n == Len(records)
<1>0. UNCHANGED <<dispatched, reviewed, runs, gateWait, daemon>>
  BY DEF RecoverDelivery
<1>1. /\ records \in Seq(Attempt) /\ n \in Nat /\ n \in DOMAIN records
      /\ Last.step \in Steps /\ Last.outcome \in Outcomes
      /\ Kind[records[n].step] = "delivery" /\ drv[d] \in Driver
  BY LastAttempt DEF RecoverDelivery, Last, TypeOK, CoroutinesOK
<1>2. CASE /\ SettleDelivery(n)
           /\ Proceed(d, [drv[d] EXCEPT !.pc = "decided", !.seq = n])
  <2> DEFINE c == [drv[d] EXCEPT !.pc = "decided", !.seq = n]
  <2>1. c \in Driver /\ c.pc = "decided" /\ c.seq = n
    BY <1>1 DEF Driver, Pcs
  <2>2. drv' = [drv EXCEPT ![d] = c] /\ cpu' = d
    BY <1>2 DEF Proceed
  <2>3. /\ HistoryStep
        /\ wfStatus' \in {"none", "running", "waiting", "complete", "failed"}
        /\ wfStep' \in Steps \cup {NoStep}
    BY <1>1, <1>2, SettleFacts
  <2>4. records' \in Seq(Attempt) /\ Len(records) <= Len(records')
    BY <1>1, <2>3, HistoryStepFacts
  <2> HIDE DEF c
  <2>5. c.seq \in 1 .. Len(records')
    BY <1>1, <2>1, <2>4
  <2> QED
    BY <1>0, <2>1, <2>2, <2>3, <2>5, StepType DEF TypeOK, RowsOK, CoroutinesOK
<1>3. CASE /\ records' = Rewrite(records, n, "waiting", TRUE, Last.outcome)
           /\ SetRun("waiting", Last.step)
           /\ EndRun(d)
  <2> DEFINE c == [drv[d] EXCEPT !.pc = "done"]
  <2>1. c \in Driver /\ c.pc = "done"
    BY <1>1 DEF Driver, Pcs
  <2>2. /\ drv' = [drv EXCEPT ![d] = c] /\ cpu' = NoDriver
        /\ wfStatus' = "waiting" /\ wfStep' = Last.step
    BY <1>3 DEF EndRun, Await, SetRun
  <2>3. HistoryStep
    BY <1>1, <1>3, RewriteSame DEF Statuses, HistoryStep
  <2> HIDE DEF c
  <2> QED
    BY <1>0, <1>1, <2>1, <2>2, <2>3, StepType DEF TypeOK, RowsOK, CoroutinesOK
<1> QED
  BY <1>2, <1>3 DEF RecoverDelivery

LEMMA TakeSettledType ==
    ASSUME TypeOK, NEW d \in Drivers, TakeSettled(d)
    PROVE  TypeOK' /\ HistoryStep
  BY AfterDecisionType DEF TakeSettled, At, TypeOK, CoroutinesOK

\* Every step of the system, stuttering included.
LEMMA NextType ==
    ASSUME TypeOK, [Next]_vars PROVE TypeOK' /\ HistoryStep
<1>1. CASE UNCHANGED vars
  <2>1. HistoryStep
    BY <1>1, UnchangedSame DEF vars, durable, TypeOK, RowsOK
  <2>2. \A d \in Drivers : Placed(d)'
    BY <1>1 DEF vars, durable, memory, TypeOK, CoroutinesOK, Placed
  <2> QED
    BY <1>1, <2>1, <2>2
    DEF vars, durable, memory, daemon, TypeOK, RowsOK, CoroutinesOK, DaemonOK
<1>2. CASE StartRun \/ Operator \/ Crash \/ Restart \/ RecoverRun
  BY <1>2, StartRunType, AnswerGateType, ResumeGateType, RetryStepType,
     ContinueDeliveryType, CrashType, RestartType, RecoverRunType DEF Operator
<1>3. ASSUME NEW d \in Drivers, Execute(d) PROVE TypeOK' /\ HistoryStep
  <2>1. CASE Open(d) \/ Loop(d) \/ Woken(d) \/ GateResumed(d)
    BY <2>1, OpenType, LoopType, WokenType, GateResumedType
  <2>2. CASE RunFails(d) \/ RunCompletes(d) \/ RunDone(d)
    BY <2>2, EndingType
  <2>3. CASE Recover(d)
    BY <2>3, RecoverQuietType, RecoverDeliveryType DEF Recover
  <2>4. CASE RunStep(d)
    BY <2>4, EnterType, PromptType, EndsType, ReviewLandsType, EffectBeginsType,
       DeliveryDoneType, TakeSettledType, ParkGateType, StepPausesType,
       FailsType DEF RunStep
  <2> QED
    BY <1>3, <2>1, <2>2, <2>3, <2>4 DEF Execute
<1> QED
  BY <1>1, <1>2, <1>3 DEF Next

LEMMA InitType == Init => TypeOK /\ VisitBound
<1> SUFFICES ASSUME Init PROVE TypeOK /\ VisitBound
  OBVIOUS
<1>1. Off \in Driver /\ Off.pc = "off"
  BY DEF Off, Driver, Pcs
<1>2. TypeOK
  BY <1>1 DEF Init, TypeOK, RowsOK, CoroutinesOK, DaemonOK, Placed
<1>4. VisitBound
  BY DEF Init, VisitBound
<1> QED
  BY <1>2, <1>4

\* Type correctness of the run engine, for every definition, any number of
\* coroutines, and operators served during recovery or not.  It includes that
\* no coroutine of _execute ever stands on an attempt that was not recorded.
THEOREM TypeCorrect == Spec => []TypeOK
<1>1. Init => TypeOK
  BY InitType
<1>2. TypeOK /\ [Next]_vars => TypeOK'
  BY NextType
<1> QED
  BY <1>1, <1>2, PTL DEF Spec

-----------------------------------------------------------------------------
(* The visit bound.                                                        *)

\* Visits among the first attempts are counted by their steps alone.
LEMMA PrefixVisits ==
    ASSUME NEW recs, NEW others, NEW s, NEW n \in Nat,
           \A i : i <= n => (i \in DOMAIN recs <=> i \in DOMAIN others),
           \A i \in DOMAIN recs : i <= n => recs[i].step = others[i].step
    PROVE  VisitsBy(recs, s, n) = VisitsBy(others, s, n)
<1>1. {i \in DOMAIN recs : i <= n /\ recs[i].step = s}
        = {i \in DOMAIN others : i <= n /\ others[i].step = s}
  OBVIOUS
<1> QED
  BY <1>1 DEF VisitsBy

LEMMA AllVisits ==
    ASSUME NEW recs \in Seq(Attempt), NEW s
    PROVE  VisitsBy(recs, s, Len(recs)) = Visits(recs, s)
<1>1. {i \in DOMAIN recs : i <= Len(recs) /\ recs[i].step = s}
        = {i \in DOMAIN recs : recs[i].step = s}
  OBVIOUS
<1> QED
  BY <1>1 DEF VisitsBy, Visits

\* An attempt that has its bound, or its escape, keeps it while the steps of the
\* attempts up to it stay the same.
LEMMA BoundStays ==
    ASSUME records \in Seq(Attempt), records' \in Seq(Attempt),
           NEW i \in DOMAIN records, i \in DOMAIN records',
           \A j \in 1 .. i : records'[j].step = records[j].step,
           WithinBound(i) \/ IsEscape(i)
    PROVE  WithinBound(i)' \/ IsEscape(i)'
<1>2. ASSUME NEW n \in Nat, n <= i, NEW s
      PROVE  VisitsBy(records', s, n) = VisitsBy(records, s, n)
  <2>1. /\ \A j : j <= n => (j \in DOMAIN records' <=> j \in DOMAIN records)
        /\ \A j \in DOMAIN records' : j <= n => records'[j].step = records[j].step
    BY <1>2
  <2> QED
    BY <1>2, <2>1, PrefixVisits
<1>3. i \in Nat /\ i \in 1 .. i /\ records'[i].step = records[i].step
  OBVIOUS
<1>4. CASE WithinBound(i)
  BY <1>2, <1>3, <1>4 DEF WithinBound
<1>5. CASE IsEscape(i)
  <2>1. i - 1 \in 1 .. i /\ i - 1 \in Nat /\ i - 1 <= i /\ i - 1 \in DOMAIN records'
    BY <1>5 DEF IsEscape
  <2>2. records'[i - 1].step = records[i - 1].step
    BY <2>1
  <2>3. VisitsBy(records', records[i - 1].step, i - 1) =
          VisitsBy(records, records[i - 1].step, i - 1)
    BY <1>2, <2>1
  <2> QED
    BY <1>3, <1>5, <2>1, <2>2, <2>3 DEF IsEscape
<1> QED
  BY <1>4, <1>5

\* A HistoryStep opens an attempt of a step below its bound, or the escape of the
\* newest attempt, whose step is at its own.
LEMMA BoundKept ==
    ASSUME TypeOK, VisitBound, HistoryStep PROVE VisitBound'
<1>1. records \in Seq(Attempt) /\ records' \in Seq(Attempt)
  BY HistoryStepFacts DEF TypeOK, RowsOK
<1>2. CASE SameSteps(records')
  <2>1. DOMAIN records' = DOMAIN records /\ \A j \in DOMAIN records : records'[j].step = records[j].step
    BY <1>1, <1>2 DEF SameSteps
  <2>2. ASSUME NEW i \in DOMAIN records' PROVE WithinBound(i)' \/ IsEscape(i)'
    <3>1. i \in DOMAIN records /\ \A j \in 1 .. i : j \in DOMAIN records
      BY <1>1, <2>1
    <3> QED
      BY <1>1, <2>1, <3>1, BoundStays DEF VisitBound
  <2> QED
    BY <2>2 DEF VisitBound
<1>3. CASE Opened(records')
  <2>1. PICK closed \in Seq(Attempt), a \in Attempt :
          SameSteps(closed) /\ MayOpen(a.step) /\ records' = Append(closed, a)
    BY <1>3 DEF Opened
  <2>0. PICK n \in Nat : n = Len(records)
    BY <1>1
  <2>2. /\ n \in Nat /\ Len(closed) = n /\ Len(records') = n + 1
        /\ DOMAIN records' = 1 .. n + 1 /\ records'[n + 1] = a
        /\ \A j \in DOMAIN records : records'[j].step = records[j].step
    BY <1>1, <2>0, <2>1 DEF SameSteps
  <2>3. ASSUME NEW i \in DOMAIN records PROVE WithinBound(i)' \/ IsEscape(i)'
    <3>1. i \in DOMAIN records' /\ \A j \in 1 .. i : j \in DOMAIN records
      BY <1>1, <2>0, <2>2
    <3> QED
      BY <1>1, <2>2, <3>1, BoundStays DEF VisitBound
  <2>9. ASSUME WithinBound(n + 1)' \/ IsEscape(n + 1)' PROVE VisitBound'
    <3>1. \A i \in DOMAIN records' : i \in DOMAIN records \/ i = n + 1
      BY <1>1, <2>0, <2>2
    <3> QED
      BY <2>3, <2>9, <3>1 DEF VisitBound
  <2>4. CASE ~AtBound(records, a.step) /\ MaxVisits[a.step] # 0
    <3>1. Visits(closed, a.step) = Visits(records, a.step)
      <4>1. DOMAIN closed = DOMAIN records /\ \A j \in DOMAIN closed : closed[j].step = records[j].step
        BY <1>1, <2>1 DEF SameSteps
      <4> QED
        BY <4>1, VisitsByStep
    <3>2. /\ Visits(closed, a.step) \in Nat
          /\ Visits(records', a.step) = Visits(closed, a.step) + 1
      BY <2>1, VisitsAppend
    <3>3. MaxVisits[a.step] \in Nat
      BY BoundAssumption DEF Attempt
    <3>4. Visits(records', a.step) <= MaxVisits[a.step]
      BY <2>4, <3>1, <3>2, <3>3 DEF AtBound
    <3>5. VisitsBy(records', a.step, n + 1) = Visits(records', a.step)
      BY <1>1, <2>2, AllVisits
    <3>6. WithinBound(n + 1)'
      BY <2>2, <3>4, <3>5 DEF WithinBound
    <3> QED
      BY <2>9, <3>6
  <2>5. CASE MaxVisits[a.step] = 0
    <3>1. WithinBound(n + 1)'
      BY <2>2, <2>5 DEF WithinBound
    <3> QED
      BY <2>9, <3>1
  <2>6. CASE /\ records # << >> /\ AtBound(records, Last.step)
             /\ a.step = OnExhausted[Last.step]
    <3> DEFINE s == Last.step
    <3>1. n \in DOMAIN records /\ (n + 1) - 1 = n /\ n \in DOMAIN records' /\ n <= n
      BY <1>1, <2>0, <2>2, <2>6
    <3>2. records'[n].step = s
      BY <2>0, <2>2, <3>1 DEF Last
    <3>3. VisitsBy(records', s, n) = VisitsBy(records, s, n)
      <4>1. /\ \A j : j <= n => (j \in DOMAIN records' <=> j \in DOMAIN records)
            /\ \A j \in DOMAIN records' : j <= n => records'[j].step = records[j].step
        BY <1>1, <2>0, <2>2
      <4> HIDE DEF s
      <4> QED
        BY <2>2, <4>1, PrefixVisits
    <3>4. VisitsBy(records, s, n) = Visits(records, s)
      <4> HIDE DEF s
      <4> QED BY <1>1, <2>0, AllVisits
    <3>5. MaxVisits[s] # 0 /\ VisitsBy(records', s, n) >= MaxVisits[s]
      BY <2>6, <3>3, <3>4 DEF AtBound
    <3>6. IsEscape(n + 1)'
      BY <2>2, <2>6, <3>1, <3>2, <3>5 DEF IsEscape
    <3> QED
      BY <2>9, <3>6
  <2> QED
    BY <2>1, <2>4, <2>5, <2>6 DEF MayOpen
<1> QED
  BY <1>2, <1>3 DEF HistoryStep

\* No route, gate answer, retry, settled delivery or restart opens an attempt
\* beyond its step's bound, whichever of them interleave, but for the one an
\* attempt at its bound escapes to: every place that opens an attempt counts the
\* rows first (_bounded_step, _retry_target), and the retry counts only once.
THEOREM VisitBoundHolds == Spec => []VisitBound
<1> DEFINE Inv == TypeOK /\ VisitBound
<1>1. Init => Inv
  BY InitType
<1>2. Inv /\ [Next]_vars => Inv'
  BY NextType, BoundKept
<1>3. Inv => VisitBound
  OBVIOUS
<1> QED
  BY <1>1, <1>2, <1>3, PTL DEF Spec


-----------------------------------------------------------------------------
(* Steps strictly sequential, where requests wait for recovery.            *)

Terminal == {"complete", "failed"}
Working  == {"loop", "enter", "session", "prompt", "idle", "work", "verdict"}

Closed == \A i \in DOMAIN records : ~IsOpen(records[i])

\* The coroutine is on the newest attempt.
OnNewest(d) == records # << >> /\ drv[d].seq = Len(records)

\* The decision the coroutine waits for is committed: the successor it opened
\* is there, or the run is complete.
Settled(d) ==
    \/ Len(records) = drv[d].seq + 1 /\ Last.status = "running" /\ wfStatus = "running"
    \/ OnNewest(d) /\ Closed /\ wfStatus = "complete"

\* The coroutine holds the question that the newest attempt waits on.
Asking(d) ==
    OnNewest(d) /\ Last.status = "waiting" /\ ~Last.pause /\ wfStatus = "waiting"

\* What a coroutine may rely on, wherever it is suspended or cut.
Standing(d) ==
    /\ drv[d].pc = "recover" => wfStatus \in {"running", "waiting"}
    /\ drv[d].pc \in {"open", "complete"} => Closed /\ wfStatus \notin Terminal
    /\ drv[d].pc \in {"resumed", "failing"} =>
           OnNewest(d) /\ Closed /\ wfStatus \notin Terminal
    /\ drv[d].pc \in Working =>
           /\ OnNewest(d) /\ Last.status = "running" /\ wfStatus \notin Terminal
           /\ ~drv[d].woken
    /\ drv[d].pc = "parked" => gateWait = d
    /\ drv[d].pc = "parked" /\ ~drv[d].woken => Asking(d)
    /\ drv[d].pc = "parked" /\ drv[d].woken =>
           \/ KindOf(d) = "gate" /\ Asking(d)
           \/ KindOf(d) = "choice" /\ Settled(d)
    /\ drv[d].pc = "decided" => Settled(d)

\* Only a waiting attempt is paused.
Unpaused ==
    \A i \in DOMAIN records : records[i].status = "running" => ~records[i].pause

Stopped == \A d \in Drivers : ~Live(d)

Sequential ==
    /\ OneOpenAttempt /\ Unpaused
    /\ \A d, e \in Drivers : Live(d) /\ Live(e) => d = e
    /\ \A d \in Drivers : Standing(d)
    /\ gateWait # NoDriver => drv[gateWait].pc = "parked"
    /\ wfStatus = "none" => records = << >> /\ Stopped
    /\ wfStatus \in Terminal => Closed
    /\ boot # "serving" => Stopped
    /\ boot = "recovering" => snapshot = wfStatus

\* The history with its newest attempt rewritten, if it was open.
Amended(recs) ==
    /\ recs \in Seq(Attempt) /\ Len(recs) = Len(records)
    /\ \A i \in DOMAIN records :
         /\ recs[i].step = records[i].step /\ recs[i].evidence = records[i].evidence
         /\ records[i].status = "ok" => recs[i].status = "ok"
         /\ i # Len(records) => recs[i].status = records[i].status
         /\ recs[i].status = "running" /\ recs[i].pause =>
                records[i].status = "running" /\ records[i].pause

\* The history with that attempt closed and the next one opened, whose
\* evidence was looked up before or within the same commit.
Continued(recs) ==
    \E closed, history \in Seq(Attempt), s \in Steps :
        /\ Amended(closed) /\ Amended(history)
        /\ \A i \in DOMAIN closed : ~IsOpen(closed[i])
        /\ \A i \in DOMAIN closed : history[i].status = "ok" => closed[i].status = "ok"
        /\ recs = Append(closed, NewAttempt(s, history))

Progress == Amended(records') \/ Continued(records')

LEMMA AmendLast ==
    ASSUME records \in Seq(Attempt), records # << >>, Last.status # "ok",
           NEW a \in Attempt, a.step = Last.step, a.evidence = Last.evidence,
           a.status = "running" /\ a.pause => Last.status = "running" /\ Last.pause,
           NEW recs, recs = [records EXCEPT ![Len(records)] = a]
    PROVE  Amended(recs) /\ Len(recs) = Len(records) /\ recs[Len(recs)] = a
<1> DEFINE n == Len(records)
<1>1. n \in DOMAIN records
  OBVIOUS
<1>2. /\ recs \in Seq(Attempt) /\ Len(recs) = n /\ recs[n] = a
      /\ \A i \in DOMAIN records : i # n => recs[i] = records[i]
  BY <1>1
<1> QED
  BY <1>1, <1>2 DEF Amended, Last

\* Closing or reopening the newest attempt, and leaving it waiting.
LEMMA FinishLast ==
    ASSUME records \in Seq(Attempt), records # << >>, Last.status # "ok",
           NEW status \in Statuses, NEW outcome \in Outcomes,
           NEW recs, recs = Rewrite(records, Len(records), status, FALSE, outcome)
    PROVE  /\ Amended(recs)
           /\ recs[Len(recs)].status = status /\ recs[Len(recs)].step = Last.step
<1> DEFINE a == [Last EXCEPT !.status = status, !.pause = FALSE, !.outcome = outcome]
<1>1. Last \in Attempt
  BY DEF Last
<1>2. /\ a \in Attempt /\ a.step = Last.step /\ a.evidence = Last.evidence
      /\ a.status = status /\ a.pause = FALSE
  BY <1>1 DEF Attempt
<1>3. recs = [records EXCEPT ![Len(records)] = a]
  BY DEF Rewrite, Last
<1> HIDE DEF a
<1> QED
  BY <1>2, <1>3, AmendLast

LEMMA WaitLast ==
    ASSUME records \in Seq(Attempt), records # << >>, Last.status # "ok",
           NEW pause \in BOOLEAN, NEW outcome \in Outcomes,
           NEW recs, recs = Rewrite(records, Len(records), "waiting", pause, outcome)
    PROVE  /\ Amended(recs)
           /\ recs[Len(recs)].status = "waiting" /\ recs[Len(recs)].pause = pause
<1> DEFINE a == [Last EXCEPT !.status = "waiting", !.pause = pause, !.outcome = outcome]
<1>1. Last \in Attempt
  BY DEF Last
<1>2. /\ a \in Attempt /\ a.step = Last.step /\ a.evidence = Last.evidence
      /\ a.status = "waiting" /\ a.pause = pause
  BY <1>1 DEF Attempt, Statuses
<1>3. recs = [records EXCEPT ![Len(records)] = a]
  BY DEF Rewrite, Last
<1> HIDE DEF a
<1> QED
  BY <1>2, <1>3, AmendLast

LEMMA UnchangedAmended ==
    ASSUME records \in Seq(Attempt) PROVE Amended(records)
  BY DEF Amended

\* Closing the newest attempt closes them all.
LEMMA AmendedCloses ==
    ASSUME records \in Seq(Attempt), OneOpenAttempt, NEW recs, Amended(recs),
           records # << >> => ~IsOpen(recs[Len(recs)])
    PROVE  \A i \in DOMAIN recs : ~IsOpen(recs[i])
<1> SUFFICES ASSUME NEW i \in DOMAIN recs PROVE ~IsOpen(recs[i])
  OBVIOUS
<1>1. i \in DOMAIN records /\ DOMAIN recs = DOMAIN records /\ Len(recs) = Len(records)
  BY DEF Amended
<1>2. CASE i = Len(records)
  BY <1>1, <1>2
<1>3. CASE i # Len(records)
  BY <1>1, <1>3 DEF Amended, OneOpenAttempt, IsOpen
<1> QED
  BY <1>2, <1>3

\* Amending or continuing the history leaves at most its newest attempt open.
LEMMA ProgressKeepsOne ==
    ASSUME records \in Seq(Attempt), OneOpenAttempt, Unpaused, Progress
    PROVE  OneOpenAttempt' /\ Unpaused'
<1>1. CASE Amended(records')
  BY <1>1 DEF Amended, OneOpenAttempt, Unpaused, IsOpen
<1>2. CASE Continued(records')
  <2>1. PICK closed, history \in Seq(Attempt), s \in Steps :
            /\ Amended(closed) /\ Amended(history)
            /\ \A i \in DOMAIN closed : ~IsOpen(closed[i])
            /\ records' = Append(closed, NewAttempt(s, history))
    BY <1>2 DEF Continued
  <2>2. NewAttempt(s, history) \in Attempt /\ closed \in Seq(Attempt)
    BY <2>1, NewAttemptType DEF Amended
  <2>3. \A i \in DOMAIN closed : closed[i].status = "running" => ~closed[i].pause
    BY <2>1 DEF IsOpen
  <2>4. NewAttempt(s, history).pause = FALSE
    BY DEF NewAttempt
  <2> QED
    BY <2>1, <2>2, <2>3, <2>4 DEF OneOpenAttempt, Unpaused
<1> QED
  BY <1>1, <1>2 DEF Progress

\* Continuing with what _open, _advance_in or retry_paused_step opens.
LEMMA Continues ==
    ASSUME records \in Seq(Attempt), NEW closed, NEW history, NEW s \in Steps,
           Amended(closed), Amended(history),
           \A i \in DOMAIN closed : ~IsOpen(closed[i]),
           \A i \in DOMAIN closed : history[i].status = "ok" => closed[i].status = "ok",
           records' = Append(closed, NewAttempt(s, history))
    PROVE  /\ Progress /\ Len(records') = Len(records) + 1
           /\ records'[Len(records')].status = "running" /\ records' # << >>
           /\ \A i \in DOMAIN records : records'[i].step = records[i].step
<1>1. NewAttempt(s, history) \in Attempt /\ closed \in Seq(Attempt)
      /\ Len(closed) = Len(records) /\ Len(records) \in Nat
  BY NewAttemptType DEF Amended
<1>2. NewAttempt(s, history).status = "running"
  BY DEF NewAttempt
<1>3. /\ Len(records') = Len(records) + 1
      /\ records'[Len(records) + 1] = NewAttempt(s, history)
      /\ \A i \in DOMAIN closed : records'[i] = closed[i]
  BY <1>1
<1>4. Continued(records')
  <2>1. history \in Seq(Attempt)
    BY DEF Amended
  <2> QED
    BY <1>1, <2>1, Zenon DEF Continued
<1> QED
  BY <1>1, <1>2, <1>3, <1>4 DEF Progress, Amended

\* A coroutine that stands anywhere is alone, and the daemon is serving.
LEMMA LoneFacts ==
    ASSUME TypeOK, Sequential, NEW d \in Drivers, Live(d)
    PROVE  /\ boot = "serving" /\ wfStatus # "none" /\ Standing(d)
           /\ \A e \in Drivers : Live(e) => e = d
           /\ drv[d].pc # "parked" => gateWait = NoDriver
           /\ drv[d].pc = "parked" => gateWait = d
<1>1. \A e \in Drivers : Live(e) => e = d
  BY DEF Sequential
<1>2. ASSUME gateWait # NoDriver PROVE gateWait = d /\ drv[d].pc = "parked"
  BY <1>1, <1>2 DEF Sequential, Live, TypeOK, CoroutinesOK
<1> QED
  BY <1>1, <1>2 DEF Sequential, Stopped, Standing

\* A step that moves or starts the one coroutine there is.
LEMMA LoneStep ==
    ASSUME TypeOK, Sequential, NEW d \in Drivers, NEW c,
           \A e \in Drivers : Live(e) => e = d,
           drv' = [drv EXCEPT ![d] = c], boot' = "serving", Progress, Standing(d)',
           wfStatus' # "none", wfStatus' \in Terminal => Closed',
           gateWait' # NoDriver => gateWait' = d /\ c.pc = "parked"
    PROVE  Sequential'
<1>1. drv \in [Drivers -> Driver] /\ records \in Seq(Attempt)
  BY DEF TypeOK, RowsOK, CoroutinesOK
<1>2. OneOpenAttempt' /\ Unpaused'
  BY <1>1, ProgressKeepsOne DEF Sequential
<1>3. \A e \in Drivers : e # d => drv'[e].pc \in {"off", "done"}
  BY <1>1 DEF Live
<1>4. \A e, f \in Drivers : Live(e)' /\ Live(f)' => e = f
  BY <1>3 DEF Live
<1>5. \A e \in Drivers : Standing(e)'
  <2> TAKE e \in Drivers
  <2>1. CASE e = d
    BY <2>1
  <2>2. CASE e # d
    BY <1>3, <2>2 DEF Standing, Working
  <2> QED
    BY <2>1, <2>2
<1>6. (gateWait # NoDriver => drv[gateWait].pc = "parked")'
  BY <1>1
<1> QED
  BY <1>2, <1>4, <1>5, <1>6 DEF Sequential

\* A step that leaves its coroutine finished.
LEMMA EndsStanding ==
    ASSUME NEW d \in Drivers, drv'[d].pc = "done" PROVE Standing(d)'
  BY DEF Standing, Working

\* What holds of the attempt of a coroutine that works on it.
LEMMA WorkingFacts ==
    ASSUME TypeOK, Sequential, NEW d \in Drivers,
           drv[d].pc \in Working \cup {"resumed", "failing"}
    PROVE  /\ Live(d) /\ records # << >> /\ records \in Seq(Attempt)
           /\ drv[d] \in Driver /\ drv[d].seq = Len(records)
           /\ Len(records) \in DOMAIN records
           /\ Last = records[drv[d].seq] /\ Last \in Attempt
           /\ wfStatus \notin Terminal /\ wfStatus # "none"
           /\ boot = "serving" /\ gateWait = NoDriver
           /\ \A e \in Drivers : Live(e) => e = d
           /\ drv[d].pc \in Working =>
                  Last.status = "running" /\ ~Last.pause /\ ~drv[d].woken
           /\ drv[d].pc \notin Working => Closed
<1>1. Live(d) /\ drv[d].pc # "parked"
  BY DEF Live, Working
<1>2. /\ boot = "serving" /\ wfStatus # "none" /\ Standing(d) /\ gateWait = NoDriver
      /\ \A e \in Drivers : Live(e) => e = d
  BY <1>1, LoneFacts
<1>3. OnNewest(d) /\ wfStatus \notin Terminal
  BY <1>2 DEF Standing
<1>4. /\ drv[d].pc \in Working => Last.status = "running" /\ ~drv[d].woken
      /\ drv[d].pc \notin Working => Closed
  BY <1>2 DEF Standing
<1>5. records # << >> /\ drv[d].seq = Len(records) /\ Last = records[drv[d].seq]
  BY <1>3 DEF OnNewest, Last
<1>6. drv[d] \in Driver
  BY DEF TypeOK, CoroutinesOK
<1>7. /\ records \in Seq(Attempt) /\ Len(records) \in DOMAIN records /\ Last \in Attempt
  BY <1>5, LastAttempt
<1>8. Last.status = "running" => ~Last.pause
  BY <1>7 DEF Sequential, Unpaused, Last
<1> QED
  BY <1>1, <1>2, <1>3, <1>4, <1>5, <1>6, <1>7, <1>8

\* Moving on within an attempt that keeps running.
LEMMA StaysWorking ==
    ASSUME TypeOK, Sequential, NEW d \in Drivers, NEW pc \in Working,
           drv[d].pc \in Working, drv' = [drv EXCEPT ![d] = [drv[d] EXCEPT !.pc = pc]],
           Amended(records'), Last'.status = "running",
           wfStatus' \in {wfStatus, "running"}, UNCHANGED <<gateWait, daemon>>
    PROVE  Sequential' /\ Progress
<1> DEFINE c == [drv[d] EXCEPT !.pc = pc]
<1>1. /\ Live(d) /\ drv[d] \in Driver /\ drv[d].seq = Len(records) /\ records # << >>
      /\ \A e \in Drivers : Live(e) => e = d
      /\ gateWait = NoDriver /\ boot = "serving"
      /\ wfStatus \notin Terminal /\ wfStatus # "none" /\ records \in Seq(Attempt)
  BY WorkingFacts
<1>2. c.pc = pc /\ c.seq = drv[d].seq /\ c.woken = drv[d].woken /\ ~drv[d].woken
  BY <1>1, WorkingFacts DEF Driver
<1>3. drv'[d] = c
  BY DEF TypeOK, CoroutinesOK
<1>4. records' # << >> /\ Len(records') = Len(records)
  BY <1>1 DEF Amended
<1>5. wfStatus' \notin Terminal /\ wfStatus' # "none"
  BY <1>1 DEF Terminal
<1>6. drv'[d].pc \in Working /\ drv'[d].seq = Len(records') /\ ~drv'[d].woken
  BY <1>1, <1>2, <1>3, <1>4
<1> HIDE DEF c
<1>7. Standing(d)'
  BY <1>4, <1>5, <1>6 DEF Standing, OnNewest, Working
<1>8. boot' = "serving" /\ gateWait' = NoDriver /\ Progress
  BY <1>1 DEF daemon, Progress
<1>9. drv' = [drv EXCEPT ![d] = c]
  BY DEF c
<1> QED
  BY <1>1, <1>5, <1>7, <1>8, <1>9, LoneStep

\* Closing the newest attempt and leaving it.
LEMMA Leaves ==
    ASSUME TypeOK, Sequential, NEW d \in Drivers, NEW status \in {"ok", "failed"},
           NEW outcome \in Outcomes, NEW c,
           drv[d].pc \in Working, drv' = [drv EXCEPT ![d] = c],
           Finish(drv[d].seq, status, outcome),
           c.pc \in {"open", "complete", "failing"}, c.seq = drv[d].seq,
           UNCHANGED <<wfStatus, gateWait, daemon>>
    PROVE  Sequential' /\ Progress
<1>1. /\ drv[d].seq = Len(records) /\ records # << >> /\ Last.status = "running"
      /\ \A e \in Drivers : Live(e) => e = d
      /\ gateWait = NoDriver /\ boot = "serving"
      /\ wfStatus \notin Terminal /\ wfStatus # "none" /\ records \in Seq(Attempt)
  BY WorkingFacts
<1>2. status \in Statuses /\ Last.status # "ok"
  BY <1>1 DEF Statuses
<1>3. records' = Rewrite(records, Len(records), status, FALSE, outcome)
  BY <1>1 DEF Finish
<1>4. Amended(records') /\ records'[Len(records')].status = status
  <2>1. records \in Seq(Attempt) /\ records # << >>
    BY <1>1
  <2> QED
    BY <1>2, <1>3, <2>1, FinishLast
<1>5. Closed'
  <2>1. ~IsOpen(records'[Len(records')])
    BY <1>4 DEF IsOpen
  <2>2. OneOpenAttempt
    BY DEF Sequential
  <2> QED
    BY <1>1, <1>4, <2>1, <2>2, AmendedCloses DEF Closed
<1>6. drv'[d] = c
  BY DEF TypeOK, CoroutinesOK
<1>7. Len(records') = Len(records) /\ records' # << >>
  BY <1>1, <1>4 DEF Amended
<1>8. Standing(d)'
  BY <1>1, <1>5, <1>6, <1>7 DEF Standing, OnNewest, Working
<1>9. boot' = "serving" /\ gateWait' = NoDriver /\ Progress /\ wfStatus' # "none"
  BY <1>1, <1>4 DEF daemon, Progress
<1> QED
  BY <1>1, <1>5, <1>8, <1>9, LoneStep

LEMMA FinishesSequential ==
    ASSUME TypeOK, Sequential, NEW d \in Drivers, drv[d].pc \in Working,
           NEW outcome \in Outcomes, NEW dest, Finishes(d, outcome, dest)
    PROVE  Sequential' /\ Progress
<1>1. drv[d] \in Driver
  BY WorkingFacts
<1>2. Toward(d, dest).pc \in {"open", "complete"} /\ Toward(d, dest).seq = drv[d].seq
  BY <1>1 DEF Toward, Driver
<1> QED
  BY <1>2, Leaves DEF Finishes, Proceed

LEMMA PauseSequential ==
    ASSUME TypeOK, Sequential, NEW d \in Drivers, drv[d].pc \in Working, Pause(d),
           UNCHANGED <<gateWait, daemon>>
    PROVE  Sequential' /\ Progress
<1> DEFINE c == [drv[d] EXCEPT !.pc = "done"]
<1>1. /\ drv[d].seq = Len(records) /\ records # << >> /\ Last.status = "running"
      /\ Last = records[drv[d].seq] /\ Last \in Attempt
      /\ \A e \in Drivers : Live(e) => e = d
      /\ gateWait = NoDriver /\ boot = "serving" /\ drv[d] \in Driver
      /\ wfStatus \notin Terminal /\ wfStatus # "none" /\ records \in Seq(Attempt)
  BY WorkingFacts
<1>2. /\ "waiting" \in Statuses /\ TRUE \in BOOLEAN /\ Last.outcome \in Outcomes
      /\ Last.status # "ok"
  BY <1>1 DEF Statuses, Attempt
<1>3. /\ records' = Rewrite(records, Len(records), "waiting", TRUE, Last.outcome)
      /\ wfStatus' = "waiting" /\ drv' = [drv EXCEPT ![d] = c]
  BY <1>1 DEF Pause, SetRun, EndRun, Await
<1>4. Amended(records')
  BY <1>1, <1>2, <1>3, WaitLast
<1>5. c.pc = "done"
  BY <1>1 DEF Driver
<1> HIDE DEF c
<1>6. drv'[d].pc = "done"
  BY <1>3, <1>5 DEF TypeOK, CoroutinesOK
<1>7. Standing(d)'
  BY <1>6, EndsStanding
<1>8. /\ boot' = "serving" /\ gateWait' = NoDriver /\ Progress
      /\ wfStatus' \notin Terminal /\ wfStatus' # "none"
  BY <1>1, <1>3, <1>4 DEF daemon, Progress, Terminal
<1> QED
  BY <1>1, <1>3, <1>7, <1>8, LoneStep

\* A coroutine that moves without writing a row.
LEMMA QuietStep ==
    ASSUME TypeOK, Sequential, NEW d \in Drivers, NEW c,
           \A e \in Drivers : Live(e) => e = d,
           drv' = [drv EXCEPT ![d] = c], boot' = "serving", records' = records,
           Standing(d)',
           wfStatus' # "none", wfStatus' \in Terminal => Closed,
           gateWait' # NoDriver => gateWait' = d /\ c.pc = "parked"
    PROVE  Sequential' /\ Progress
<1>1. records \in Seq(Attempt)
  BY DEF TypeOK, RowsOK
<1>2. Progress
  BY <1>1, UnchangedAmended DEF Progress
<1>3. wfStatus' \in Terminal => Closed'
  BY DEF Closed
<1> QED
  BY <1>2, <1>3, LoneStep

-----------------------------------------------------------------------------
(* The run loop is sequential.                                             *)

LEMMA OpenSequential ==
    ASSUME TypeOK, Sequential, NEW d \in Drivers, Open(d)
    PROVE  Sequential' /\ Progress
<1> DEFINE c == Taking(Len(records) + 1, FALSE)
           s == BoundedStep(records, drv[d].to)
<1>1. drv[d].pc = "open" /\ Live(d)
  BY DEF Open, At, Live
<1>2. /\ boot = "serving" /\ wfStatus # "none" /\ Standing(d) /\ gateWait = NoDriver
      /\ \A e \in Drivers : Live(e) => e = d
  BY <1>1, LoneFacts
<1>3. Closed /\ wfStatus \notin Terminal
  BY <1>1, <1>2 DEF Standing
<1>4. /\ drv[d].to \in Steps /\ records \in Seq(Attempt) /\ Len(records) \in Nat
      /\ Len(records) + 1 \in Nat /\ FALSE \in BOOLEAN
  BY <1>1 DEF TypeOK, RowsOK, CoroutinesOK, Placed
<1>5. s \in Steps
  BY <1>4, BoundedStepType
<1>6. Amended(records)
  BY <1>4, UnchangedAmended
<1>7. /\ records' = Append(records, NewAttempt(s, records))
      /\ drv' = [drv EXCEPT ![d] = c] /\ UNCHANGED <<wfStatus, gateWait, daemon>>
  BY DEF Open, Proceed
<1>8. /\ Progress /\ Len(records') = Len(records) + 1
      /\ records'[Len(records')].status = "running" /\ records' # << >>
  <2> HIDE DEF s
  <2> QED
    BY <1>3, <1>4, <1>5, <1>6, <1>7, Continues DEF Closed
<1>9. c.pc = "loop" /\ c.seq = Len(records) + 1 /\ ~c.woken
  BY <1>4, TakingType
<1> HIDE DEF c, s
<1>10. drv'[d].pc = "loop" /\ drv'[d].seq = Len(records') /\ ~drv'[d].woken
  BY <1>7, <1>8, <1>9 DEF TypeOK, CoroutinesOK
<1>11. wfStatus' \notin Terminal /\ wfStatus' # "none" /\ boot' = "serving"
       /\ gateWait' = NoDriver
  BY <1>2, <1>3, <1>7 DEF daemon
<1>12. Standing(d)'
  BY <1>8, <1>10, <1>11 DEF Standing, OnNewest, Working, Last
<1> QED
  BY <1>2, <1>7, <1>8, <1>11, <1>12, LoneStep

LEMMA LoopSequential ==
    ASSUME TypeOK, Sequential, NEW d \in Drivers, Loop(d)
    PROVE  Sequential' /\ Progress
<1>1. drv[d].pc \in Working /\ UNCHANGED <<gateWait, daemon>>
  BY DEF Loop, At, Working
<1>2. Last.status = "running" /\ records \in Seq(Attempt)
  BY <1>1, WorkingFacts
<1>3. CASE Pause(d)
  BY <1>1, <1>3, PauseSequential
<1>4. CASE /\ SetRun("running", records[drv[d].seq].step)
           /\ Proceed(d, [drv[d] EXCEPT !.pc = "enter"])
           /\ UNCHANGED records
  <2>1. Amended(records') /\ Last'.status = "running" /\ wfStatus' = "running"
    BY <1>2, <1>4, UnchangedAmended DEF Last, SetRun
  <2>2. "enter" \in Working /\ drv' = [drv EXCEPT ![d] = [drv[d] EXCEPT !.pc = "enter"]]
    BY <1>4 DEF Working, Proceed
  <2> QED
    BY <1>1, <2>1, <2>2, StaysWorking
<1> QED
  BY <1>3, <1>4 DEF Loop

\* The moves that wait, or that note something about an attempt still running.
LEMMA StaysSequential ==
    ASSUME TypeOK, Sequential, NEW d \in Drivers, NEW pc \in Working,
           drv[d].pc \in Working, Await(d, [drv[d] EXCEPT !.pc = pc]),
           UNCHANGED <<records, wfStatus, gateWait, daemon>>
    PROVE  Sequential' /\ Progress
<1>1. Last.status = "running" /\ records \in Seq(Attempt)
  BY WorkingFacts
<1>2. Amended(records') /\ Last'.status = "running"
  BY <1>1, UnchangedAmended DEF Last
<1> QED
  BY <1>2, StaysWorking DEF Await

LEMMA PromptSequential ==
    ASSUME TypeOK, Sequential, NEW d \in Drivers, PromptAcked(d)
    PROVE  Sequential' /\ Progress
<1> DEFINE n == Len(records)
           a == [records[n] EXCEPT !.prompted = TRUE]
<1>1. drv[d].pc \in Working /\ "idle" \in Working
  BY DEF PromptAcked, At, Working
<1>2. /\ Last.status = "running" /\ records \in Seq(Attempt) /\ drv[d].seq = n
      /\ n \in DOMAIN records /\ records[n] = Last /\ Last \in Attempt
  BY <1>1, WorkingFacts
<1>3. /\ a \in Attempt /\ a.status = "running" /\ a.step = records[n].step
      /\ a.evidence = records[n].evidence /\ a.pause = records[n].pause
  BY <1>2 DEF Attempt
<1>4. records' = [records EXCEPT ![n] = a]
  BY <1>2 DEF PromptAcked
<1> HIDE DEF a
<1>5. /\ records' \in Seq(Attempt) /\ Len(records') = n /\ records'[n] = a
      /\ \A i \in DOMAIN records : i # n => records'[i] = records[i]
  BY <1>2, <1>3, <1>4
<1>6. Amended(records') /\ Last'.status = "running"
  BY <1>2, <1>3, <1>5 DEF Amended, Last
<1> QED
  BY <1>1, <1>6, StaysWorking DEF PromptAcked, Await

LEMMA EffectBeginsSequential ==
    ASSUME TypeOK, Sequential, NEW d \in Drivers, EffectBegins(d)
    PROVE  Sequential' /\ Progress
<1>1. drv[d].pc = "work" /\ UNCHANGED <<records, wfStatus, drv, gateWait, daemon>>
  BY DEF EffectBegins, At, memory
<1>2. drv[d].pc \in Working
  BY <1>1 DEF Working
<1>3. Last.status = "running" /\ records \in Seq(Attempt) /\ drv[d] \in Driver
  BY <1>2, WorkingFacts
<1>4. drv[d] = [drv[d] EXCEPT !.pc = "work"]
  BY <1>1, <1>3 DEF Driver
<1>5. drv' = [drv EXCEPT ![d] = drv[d]]
  BY <1>1 DEF TypeOK, CoroutinesOK
<1>6. drv' = [drv EXCEPT ![d] = [drv[d] EXCEPT !.pc = "work"]]
  BY <1>4, <1>5
<1>7. Amended(records') /\ Last'.status = "running"
  BY <1>1, <1>3, UnchangedAmended DEF Last
<1> QED
  BY <1>1, <1>2, <1>6, <1>7, StaysWorking

\* The steps of _run_step.
LEMMA MovesSequential ==
    ASSUME TypeOK, Sequential, NEW d \in Drivers,
           \/ EnterAgent(d) \/ EnterWork(d) \/ EnterDelivery(d) \/ ReviewLands(d)
    PROVE  Sequential' /\ Progress
<1>1. {"session", "work", "verdict"} \subseteq Working
  BY DEF Working
<1>2. /\ drv[d].pc \in Working /\ UNCHANGED <<records, wfStatus, gateWait, daemon>>
      /\ \/ Await(d, [drv[d] EXCEPT !.pc = "session"])
         \/ Await(d, [drv[d] EXCEPT !.pc = "work"])
         \/ Await(d, [drv[d] EXCEPT !.pc = "verdict"])
  BY DEF EnterAgent, EnterWork, EnterDelivery, ReviewLands, At, Working, durable
<1> QED
  BY <1>1, <1>2, StaysSequential

LEMMA EndsSequential ==
    ASSUME TypeOK, Sequential, NEW d \in Drivers,
           \/ SessionReady(d) \/ TurnEnds(d) \/ CommandDone(d)
           \/ CaptureDone(d) \/ Decide(d) \/ EnterReview(d)
           \/ ConsumeVerdict(d)
    PROVE  Sequential' /\ Progress
<1>0. drv[d].pc \in Working /\ {"prompt", "work"} \subseteq Working
  BY DEF SessionReady, TurnEnds, CommandDone, CaptureDone, Decide, EnterReview,
         ConsumeVerdict, At, Working
<1>1. CASE \E pc \in {"prompt", "work"} : Await(d, [drv[d] EXCEPT !.pc = pc])
           /\ UNCHANGED <<durable, runs, gateWait, daemon>>
  BY <1>0, <1>1, StaysSequential DEF durable
<1>2. CASE \E outcome \in Outcomes : \E dest : Finishes(d, outcome, dest)
  BY <1>0, <1>2, FinishesSequential
<1>3. ASSUME Decide(d)
      PROVE  \E outcome \in Outcomes : \E dest : Finishes(d, outcome, dest)
  <2>1. Last \in Attempt /\ Last = records[drv[d].seq]
    BY <1>0, WorkingFacts
  <2>2. records[drv[d].seq].step \in Steps
    BY <2>1 DEF Attempt
  <2>3. PICK dest \in Dests[records[drv[d].seq].step] \ {PauseHere} :
            Finishes(d, dest, dest)
    BY <1>3 DEF Decide
  <2>4. dest \in Outcomes
    BY <2>2, <2>3, DestsAssumption DEF Outcomes
  <2> QED
    BY <2>3, <2>4
<1>4. CASE \/ TurnEnds(d) \/ CommandDone(d) \/ CaptureDone(d)
           \/ ConsumeVerdict(d)
  <2>1. \E outcome \in Outcomes : \E dest : Finishes(d, outcome, dest)
    BY <1>4, OutcomeTypes DEF TurnEnds, CommandDone, CaptureDone, ConsumeVerdict
  <2> QED BY <1>2, <2>1
<1>5. CASE SessionReady(d)
  BY <1>1, <1>2, <1>5, OutcomeTypes DEF SessionReady
<1>6. CASE EnterReview(d)
  BY <1>1, <1>2, <1>6, OutcomeTypes DEF EnterReview
<1> QED
  BY <1>2, <1>3, <1>4, <1>5, <1>6

LEMMA StepFailsSequential ==
    ASSUME TypeOK, Sequential, NEW d \in Drivers, StepFails(d)
    PROVE  Sequential' /\ Progress
<1> DEFINE c == [drv[d] EXCEPT !.pc = "failing"]
<1>1. drv[d].pc \in Working /\ NoStep \in Outcomes
  BY DEF StepFails, Working, Outcomes
<1>2. drv[d] \in Driver
  BY <1>1, WorkingFacts
<1>3. c.pc = "failing" /\ c.seq = drv[d].seq
  BY <1>2 DEF Driver
<1>4. /\ drv' = [drv EXCEPT ![d] = c] /\ Finish(drv[d].seq, "failed", NoStep)
      /\ UNCHANGED <<wfStatus, gateWait, daemon>>
  BY DEF StepFails, Proceed
<1> HIDE DEF c
<1> QED
  BY <1>1, <1>3, <1>4, Leaves

LEMMA StepPausesSequential ==
    ASSUME TypeOK, Sequential, NEW d \in Drivers, StepPauses(d)
    PROVE  Sequential' /\ Progress
<1>1. drv[d].pc \in Working
  BY DEF StepPauses, MayPause, Working
<1> QED
  BY <1>1, PauseSequential DEF StepPauses

-----------------------------------------------------------------------------
(* Decisions, gates and endings are sequential.                            *)

\* What an answered question or a settled delivery leaves behind.
Decided(seq) ==
    \/ Len(records) = seq + 1 /\ Last.status = "running" /\ wfStatus = "running"
    \/ Len(records) = seq /\ Closed /\ wfStatus = "complete"

\* _advance_in, whichever history the successor's evidence was looked up in.
LEMMA AdvanceDecides ==
    ASSUME TypeOK, Sequential, records # << >>, Last.status # "ok",
           NEW outcome \in Outcomes, NEW dest \in Steps \cup {Complete},
           NEW history, Amended(history), NEW n, n = Len(records),
           Advance(n, outcome, dest, history)
    PROVE  /\ Progress /\ Decided(n)' /\ records' # << >>
           /\ wfStatus' # "none" /\ (wfStatus' \in Terminal => Closed')
           /\ dest # Complete => /\ Len(records') = n + 1
                                 /\ Last'.status = "running" /\ wfStatus' = "running"
           /\ \A i \in DOMAIN records : records'[i].step = records[i].step
<1> DEFINE closed == Rewrite(records, n, "ok", FALSE, outcome)
           s == BoundedStep(history, dest)
<1>1. records \in Seq(Attempt) /\ n \in Nat /\ n \in DOMAIN records
  BY LastAttempt
<1>2. /\ Amended(closed) /\ closed[Len(closed)].status = "ok"
  BY <1>1, FinishLast DEF Statuses
<1>3. \A i \in DOMAIN closed : ~IsOpen(closed[i])
  <2>1. ~IsOpen(closed[Len(closed)]) /\ OneOpenAttempt
    BY <1>2 DEF IsOpen, Sequential
  <2> HIDE DEF closed
  <2> QED
    BY <1>1, <1>2, <2>1, AmendedCloses
<1> HIDE DEF closed
<1>4. \A i \in DOMAIN closed : history[i].status = "ok" => closed[i].status = "ok"
  BY <1>1, <1>2 DEF Amended
<1>5. CASE dest = Complete
  <2>1. records' = closed /\ wfStatus' = "complete"
    BY <1>5 DEF Advance, SetRun, closed
  <2>2. Len(records') = n /\ Closed' /\ records' # << >>
    BY <1>1, <1>2, <1>3, <2>1 DEF Amended, Closed
  <2> QED
    BY <1>2, <1>5, <2>1, <2>2 DEF Progress, Decided, Amended
<1>6. CASE dest # Complete
  <2>1. dest \in Steps
    BY <1>6
  <2>2. s \in Steps
    BY <2>1, BoundedStepType
  <2>3. records' = Append(closed, NewAttempt(s, history)) /\ wfStatus' = "running"
    BY <1>6 DEF Advance, SetRun, closed
  <2> HIDE DEF s
  <2>4. /\ Progress /\ Len(records') = n + 1
        /\ records'[Len(records')].status = "running" /\ records' # << >>
        /\ \A i \in DOMAIN records : records'[i].step = records[i].step
    BY <1>1, <1>2, <1>3, <1>4, <2>2, <2>3, Continues
  <2> QED
    BY <1>1, <1>6, <2>3, <2>4 DEF Decided, Last, Terminal
<1> QED
  BY <1>5, <1>6

LEMMA SettleDecides ==
    ASSUME TypeOK, Sequential, records # << >>, Kind[Last.step] = "delivery",
           NEW n, n = Len(records), SettleDelivery(n)
    PROVE  /\ Progress /\ Decided(n)' /\ records' # << >>
           /\ wfStatus' # "none" /\ (wfStatus' \in Terminal => Closed')
<1>1. /\ records \in Seq(Attempt) /\ Last.step \in Steps
  BY LastAttempt
<1>2. PICK dest \in Dests[Last.step] :
        Advance(n, "result", dest, records)
  BY DEF SettleDelivery, Last
<1>3. dest \in Steps \cup {Complete}
  BY <1>1, <1>2, DestsAssumption
<1>4. Amended(records) /\ "result" \in Outcomes /\ Last.status # "ok"
  BY <1>1, UnchangedAmended DEF Outcomes, SettleDelivery, Last
<1> QED
  BY <1>2, <1>3, <1>4, AdvanceDecides

\* The coroutine whose decision was committed waits to take it up.
LEMMA SettledSequential ==
    ASSUME TypeOK, Sequential, NEW d \in Drivers, NEW c,
           \A e \in Drivers : Live(e) => e = d,
           NEW n, n = Len(records),
           drv' = [drv EXCEPT ![d] = c], c.pc = "decided", c.seq = n,
           boot' = "serving", gateWait' = NoDriver,
           records # << >>, Kind[Last.step] = "delivery", SettleDelivery(n)
    PROVE  Sequential' /\ Progress
<1>1. /\ Progress /\ Decided(n)' /\ records' # << >>
      /\ wfStatus' # "none" /\ (wfStatus' \in Terminal => Closed')
  BY SettleDecides
<1>2. drv'[d].pc = "decided" /\ drv'[d].seq = n
  BY DEF TypeOK, CoroutinesOK
<1>2a. Settled(d)'
  BY <1>1, <1>2 DEF Decided, Settled, OnNewest
<1>3. Standing(d)'
  BY <1>2, <1>2a DEF Standing, Working
<1> QED
  BY <1>1, <1>3, LoneStep

LEMMA DeliveryDoneSequential ==
    ASSUME TypeOK, Sequential, NEW d \in Drivers, DeliveryDone(d)
    PROVE  Sequential' /\ Progress
<1> DEFINE c == [drv[d] EXCEPT !.pc = "decided"]
<1>1. drv[d].pc \in Working
  BY DEF DeliveryDone, At, Working
<1>2. /\ drv[d].seq = Len(records) /\ records # << >> /\ Last = records[drv[d].seq]
      /\ \A e \in Drivers : Live(e) => e = d
      /\ gateWait = NoDriver /\ boot = "serving" /\ drv[d] \in Driver
  BY <1>1, WorkingFacts
<1>3. c.pc = "decided" /\ c.seq = Len(records)
  BY <1>2 DEF Driver
<1>4. /\ drv' = [drv EXCEPT ![d] = c] /\ SettleDelivery(Len(records))
      /\ boot' = "serving" /\ gateWait' = NoDriver /\ Kind[Last.step] = "delivery"
  BY <1>2 DEF DeliveryDone, Await, KindOf, daemon
<1> HIDE DEF c
<1> QED
  BY <1>2, <1>3, <1>4, SettledSequential

\* Taking up what the decision opened, or stopping where it ended the run.
LEMMA AfterDecisionSequential ==
    ASSUME TypeOK, Sequential, NEW d \in Drivers, Live(d), Settled(d),
           drv[d].pc \in {"parked", "decided"},
           AttemptAfterDecision(d), UNCHANGED <<records, wfStatus, daemon>>,
           gateWait' = NoDriver
    PROVE  Sequential' /\ Progress
<1>1. /\ boot = "serving" /\ wfStatus # "none"
      /\ \A e \in Drivers : Live(e) => e = d
  BY LoneFacts
<1>2. drv[d] \in Driver /\ drv[d].seq \in Nat /\ records \in Seq(Attempt)
  BY DEF TypeOK, RowsOK, CoroutinesOK, Driver
<1>3. wfStatus \in Terminal => Closed
  BY DEF Sequential
<1>4. CASE Len(records) > drv[d].seq
  <2> DEFINE c == Taking(Len(records), FALSE)
  <2>1. drv' = [drv EXCEPT ![d] = c]
    BY <1>4 DEF AttemptAfterDecision, Proceed
  <2>2. Len(records) \in Nat /\ FALSE \in BOOLEAN
    BY <1>2
  <2>3. c.pc = "loop" /\ c.seq = Len(records) /\ ~c.woken
    BY <2>2, TakingType
  <2>4. /\ Len(records) = drv[d].seq + 1 /\ Last.status = "running"
        /\ wfStatus = "running"
    BY <1>2, <1>4 DEF Settled, OnNewest
  <2> HIDE DEF c
  <2>5. drv'[d].pc = "loop" /\ drv'[d].seq = Len(records) /\ ~drv'[d].woken
    BY <2>1, <2>3 DEF TypeOK, CoroutinesOK
  <2>6. records # << >>
    BY <1>2, <2>4
  <2>7. Standing(d)'
    BY <2>4, <2>5, <2>6 DEF Standing, Working, OnNewest, Terminal, Last
  <2>8. boot' = "serving" /\ wfStatus' # "none" /\ (wfStatus' \in Terminal => Closed)
    BY <1>1, <1>3 DEF daemon
  <2> QED
    BY <1>1, <2>1, <2>7, <2>8, QuietStep
<1>5. CASE ~(Len(records) > drv[d].seq)
  <2> DEFINE c == [drv[d] EXCEPT !.pc = "done"]
  <2>1. drv' = [drv EXCEPT ![d] = c]
    BY <1>5 DEF AttemptAfterDecision, EndRun, Await
  <2>2. c.pc = "done"
    BY <1>2 DEF Driver
  <2> HIDE DEF c
  <2>3. drv'[d].pc = "done"
    BY <2>1, <2>2 DEF TypeOK, CoroutinesOK
  <2>4. Standing(d)'
    BY <2>3, EndsStanding
  <2>5. boot' = "serving" /\ wfStatus' # "none" /\ (wfStatus' \in Terminal => Closed)
    BY <1>1, <1>3 DEF daemon
  <2> QED
    BY <1>1, <2>1, <2>4, <2>5, QuietStep
<1> QED
  BY <1>4, <1>5

LEMMA TakeSettledSequential ==
    ASSUME TypeOK, Sequential, NEW d \in Drivers, TakeSettled(d)
    PROVE  Sequential' /\ Progress
<1>1. drv[d].pc = "decided" /\ Live(d)
  BY DEF TakeSettled, At, Live
<1>2. Standing(d) /\ gateWait = NoDriver
  BY <1>1, LoneFacts
<1>3. Settled(d)
  BY <1>1, <1>2 DEF Standing
<1> QED
  BY <1>1, <1>2, <1>3, AfterDecisionSequential DEF TakeSettled, durable

LEMMA ParkGateSequential ==
    ASSUME TypeOK, Sequential, NEW d \in Drivers, ParkGate(d)
    PROVE  Sequential' /\ Progress
<1> DEFINE c == [drv[d] EXCEPT !.pc = "parked"]
           n == Len(records)
<1>1. drv[d].pc \in Working
  BY DEF ParkGate, At, Working
<1>2. /\ drv[d].seq = n /\ records # << >> /\ Last = records[drv[d].seq]
      /\ Last.status = "running" /\ ~Last.pause /\ ~drv[d].woken /\ Last \in Attempt
      /\ \A e \in Drivers : Live(e) => e = d
      /\ boot = "serving" /\ drv[d] \in Driver /\ records \in Seq(Attempt)
  BY <1>1, WorkingFacts
<1>3. c.pc = "parked" /\ c.seq = n /\ ~c.woken
  BY <1>2 DEF Driver
<1>4. /\ drv' = [drv EXCEPT ![d] = c] /\ boot' = "serving" /\ gateWait' = d
      /\ records' = Rewrite(records, n, "waiting", Last.pause, "result")
      /\ wfStatus' = "waiting"
  BY <1>2 DEF ParkGate, Await, daemon, SetRun
<1>5. /\ "waiting" \in Statuses /\ Last.pause \in BOOLEAN /\ "result" \in Outcomes
  BY <1>2 DEF Statuses, Outcomes, Attempt
<1>6. /\ Amended(records') /\ records'[Len(records')].status = "waiting"
      /\ ~records'[Len(records')].pause
  BY <1>2, <1>4, <1>5, WaitLast
<1> HIDE DEF c
<1>7. drv'[d].pc = "parked" /\ drv'[d].seq = n /\ ~drv'[d].woken
  BY <1>3, <1>4 DEF TypeOK, CoroutinesOK
<1>8. records' # << >> /\ Len(records') = n
  BY <1>2, <1>6 DEF Amended
<1>9. Asking(d)'
  BY <1>4, <1>6, <1>7, <1>8 DEF Asking, OnNewest, Last
<1>10. Standing(d)'
  BY <1>4, <1>7, <1>9 DEF Standing, Working
<1>11. Progress /\ wfStatus' \notin Terminal /\ wfStatus' # "none"
  BY <1>4, <1>6 DEF Progress, Terminal
<1> QED
  BY <1>2, <1>3, <1>4, <1>10, <1>11, LoneStep

LEMMA WokenSequential ==
    ASSUME TypeOK, Sequential, NEW d \in Drivers, Woken(d)
    PROVE  Sequential' /\ Progress
<1>1. drv[d].pc = "parked" /\ Live(d) /\ drv[d].woken /\ gateWait' = NoDriver
  BY DEF Woken, At, Live
<1>2. /\ boot = "serving" /\ Standing(d) /\ \A e \in Drivers : Live(e) => e = d
  BY <1>1, LoneFacts
<1>3. CASE KindOf(d) = "choice"
  <2>1. Settled(d)
    BY <1>1, <1>2, <1>3 DEF Standing
  <2>2. AttemptAfterDecision(d) /\ UNCHANGED durable /\ UNCHANGED daemon
    BY <1>3 DEF Woken
  <2> QED
    BY <1>1, <2>1, <2>2, AfterDecisionSequential DEF durable
<1>4. CASE KindOf(d) # "choice"
  <2> DEFINE c == [drv[d] EXCEPT !.pc = "resumed"]
             n == Len(records)
  <2>1. Asking(d)
    BY <1>1, <1>2, <1>4 DEF Standing
  <2>2. /\ records # << >> /\ drv[d].seq = n /\ Last.status = "waiting"
        /\ wfStatus = "waiting"
    BY <2>1 DEF Asking, OnNewest
  <2>3. records \in Seq(Attempt) /\ drv[d] \in Driver /\ "result" \in Outcomes
    BY DEF TypeOK, RowsOK, CoroutinesOK, Outcomes
  <2>4. /\ records' = Rewrite(records, n, "ok", FALSE, "result")
        /\ drv' = [drv EXCEPT ![d] = c] /\ UNCHANGED <<wfStatus, daemon>>
    BY <1>4, <2>2 DEF Woken, Finish, Proceed
  <2>5. c.pc = "resumed" /\ c.seq = n
    BY <2>2, <2>3 DEF Driver
  <2> HIDE DEF c
  <2>6. Amended(records') /\ records'[Len(records')].status = "ok"
    BY <2>2, <2>3, <2>4, FinishLast DEF Statuses
  <2>7. Closed'
    <3>1. ~IsOpen(records'[Len(records')]) /\ OneOpenAttempt
      BY <2>6 DEF IsOpen, Sequential
    <3> QED
      BY <2>3, <2>6, <3>1, AmendedCloses DEF Closed
  <2>8. drv'[d].pc = "resumed" /\ drv'[d].seq = n
    BY <2>4, <2>5 DEF TypeOK, CoroutinesOK
  <2>9. Len(records') = n /\ records' # << >>
    BY <2>2, <2>3, <2>6 DEF Amended
  <2>10. Standing(d)'
    BY <2>2, <2>4, <2>7, <2>8, <2>9 DEF Standing, OnNewest, Working, Terminal
  <2>11. Progress /\ boot' = "serving" /\ wfStatus' # "none"
    BY <1>2, <2>2, <2>4, <2>6 DEF Progress, daemon
  <2> QED
    BY <1>1, <1>2, <2>4, <2>7, <2>10, <2>11, LoneStep
<1> QED
  BY <1>3, <1>4

\* Moving on from a closed history.
LEMMA MovesOn ==
    ASSUME TypeOK, Sequential, NEW d \in Drivers, NEW dest,
           \A e \in Drivers : Live(e) => e = d,
           drv' = [drv EXCEPT ![d] = Toward(d, dest)],
           Closed, wfStatus' \notin Terminal, wfStatus' # "none",
           records' = records, boot' = "serving", gateWait' = NoDriver
    PROVE  Sequential' /\ Progress
<1>1. drv \in [Drivers -> Driver]
  BY DEF TypeOK, CoroutinesOK
<1>2. drv'[d].pc \in {"open", "complete"}
  BY <1>1, TowardType
<1>3. Closed'
  BY DEF Closed
<1>4. Standing(d)'
  BY <1>2, <1>3 DEF Standing, Working
<1> QED
  BY <1>4, QuietStep

\* A coroutine that ends without touching a row.
LEMMA EndsRun ==
    ASSUME TypeOK, Sequential, NEW d \in Drivers, EndRun(d),
           \A e \in Drivers : Live(e) => e = d,
           wfStatus' # "none", wfStatus' \in Terminal => Closed,
           records' = records, boot' = "serving", gateWait' = NoDriver
    PROVE  Sequential' /\ Progress
<1>1. drv \in [Drivers -> Driver]
  BY DEF TypeOK, CoroutinesOK
<1>2. drv' = [drv EXCEPT ![d] = [drv[d] EXCEPT !.pc = "done"]]
  BY DEF EndRun, Await
<1>3. drv'[d].pc = "done"
  BY <1>1, <1>2 DEF Driver
<1>4. Standing(d)'
  BY <1>3, EndsStanding
<1> QED
  BY <1>2, <1>4, QuietStep

LEMMA GateResumedSequential ==
    ASSUME TypeOK, Sequential, NEW d \in Drivers, GateResumed(d)
    PROVE  Sequential' /\ Progress
<1>1. drv[d].pc = "resumed"
  BY DEF GateResumed, At
<1>2. /\ Closed /\ boot = "serving" /\ gateWait = NoDriver
      /\ \A e \in Drivers : Live(e) => e = d
  BY <1>1, WorkingFacts DEF Working
<1>3. wfStatus' = "running"
  BY DEF GateResumed, SetRun
<1> QED
  BY <1>2, <1>3, MovesOn DEF GateResumed, Proceed, Terminal, daemon

LEMMA EndingSequential ==
    ASSUME TypeOK, Sequential, NEW d \in Drivers, RunFails(d) \/ RunCompletes(d)
    PROVE  Sequential' /\ Progress
<1>1. drv[d].pc \in {"failing", "complete"} /\ Live(d)
  BY DEF RunFails, RunCompletes, At, Live
<1>2. /\ boot = "serving" /\ gateWait = NoDriver /\ Standing(d)
      /\ \A e \in Drivers : Live(e) => e = d
  BY <1>1, LoneFacts
<1>3. Closed
  BY <1>1, <1>2 DEF Standing
<1>4. /\ EndRun(d) /\ records' = records /\ boot' = "serving" /\ gateWait' = NoDriver
      /\ wfStatus' # "none"
  BY <1>2 DEF RunFails, RunCompletes, SetRun, daemon
<1> QED
  BY <1>2, <1>3, <1>4, EndsRun

\* Forgetting a finished coroutine, whatever another one is doing.
LEMMA RunDoneSequential ==
    ASSUME TypeOK, Sequential, NEW d \in Drivers, RunDone(d)
    PROVE  Sequential' /\ Progress
<1>1. /\ drv[d].pc = "done" /\ drv' = [drv EXCEPT ![d] = Off]
      /\ UNCHANGED <<records, wfStatus, gateWait, daemon>>
  BY DEF RunDone, At, Await, durable
<1>2. drv \in [Drivers -> Driver] /\ records \in Seq(Attempt)
  BY DEF TypeOK, RowsOK, CoroutinesOK
<1>3. drv'[d].pc = "off" /\ \A e \in Drivers : e # d => drv'[e] = drv[e]
  BY <1>1, <1>2 DEF Off
<1>4. \A e \in Drivers : Live(e)' => Live(e) /\ e # d
  BY <1>3 DEF Live
<1>5. \A e \in Drivers : Standing(e)'
  <2> TAKE e \in Drivers
  <2>1. CASE e = d
    BY <1>3, <2>1 DEF Standing, Working
  <2>2. CASE e # d
    <3>1. drv'[e] = drv[e] /\ Standing(e)
      BY <1>3, <2>2 DEF Sequential
    <3> QED
      BY <1>1, <3>1
      DEF Standing, Asking, Settled, OnNewest, Closed, Last, KindOf
  <2> QED
    BY <2>1, <2>2
<1>6. gateWait' # NoDriver => drv'[gateWait'].pc = "parked"
  <2>1. gateWait # NoDriver => gateWait \in Drivers /\ drv[gateWait].pc = "parked"
    BY DEF Sequential, TypeOK, CoroutinesOK
  <2> QED
    BY <1>1, <1>3, <2>1
<1>7. Progress
  BY <1>1, <1>2, UnchangedAmended DEF Progress
<1>8. (OneOpenAttempt /\ Unpaused)' /\ (Closed => Closed')
  BY <1>1 DEF Sequential, OneOpenAttempt, Unpaused, Closed
<1>9. Stopped => Stopped'
  BY <1>4 DEF Stopped
<1> QED
  BY <1>1, <1>4, <1>5, <1>6, <1>7, <1>8, <1>9 DEF Sequential, daemon

-----------------------------------------------------------------------------
(* Recovery, operator requests and the daemon's stops are sequential.      *)

LEMMA RecoverFacts ==
    ASSUME TypeOK, Sequential, NEW d \in Drivers, drv[d].pc = "recover"
    PROVE  /\ \A e \in Drivers : Live(e) => e = d
           /\ boot = "serving" /\ gateWait = NoDriver /\ wfStatus \in {"running", "waiting"}
<1>1. Live(d)
  BY DEF Live
<1> QED
  BY <1>1, LoneFacts DEF Standing

LEMMA RecoverEmptySequential ==
    ASSUME TypeOK, Sequential, NEW d \in Drivers, RecoverEmpty(d)
    PROVE  Sequential' /\ Progress
<1>1. /\ drv[d].pc = "recover" /\ records = << >> /\ Closed
      /\ UNCHANGED <<records, wfStatus, gateWait, daemon>>
  BY DEF RecoverEmpty, At, Closed, durable
<1>2. drv' = [drv EXCEPT ![d] = Toward(d, Order[1])]
  BY DEF RecoverEmpty, Proceed
<1> QED
  BY <1>1, <1>2, RecoverFacts, MovesOn DEF Terminal, daemon

LEMMA RecoverWaitingSequential ==
    ASSUME TypeOK, Sequential, NEW d \in Drivers, RecoverWaiting(d)
    PROVE  Sequential' /\ Progress
<1>1. /\ drv[d].pc = "recover" /\ records # << >> /\ Last.status = "waiting"
      /\ records' = records /\ UNCHANGED daemon
  BY DEF RecoverWaiting, At
<1>2. /\ \A e \in Drivers : Live(e) => e = d
      /\ boot = "serving" /\ gateWait = NoDriver /\ wfStatus \in {"running", "waiting"}
  BY <1>1, RecoverFacts
<1>3. CASE Last.pause
  <2>1. EndRun(d) /\ UNCHANGED <<wfStatus, gateWait>>
    BY <1>3 DEF RecoverWaiting
  <2> QED
    BY <1>1, <1>2, <2>1, EndsRun DEF Terminal, daemon
<1>4. CASE ~Last.pause
  <2> DEFINE c == [Off EXCEPT !.pc = "parked", !.seq = Len(records)]
  <2>1. drv' = [drv EXCEPT ![d] = c] /\ gateWait' = d /\ wfStatus' = "waiting"
    BY <1>4 DEF RecoverWaiting, Await, SetRun
  <2>2. c.pc = "parked" /\ c.seq = Len(records) /\ ~c.woken
    BY DEF Off
  <2> HIDE DEF c
  <2>3. drv'[d].pc = "parked" /\ drv'[d].seq = Len(records) /\ ~drv'[d].woken
    BY <2>1, <2>2 DEF TypeOK, CoroutinesOK
  <2>4. Asking(d)'
    BY <1>1, <1>4, <2>1, <2>3 DEF Asking, OnNewest, Last
  <2>5. Standing(d)'
    BY <2>1, <2>3, <2>4 DEF Standing, Working
  <2>6. wfStatus' \notin Terminal /\ wfStatus' # "none" /\ boot' = "serving"
    BY <1>1, <1>2, <2>1 DEF Terminal, daemon
  <2> QED
    BY <1>1, <1>2, <2>1, <2>2, <2>5, <2>6, QuietStep
<1> QED
  BY <1>3, <1>4

\* A coroutine put on a running newest attempt.
LEMMA TakesLast ==
    ASSUME TypeOK, Sequential, NEW d \in Drivers, NEW nudge \in BOOLEAN,
           \A e \in Drivers : Live(e) => e = d, NEW n, n = Len(records'),
           drv' = [drv EXCEPT ![d] = Taking(n, nudge)],
           Progress, records' # << >>, records' \in Seq(Attempt),
           Last'.status = "running", wfStatus' \in {"running", "waiting"},
           boot' = "serving", gateWait' = NoDriver
    PROVE  Sequential' /\ Progress
<1> DEFINE c == Taking(n, nudge)
<1>1. n \in Nat
  OBVIOUS
<1>2. c.pc = "loop" /\ c.seq = n /\ ~c.woken
  BY <1>1, TakingType
<1>3. drv' = [drv EXCEPT ![d] = c]
  OBVIOUS
<1> HIDE DEF c
<1>4. drv'[d].pc = "loop" /\ drv'[d].seq = n /\ ~drv'[d].woken
  BY <1>2, <1>3 DEF TypeOK, CoroutinesOK
<1>5. wfStatus' \notin Terminal /\ wfStatus' # "none"
  BY DEF Terminal
<1>6. Standing(d)'
  BY <1>4, <1>5 DEF Standing, OnNewest, Working
<1> QED
  BY <1>3, <1>5, <1>6, LoneStep

LEMMA RecoverRunningSequential ==
    ASSUME TypeOK, Sequential, NEW d \in Drivers, RecoverRunning(d)
    PROVE  Sequential' /\ Progress
<1> DEFINE nudge == Kind[Last.step] = "agent" /\ Last.prompted
           n == Len(records)
<1>1. /\ drv[d].pc = "recover" /\ records # << >> /\ Last.status = "running"
      /\ UNCHANGED <<records, wfStatus, gateWait, daemon>>
  BY DEF RecoverRunning, At, durable
<1>2. /\ \A e \in Drivers : Live(e) => e = d
      /\ boot = "serving" /\ gateWait = NoDriver /\ wfStatus \in {"running", "waiting"}
  BY <1>1, RecoverFacts
<1>3. records \in Seq(Attempt) /\ Last.prompted \in BOOLEAN
  BY <1>1, LastAttempt
<1>4. nudge \in BOOLEAN
  OBVIOUS
<1>5. drv' = [drv EXCEPT ![d] = Taking(n, nudge)] /\ n = Len(records')
  BY <1>1 DEF RecoverRunning, Proceed
<1>6. Progress
  BY <1>1, <1>3, UnchangedAmended DEF Progress
<1>7. Last'.status = "running" /\ boot' = "serving" /\ gateWait' = NoDriver
      /\ wfStatus' \in {"running", "waiting"} /\ records' # << >>
      /\ records' \in Seq(Attempt)
  BY <1>1, <1>2, <1>3 DEF Last, daemon
<1> HIDE DEF nudge, n
<1> QED
  BY <1>2, <1>4, <1>5, <1>6, <1>7, TakesLast

LEMMA RecoverDeliverySequential ==
    ASSUME TypeOK, Sequential, NEW d \in Drivers, RecoverDelivery(d)
    PROVE  Sequential' /\ Progress
<1> DEFINE n == Len(records)
<1>1. /\ drv[d].pc = "recover" /\ records # << >> /\ Last.status = "running"
      /\ Kind[Last.step] = "delivery" /\ UNCHANGED <<gateWait, daemon>>
  BY DEF RecoverDelivery, At
<1>2. /\ \A e \in Drivers : Live(e) => e = d
      /\ boot = "serving" /\ gateWait = NoDriver /\ wfStatus \in {"running", "waiting"}
  BY <1>1, RecoverFacts
<1>3. /\ records \in Seq(Attempt) /\ Last.outcome \in Outcomes
      /\ drv[d] \in Driver
  BY <1>1, LastAttempt DEF TypeOK, CoroutinesOK
<1>4. CASE /\ SettleDelivery(n)
           /\ Proceed(d, [drv[d] EXCEPT !.pc = "decided", !.seq = n])
  <2> DEFINE c == [drv[d] EXCEPT !.pc = "decided", !.seq = n]
  <2>1. drv' = [drv EXCEPT ![d] = c] /\ boot' = "serving" /\ gateWait' = NoDriver
    BY <1>1, <1>2, <1>4 DEF Proceed, daemon
  <2>2. c.pc = "decided" /\ c.seq = n
    BY <1>3 DEF Driver
  <2> HIDE DEF c
  <2> QED
    BY <1>1, <1>2, <1>4, <2>1, <2>2, SettledSequential
<1>5. CASE /\ records' = Rewrite(records, n, "waiting", TRUE, Last.outcome)
           /\ SetRun("waiting", Last.step)
           /\ EndRun(d)
  <2> DEFINE c == [drv[d] EXCEPT !.pc = "done"]
  <2>1. Amended(records')
    <3>1. TRUE \in BOOLEAN /\ Last.status # "ok"
      BY <1>1
    <3> QED
      BY <1>1, <1>3, <1>5, <3>1, WaitLast
  <2>2. drv' = [drv EXCEPT ![d] = c] /\ wfStatus' = "waiting"
    BY <1>5 DEF EndRun, Await, SetRun
  <2>3. c.pc = "done"
    BY <1>3 DEF Driver
  <2> HIDE DEF c
  <2>4. drv'[d].pc = "done"
    BY <2>2, <2>3 DEF TypeOK, CoroutinesOK
  <2>5. Standing(d)'
    BY <2>4, EndsStanding
  <2>6. /\ Progress /\ wfStatus' \notin Terminal /\ wfStatus' # "none"
        /\ boot' = "serving" /\ gateWait' = NoDriver
    BY <1>1, <1>2, <2>1, <2>2 DEF Progress, Terminal, daemon
  <2> QED
    BY <1>2, <2>2, <2>5, <2>6, LoneStep
<1> QED
  BY <1>4, <1>5 DEF RecoverDelivery

LEMMA RecoverFinishedSequential ==
    ASSUME TypeOK, Sequential, NEW d \in Drivers, RecoverFinished(d)
    PROVE  Sequential' /\ Progress
<1>1. /\ drv[d].pc = "recover" /\ records # << >> /\ Last.status \in {"ok", "failed"}
      /\ UNCHANGED <<records, gateWait, daemon>>
  BY DEF RecoverFinished, At
<1>2. /\ \A e \in Drivers : Live(e) => e = d
      /\ boot = "serving" /\ gateWait = NoDriver /\ wfStatus \in {"running", "waiting"}
  BY <1>1, RecoverFacts
<1>3. Closed
  BY <1>1 DEF Sequential, OneOpenAttempt, Closed, IsOpen, Last
<1>4. \/ EndRun(d) /\ (UNCHANGED wfStatus \/ wfStatus' = "failed")
      \/ \E dest : Proceed(d, Toward(d, dest)) /\ UNCHANGED wfStatus
  BY DEF RecoverFinished, SetRun
<1>5. boot' = "serving" /\ gateWait' = NoDriver
  BY <1>1, <1>2 DEF daemon
<1>6. CASE EndRun(d) /\ (UNCHANGED wfStatus \/ wfStatus' = "failed")
  BY <1>1, <1>2, <1>3, <1>5, <1>6, EndsRun
<1>7. CASE \E dest : Proceed(d, Toward(d, dest)) /\ UNCHANGED wfStatus
  <2>1. PICK dest : drv' = [drv EXCEPT ![d] = Toward(d, dest)] /\ wfStatus' = wfStatus
    BY <1>7 DEF Proceed
  <2> QED
    BY <1>1, <1>2, <1>3, <1>5, <2>1, MovesOn DEF Terminal
<1> QED
  BY <1>4, <1>6, <1>7

\* Nothing runs while the newest attempt is paused.
LEMMA PausedStopped ==
    ASSUME TypeOK, Sequential, ~ServeDuringRecovery, OperatorMayAct, PausedLast
    PROVE  Stopped /\ gateWait = NoDriver /\ boot = "serving"
<1>1. boot = "serving" /\ \A d \in Drivers : drv[d].pc # "recover"
  BY DEF OperatorMayAct
<1>2. /\ records # << >> /\ records \in Seq(Attempt) /\ Last.status = "waiting"
      /\ Last.pause /\ ~Closed
  BY LastAttempt DEF PausedLast, Closed, IsOpen, Last
<1>3. ASSUME NEW d \in Drivers, Live(d) PROVE FALSE
  <2>1. Standing(d)
    BY DEF Sequential
  <2>2. ~Asking(d) /\ ~Settled(d)
    BY <1>2 DEF Asking, Settled
  <2>3. drv[d].pc \in Pcs
    BY DEF TypeOK, CoroutinesOK, Driver
  <2> QED
    BY <1>1, <1>2, <1>3, <2>1, <2>2, <2>3 DEF Standing, Live, Working, Pcs
<1>4. gateWait # NoDriver => Live(gateWait) /\ gateWait \in Drivers
  BY DEF Sequential, Live, TypeOK, CoroutinesOK
<1> QED
  BY <1>1, <1>3, <1>4 DEF Stopped

\* A coroutine kicked onto the newest, running attempt when none was live.
LEMMA KickSequential ==
    ASSUME TypeOK, Sequential, Stopped, NEW n, n = Len(records'), Kick(Taking(n, FALSE)),
           Progress, records' # << >>, records' \in Seq(Attempt),
           Last'.status = "running", wfStatus' = "running",
           boot' = "serving", gateWait' = NoDriver
    PROVE  Sequential' /\ Progress
<1>1. PICK d \in Drivers : drv' = [drv EXCEPT ![d] = Taking(n, FALSE)]
  BY DEF Kick
<1>2. \A e \in Drivers : Live(e) => e = d
  BY DEF Stopped
<1>3. FALSE \in BOOLEAN /\ wfStatus' \in {"running", "waiting"}
  OBVIOUS
<1> QED
  BY <1>1, <1>2, <1>3, TakesLast

LEMMA RetryStepSequential ==
    ASSUME TypeOK, TypeOK', Sequential, ~ServeDuringRecovery, RetryStep
    PROVE  Sequential' /\ Progress
<1> DEFINE n == Len(records)
           closed == Rewrite(records, n, "failed", FALSE, Last.outcome)
           target == RetryTarget(records, Last.step)
<1>1. /\ Stopped /\ gateWait = NoDriver /\ boot = "serving"
      /\ records # << >> /\ Last.status = "waiting"
  BY PausedStopped DEF RetryStep, PausedLast
<1>2. /\ records \in Seq(Attempt) /\ n \in Nat /\ Last.step \in Steps
      /\ Last.outcome \in Outcomes
  BY <1>1, LastAttempt
<1>3. target \in Steps /\ Amended(records)
  BY <1>2, RetryTargetType, UnchangedAmended
<1>4. /\ records' = Append(closed, NewAttempt(target, records))
      /\ wfStatus' = "running" /\ Kick(Taking(n + 1, FALSE))
      /\ UNCHANGED <<gateWait, daemon>>
  BY DEF RetryStep, SetRun
<1>5. Amended(closed) /\ closed[Len(closed)].status = "failed"
  BY <1>1, <1>2, FinishLast DEF Statuses
<1> HIDE DEF closed, target
<1>6. \A i \in DOMAIN closed : ~IsOpen(closed[i])
  <2>1. ~IsOpen(closed[Len(closed)]) /\ OneOpenAttempt
    BY <1>5 DEF IsOpen, Sequential
  <2> QED
    BY <1>2, <1>5, <2>1, AmendedCloses
<1>7. \A i \in DOMAIN closed : records[i].status = "ok" => closed[i].status = "ok"
  BY <1>2, <1>5 DEF Amended
<1>8. /\ Progress /\ Len(records') = n + 1
      /\ records'[Len(records')].status = "running" /\ records' # << >>
  BY <1>2, <1>3, <1>4, <1>5, <1>6, <1>7, Continues
<1>9. boot' = "serving" /\ gateWait' = NoDriver /\ Last'.status = "running"
      /\ records' \in Seq(Attempt)
  BY <1>1, <1>4, <1>8 DEF daemon, Last, TypeOK, RowsOK
<1> QED
  BY <1>1, <1>4, <1>8, <1>9, KickSequential

LEMMA ContinueDeliverySequential ==
    ASSUME TypeOK, TypeOK', Sequential, ~ServeDuringRecovery, ContinueDelivery
    PROVE  Sequential' /\ Progress
<1> DEFINE n == Len(records)
<1>1. /\ Stopped /\ gateWait = NoDriver /\ boot = "serving"
      /\ records # << >> /\ Last.status = "waiting"
  BY PausedStopped DEF ContinueDelivery, PausedLast
<1>2. records \in Seq(Attempt) /\ Last.outcome \in Outcomes
  BY <1>1, LastAttempt
<1>3. /\ records' = Rewrite(records, n, "running", FALSE, Last.outcome)
      /\ wfStatus' = "running" /\ Kick(Taking(n, FALSE))
      /\ UNCHANGED <<gateWait, daemon>>
  BY DEF ContinueDelivery, SetRun
<1>4. Amended(records') /\ records'[Len(records')].status = "running"
  <2>1. "running" \in Statuses /\ Last.status # "ok"
    BY <1>1 DEF Statuses
  <2> QED
    BY <1>1, <1>2, <1>3, <2>1, FinishLast
<1>5. n = Len(records') /\ records' # << >> /\ Progress
  BY <1>1, <1>2, <1>4 DEF Amended, Progress
<1>6. boot' = "serving" /\ gateWait' = NoDriver /\ Last'.status = "running"
      /\ records' \in Seq(Attempt)
  BY <1>1, <1>3, <1>4 DEF daemon, Last, TypeOK, RowsOK
<1> QED
  BY <1>1, <1>3, <1>5, <1>6, KickSequential

\* What a request finds when it answers a waiting gate.
LEMMA QuestionFacts ==
    ASSUME TypeOK, Sequential, ~ServeDuringRecovery, OperatorMayAct,
           NEW kind, WaitingOn(kind)
    PROVE  /\ boot = "serving" /\ records # << >> /\ Last.status = "waiting"
           /\ FutureOpen => /\ gateWait \in Drivers /\ drv[gateWait].pc = "parked"
                            /\ Live(gateWait) /\ Asking(gateWait)
           /\ ~FutureOpen /\ kind = "choice" => Stopped /\ gateWait = NoDriver
<1>1. boot = "serving" /\ \A d \in Drivers : drv[d].pc # "recover"
  BY DEF OperatorMayAct
<1>2. /\ records # << >> /\ records \in Seq(Attempt) /\ Last.status = "waiting"
      /\ Kind[Last.step] = kind /\ ~Closed
  BY LastAttempt DEF WaitingOn, Closed, IsOpen, Last
<1>3. gateWait # NoDriver =>
          /\ gateWait \in Drivers /\ drv[gateWait].pc = "parked" /\ Live(gateWait)
          /\ Standing(gateWait)
  BY DEF Sequential, Live, TypeOK, CoroutinesOK
<1>4. FutureOpen => Asking(gateWait)
  BY <1>3 DEF FutureOpen, Standing
<1>5. ASSUME ~FutureOpen, kind = "choice", NEW d \in Drivers, Live(d) PROVE FALSE
  <2>1. Standing(d) /\ drv[d].pc \in Pcs
    BY DEF Sequential, TypeOK, CoroutinesOK, Driver
  <2>2. ~Settled(d)
    BY <1>2 DEF Settled
  <2>3. drv[d].pc = "parked"
    BY <1>1, <1>2, <1>5, <2>1, <2>2 DEF Standing, Live, Working, Pcs
  <2>4. gateWait = d /\ gateWait # NoDriver
    BY <2>1, <2>3, DriversAssumption DEF Standing, NoDriver
  <2>5. drv[d].woken
    BY <1>5, <2>4 DEF FutureOpen
  <2>6. KindOf(d) = "gate" /\ Asking(d)
    BY <2>1, <2>2, <2>3, <2>5 DEF Standing
  <2> QED
    BY <1>2, <1>5, <2>6 DEF KindOf, Asking, OnNewest, Last
<1> QED
  BY <1>1, <1>2, <1>3, <1>4, <1>5 DEF Stopped, FutureOpen

\* A step after which no coroutine stands anywhere.
LEMMA StopsStep ==
    ASSUME TypeOK, Sequential, Progress,
           \A d \in Drivers : drv'[d].pc \in {"off", "done"}, gateWait' = NoDriver,
           wfStatus' = "none" => records' = << >>, wfStatus' \in Terminal => Closed',
           boot' = "recovering" => snapshot' = wfStatus'
    PROVE  Sequential'
<1>1. records \in Seq(Attempt)
  BY DEF TypeOK, RowsOK
<1>2. OneOpenAttempt' /\ Unpaused'
  BY <1>1, ProgressKeepsOne DEF Sequential
<1>3. \A d \in Drivers : Standing(d)' /\ ~Live(d)'
  BY DEF Standing, Working, Live
<1>4. Stopped'
  BY <1>3 DEF Stopped
<1> QED
  BY <1>2, <1>3, <1>4 DEF Sequential

\* Resolving the future of the coroutine that asked.
LEMMA WakeSequential ==
    ASSUME TypeOK, Sequential, boot = "serving", gateWait \in Drivers,
           drv[gateWait].pc = "parked", Live(gateWait), Wake, UNCHANGED <<gateWait, daemon>>,
           NEW n, drv[gateWait].seq = n, Progress,
           wfStatus' # "none", wfStatus' \in Terminal => Closed', records' # << >>,
           \/ /\ Kind[records'[n].step] = "gate" /\ n = Len(records')
              /\ Last'.status = "waiting" /\ ~Last'.pause /\ wfStatus' = "waiting"
           \/ Kind[records'[n].step] = "choice" /\ Decided(n)'
    PROVE  Sequential'
<1> DEFINE d == gateWait
           c == [drv[d] EXCEPT !.woken = TRUE]
<1>1. \A e \in Drivers : Live(e) => e = d
  BY LoneFacts
<1>2. drv[d] \in Driver /\ drv \in [Drivers -> Driver]
  BY DEF TypeOK, CoroutinesOK
<1>3. drv' = [drv EXCEPT ![d] = c] /\ gateWait' = d /\ boot' = "serving"
  BY DEF Wake, daemon
<1>4. c.pc = "parked" /\ c.seq = n /\ c.woken
  BY <1>2 DEF Driver
<1> HIDE DEF c
<1>5. drv'[d].pc = "parked" /\ drv'[d].seq = n /\ drv'[d].woken
  BY <1>2, <1>3, <1>4
<1> HIDE DEF d
<1>6. CASE /\ Kind[records'[n].step] = "gate" /\ n = Len(records')
           /\ Last'.status = "waiting" /\ ~Last'.pause /\ wfStatus' = "waiting"
  <2> SUFFICES ASSUME NEW e, e = d PROVE Sequential'
    OBVIOUS
  <2>1. drv'[e].pc = "parked" /\ drv'[e].seq = n /\ drv'[e].woken /\ gateWait' = e
        /\ e \in Drivers
    BY <1>3, <1>5 DEF d
  <2>2. Asking(e)' /\ KindOf(e)' = "gate"
    BY <1>6, <2>1 DEF Asking, OnNewest, KindOf
  <2>3. Standing(e)'
    BY <2>1, <2>2 DEF Standing, Working
  <2> QED
    BY <1>1, <1>3, <1>4, <2>1, <2>3, LoneStep
<1>7. CASE Kind[records'[n].step] = "choice" /\ Decided(n)'
  <2> SUFFICES ASSUME NEW e, e = d PROVE Sequential'
    OBVIOUS
  <2>1. drv'[e].pc = "parked" /\ drv'[e].seq = n /\ drv'[e].woken /\ gateWait' = e
        /\ e \in Drivers
    BY <1>3, <1>5 DEF d
  <2>2. Settled(e)' /\ KindOf(e)' = "choice"
    BY <1>7, <2>1 DEF Settled, Decided, OnNewest, KindOf
  <2>3. Standing(e)'
    BY <2>1, <2>2 DEF Standing, Working
  <2> QED
    BY <1>1, <1>3, <1>4, <2>1, <2>3, LoneStep
<1> QED
  BY <1>6, <1>7

LEMMA ResumeGateSequential ==
    ASSUME TypeOK, Sequential, ~ServeDuringRecovery, ResumeGate
    PROVE  Sequential' /\ Progress
<1> DEFINE n == Len(records)
<1>1. /\ OperatorMayAct /\ WaitingOn("gate") /\ FutureOpen /\ Wake
      /\ UNCHANGED <<records, wfStatus, gateWait, daemon>>
  BY DEF ResumeGate, durable
<1>2. /\ boot = "serving" /\ records # << >> /\ gateWait \in Drivers
      /\ drv[gateWait].pc = "parked" /\ Live(gateWait) /\ Asking(gateWait)
  BY <1>1, QuestionFacts
<1>3. /\ drv[gateWait].seq = n /\ n = Len(records') /\ records' # << >>
      /\ Last'.status = "waiting" /\ ~Last'.pause /\ wfStatus' = "waiting"
      /\ Kind[records'[n].step] = "gate"
  BY <1>1, <1>2 DEF Asking, OnNewest, Last, WaitingOn
<1>4. Progress
  BY <1>1, UnchangedAmended DEF Progress, TypeOK, RowsOK
<1>5. wfStatus' # "none" /\ (wfStatus' \in Terminal => Closed')
  BY <1>3 DEF Terminal
<1> HIDE DEF n
<1> QED
  BY <1>1, <1>2, <1>3, <1>4, <1>5, WakeSequential

LEMMA AnswerGateSequential ==
    ASSUME TypeOK, TypeOK', Sequential, ~ServeDuringRecovery, AnswerGate
    PROVE  Sequential' /\ Progress
<1>0. PICK n : n = Len(records)
  OBVIOUS
<1> DEFINE history == Rewrite(records, n, "ok", FALSE, Last.outcome)
<1>1. /\ OperatorMayAct /\ WaitingOn("choice") /\ UNCHANGED <<gateWait, daemon>>
  BY DEF AnswerGate
<1>2. PICK dest \in Dests[Last.step] :
        /\ Advance(n, "result", dest, history)
        /\ IF FutureOpen THEN Wake
           ELSE IF dest = Complete THEN UNCHANGED <<drv, runs>>
           ELSE Kick(Taking(n + 1, FALSE))
  BY <1>0 DEF AnswerGate
<1>3. boot = "serving" /\ records # << >> /\ Last.status = "waiting"
  BY <1>1, QuestionFacts
<1>4. /\ records \in Seq(Attempt) /\ n \in Nat /\ n \in DOMAIN records
      /\ Last.step \in Steps /\ Last.outcome \in Outcomes
      /\ Kind[Last.step] = "choice" /\ Last.status # "ok"
  BY <1>0, <1>1, <1>3, LastAttempt DEF WaitingOn
<1>5. dest \in Steps \cup {Complete} /\ "result" \in Outcomes /\ "ok" \in Statuses
  BY <1>4, DestsAssumption DEF Outcomes, Statuses
<1>6. Amended(history)
  BY <1>0, <1>3, <1>4, <1>5, FinishLast
<1> HIDE DEF history
<1>7. /\ Progress /\ Decided(n)' /\ records' # << >>
      /\ wfStatus' # "none" /\ (wfStatus' \in Terminal => Closed')
      /\ dest # Complete => /\ Len(records') = n + 1
                            /\ Last'.status = "running" /\ wfStatus' = "running"
      /\ \A i \in DOMAIN records : records'[i].step = records[i].step
  <2>1. Advance(n, "result", dest, history)
    BY <1>2
  <2> QED
    BY <1>0, <1>3, <1>4, <1>5, <1>6, <2>1, AdvanceDecides
<1>8. CASE FutureOpen
  <2>1. /\ gateWait \in Drivers /\ drv[gateWait].pc = "parked" /\ Live(gateWait)
        /\ Asking(gateWait)
    BY <1>1, <1>8, QuestionFacts
  <2>2. drv[gateWait].seq = n
    BY <1>0, <2>1 DEF Asking, OnNewest
  <2>3. Kind[records'[n].step] = "choice"
    BY <1>0, <1>4, <1>7 DEF Last
  <2>4. Wake
    BY <1>2, <1>8
  <2> QED
    BY <1>1, <1>3, <1>7, <2>1, <2>2, <2>3, <2>4, WakeSequential
<1>9. CASE ~FutureOpen
  <2>1. Stopped /\ gateWait = NoDriver
    BY <1>1, <1>9, QuestionFacts
  <2>2. boot' = "serving" /\ gateWait' = NoDriver
    BY <1>1, <1>3, <2>1 DEF daemon
  <2>3. CASE dest = Complete
    <3>1. \A d \in Drivers : drv'[d].pc \in {"off", "done"}
      BY <1>2, <1>9, <2>1, <2>3 DEF Stopped, Live
    <3> QED
      BY <1>7, <2>2, <3>1, StopsStep
  <2>4. CASE dest # Complete
    <3>1. Kick(Taking(n + 1, FALSE)) /\ n + 1 = Len(records')
      BY <1>2, <1>7, <1>9, <2>4
    <3>2. records' \in Seq(Attempt)
      BY DEF TypeOK, RowsOK
    <3> QED
      BY <1>7, <2>1, <2>2, <2>4, <3>1, <3>2, KickSequential
  <2> QED
    BY <2>3, <2>4
<1> QED
  BY <1>8, <1>9

LEMMA StartRunSequential ==
    ASSUME TypeOK, Sequential, StartRun
    PROVE  Sequential' /\ Progress
<1> DEFINE c == [Off EXCEPT !.pc = "open", !.to = Order[1]]
<1>1. /\ records = << >> /\ Stopped /\ boot = "serving" /\ Closed
  BY DEF StartRun, Sequential, Closed
<1>2. gateWait = NoDriver
  BY <1>1 DEF Sequential, Stopped, Live, TypeOK, CoroutinesOK
<1>3. PICK d \in Drivers : drv' = [drv EXCEPT ![d] = c]
  BY DEF StartRun, Kick
<1>4. /\ wfStatus' = "running" /\ records' = records /\ boot' = "serving"
      /\ gateWait' = NoDriver
  BY <1>1, <1>2 DEF StartRun, SetRun, daemon
<1>5. c.pc = "open"
  BY DEF Off
<1> HIDE DEF c
<1>6. drv'[d].pc = "open"
  BY <1>3, <1>5 DEF TypeOK, CoroutinesOK
<1>7. Closed' /\ wfStatus' \notin Terminal /\ wfStatus' # "none"
  BY <1>1, <1>4 DEF Closed, Terminal
<1>8. Standing(d)'
  BY <1>6, <1>7 DEF Standing, Working
<1>9. \A e \in Drivers : Live(e) => e = d
  BY <1>1 DEF Stopped
<1> QED
  BY <1>3, <1>4, <1>7, <1>8, <1>9, QuietStep

\* The daemon's own steps write no row of the run.
LEMMA DaemonSequential ==
    ASSUME TypeOK, Sequential, Crash \/ Restart \/ RecoverRun
    PROVE  Sequential' /\ Progress
<1>1. records' = records /\ wfStatus' = wfStatus /\ records \in Seq(Attempt)
  BY DEF Crash, Restart, RecoverRun, durable, TypeOK, RowsOK
<1>2. Progress
  BY <1>1, UnchangedAmended DEF Progress
<1>3. (wfStatus' = "none" => records' = << >>) /\ (wfStatus' \in Terminal => Closed')
  BY <1>1 DEF Sequential, Closed
<1>4. Stopped => gateWait = NoDriver
  BY DEF Sequential, Stopped, Live, TypeOK, CoroutinesOK
<1>5. CASE Crash
  <2>1. /\ \A d \in Drivers : drv'[d].pc \in {"off", "done"}
        /\ gateWait' = NoDriver /\ boot' = "down"
    BY <1>5 DEF Crash, Off
  <2> QED
    BY <1>2, <1>3, <2>1, StopsStep
<1>6. CASE Restart
  <2>1. Stopped
    BY <1>6 DEF Restart, Sequential
  <2>2. /\ \A d \in Drivers : drv'[d].pc \in {"off", "done"}
        /\ gateWait' = NoDriver /\ snapshot' = wfStatus'
    BY <1>1, <1>4, <1>6, <2>1 DEF Restart, memory, Stopped, Live
  <2> QED
    BY <1>2, <1>3, <2>2, StopsStep
<1>7. CASE RecoverRun
  <2>1. Stopped /\ snapshot = wfStatus
    BY <1>7 DEF RecoverRun, Sequential
  <2>2. gateWait' = NoDriver /\ boot' = "serving"
    BY <1>4, <1>7, <2>1 DEF RecoverRun
  <2>3. CASE UNCHANGED drv
    <3>1. \A d \in Drivers : drv'[d].pc \in {"off", "done"}
      BY <2>1, <2>3 DEF Stopped, Live
    <3> QED
      BY <1>2, <1>3, <2>2, <3>1, StopsStep
  <2>4. CASE /\ snapshot \in {"running", "waiting"}
             /\ Kick([Off EXCEPT !.pc = "recover"])
    <3> DEFINE c == [Off EXCEPT !.pc = "recover"]
    <3>1. PICK d \in Drivers : drv' = [drv EXCEPT ![d] = c]
      BY <2>4 DEF Kick
    <3>2. c.pc = "recover"
      BY DEF Off
    <3> HIDE DEF c
    <3>3. drv'[d].pc = "recover"
      BY <3>1, <3>2 DEF TypeOK, CoroutinesOK
    <3>4. wfStatus' \in {"running", "waiting"}
      BY <1>1, <2>1, <2>4
    <3>5. Standing(d)'
      BY <3>3, <3>4 DEF Standing, Working
    <3>6. wfStatus' # "none" /\ wfStatus' \notin Terminal
      BY <3>4 DEF Terminal
    <3>7. \A e \in Drivers : Live(e) => e = d
      BY <2>1 DEF Stopped
    <3> QED
      BY <1>1, <2>2, <3>1, <3>5, <3>6, <3>7, QuietStep
  <2> QED
    BY <1>7, <2>3, <2>4 DEF RecoverRun
<1> QED
  BY <1>5, <1>6, <1>7

LEMMA NextSequential ==
    ASSUME TypeOK, Sequential, ~ServeDuringRecovery, [Next]_vars
    PROVE  Sequential' /\ Progress
<1>0. TypeOK'
  BY NextType
<1>1. CASE StartRun
  BY <1>1, StartRunSequential
<1>2. CASE Operator
  BY <1>0, <1>2, AnswerGateSequential, ResumeGateSequential, RetryStepSequential,
     ContinueDeliverySequential DEF Operator
<1>3. CASE Crash \/ Restart \/ RecoverRun
  BY <1>3, DaemonSequential
<1>4. CASE \E d \in Drivers : Execute(d)
  <2>1. PICK d \in Drivers : Execute(d)
    BY <1>4
  <2>2. CASE Open(d) \/ Loop(d) \/ Woken(d) \/ GateResumed(d)
    BY <2>2, OpenSequential, LoopSequential, WokenSequential, GateResumedSequential
  <2>3. CASE RunFails(d) \/ RunCompletes(d) \/ RunDone(d)
    BY <2>3, EndingSequential, RunDoneSequential
  <2>4. CASE Recover(d)
    BY <2>4, RecoverEmptySequential, RecoverWaitingSequential,
       RecoverRunningSequential, RecoverDeliverySequential,
       RecoverFinishedSequential DEF Recover
  <2>5. CASE RunStep(d)
    <3>1. CASE \/ EnterAgent(d) \/ EnterWork(d) \/ EnterDelivery(d) \/ ReviewLands(d)
      BY <3>1, MovesSequential
    <3>2. CASE \/ SessionReady(d) \/ TurnEnds(d) \/ CommandDone(d)
               \/ CaptureDone(d) \/ Decide(d) \/ EnterReview(d) \/ ConsumeVerdict(d)
      BY <3>2, EndsSequential
    <3> QED
      BY <2>5, <3>1, <3>2, PromptSequential, EffectBeginsSequential,
         DeliveryDoneSequential, TakeSettledSequential, ParkGateSequential,
         StepFailsSequential, StepPausesSequential DEF RunStep
  <2> QED
    BY <2>1, <2>2, <2>3, <2>4, <2>5 DEF Execute
<1>5. CASE UNCHANGED vars
  <2>1. records \in Seq(Attempt) /\ records' = records
    BY <1>5 DEF vars, durable, TypeOK, RowsOK
  <2>2. Progress
    BY <2>1, UnchangedAmended DEF Progress
  <2>3. Sequential'
    BY <1>5 DEF vars, durable, memory, daemon, Sequential, OneOpenAttempt, Unpaused,
                Standing, Asking, Settled, OnNewest, Closed, Last, KindOf, Live, Stopped
  <2> QED
    BY <2>2, <2>3
<1> QED
  BY <1>1, <1>2, <1>3, <1>4, <1>5 DEF Next

-----------------------------------------------------------------------------
(* The newest row a selector may bind, and what follows.                   *)

LEMMA LatestFacts ==
    ASSUME NEW n \in Nat, NEW S \in SUBSET (1 .. n)
    PROVE  \/ S = {} /\ Latest(S) = 0
           \/ Latest(S) \in S /\ \A m \in S : m <= Latest(S)
<1>1. CASE S = {}
  BY <1>1 DEF Latest
<1>2. CASE S # {}
  <2>1. \E m \in S : \A k \in S : k <= m
    BY <1>2, Greatest
  <2>2. Latest(S) = CHOOSE m \in S : \A k \in S : k <= m
    BY <1>2 DEF Latest
  <2> QED
    BY <2>1, <2>2, Zenon
<1> QED
  BY <1>1, <1>2

\* select_evidence returns finished work with no later `after` row.
LEMMA Selected ==
    ASSUME NEW recs \in Seq(Attempt), NEW sel, NEW e,
           e = SelectEvidence(sel, recs), e # 0
    PROVE  /\ e \in DOMAIN recs /\ recs[e].status = "ok"
           /\ \A j \in DOMAIN recs : j > e => recs[j].step # sel.after
<1> DEFINE Marks == {i \in DOMAIN recs : recs[i].step = sel.after}
           floor == Latest(Marks)
           S     == {i \in DOMAIN recs : i > floor /\ Qualifies(sel, recs[i])}
           n     == Len(recs)
<1>1. n \in Nat /\ DOMAIN recs = 1 .. n
  OBVIOUS
<1>2. Marks \in SUBSET (1 .. n) /\ S \in SUBSET (1 .. n)
  BY <1>1
<1>3. e = Latest(S)
  BY DEF SelectEvidence
<1> HIDE DEF n
<1>4. e \in S
  <2> HIDE DEF S
  <2> QED
    BY <1>1, <1>2, <1>3, LatestFacts
<1>5. floor \in Nat /\ \A j \in Marks : j <= floor
  <2> HIDE DEF Marks
  <2> QED
    BY <1>1, <1>2, LatestFacts, LatestType
<1>6. e \in DOMAIN recs /\ e > floor /\ recs[e].status = "ok"
  BY <1>4 DEF Qualifies
<1> HIDE DEF floor, S
<1>7. ASSUME NEW j \in DOMAIN recs, j > e PROVE recs[j].step # sel.after
  <2>1. SUFFICES ASSUME j \in Marks PROVE FALSE
    OBVIOUS
  <2> HIDE DEF Marks
  <2> QED
    BY <1>1, <1>5, <1>6, <1>7, <2>1
<1> QED
  BY <1>6, <1>7

\* Amending the history keeps what was bound fresh; what continues it is bound
\* to a history that differs from the committed one in the closed row only.
LEMMA FreshKept ==
    ASSUME records \in Seq(Attempt), EvidenceIsFresh, Progress
    PROVE  EvidenceIsFresh'
<1> DEFINE Fresh(recs, i, sel) ==
             LET e == recs[i].evidence[sel]
             IN  e # 0 => /\ e < i /\ recs[e].status = "ok"
                          /\ \A j \in e + 1 .. i - 1 : recs[j].step # sel.after
<1>1. \A i \in DOMAIN records : \A sel \in Evidence[records[i].step] :
          records[i].evidence[sel] \in Nat
  <2> TAKE i \in DOMAIN records
  <2> TAKE sel \in Evidence[records[i].step]
  <2>1. records[i] \in Attempt
    OBVIOUS
  <2>2. sel \in Selectors
    BY <2>1 DEF Selectors, Attempt
  <2> QED
    BY <2>1, <2>2 DEF Attempt
<1>2. ASSUME NEW recs, Amended(recs), NEW i \in DOMAIN recs,
             NEW sel \in Evidence[recs[i].step]
      PROVE  Fresh(recs, i, sel)
  <2>1. /\ i \in DOMAIN records /\ recs[i].step = records[i].step
        /\ recs[i].evidence = records[i].evidence
        /\ recs \in Seq(Attempt) /\ Len(recs) = Len(records)
    BY <1>2 DEF Amended
  <2> DEFINE e == records[i].evidence[sel]
  <2>2. e \in Nat /\ recs[i].evidence[sel] = e
    BY <1>1, <1>2, <2>1
  <2>3. e # 0 => /\ e < i /\ records[e].status = "ok"
                 /\ \A j \in e + 1 .. i - 1 : records[j].step # sel.after
    BY <1>2, <2>1 DEF EvidenceIsFresh
  <2> HIDE DEF e
  <2>4. \A j \in DOMAIN records : recs[j].step = records[j].step
                                  /\ (records[j].status = "ok" => recs[j].status = "ok")
    BY <1>2 DEF Amended
  <2>5. SUFFICES ASSUME e # 0
                 PROVE  /\ e < i /\ recs[e].status = "ok"
                        /\ \A j \in e + 1 .. i - 1 : recs[j].step # sel.after
    BY <2>2
  <2>6. e \in DOMAIN records /\ \A j \in e + 1 .. i - 1 : j \in DOMAIN records
    BY <2>1, <2>2, <2>3, <2>5
  <2> QED
    BY <2>3, <2>4, <2>5, <2>6
<1>3. CASE Amended(records')
  BY <1>2, <1>3 DEF EvidenceIsFresh
<1>4. CASE Continued(records')
  <2>1. PICK closed \in Seq(Attempt), history \in Seq(Attempt), s \in Steps :
          /\ Amended(closed) /\ Amended(history)
          /\ \A i \in DOMAIN closed : history[i].status = "ok" => closed[i].status = "ok"
          /\ records' = Append(closed, NewAttempt(s, history))
    BY <1>4 DEF Continued
  <2> DEFINE a == NewAttempt(s, history)
             n == Len(closed)
  <2>2. /\ a \in Attempt /\ a.step = s /\ n \in Nat
        /\ \A sel \in Evidence[s] : a.evidence[sel] = SelectEvidence(sel, history)
    <3>1. \A sel \in Evidence[s] : sel \in Selectors
      BY DEF Selectors
    <3> QED
      BY <3>1, NewAttemptType DEF NewAttempt, EntryEvidence
  <2>3. records' = Append(closed, a)
    BY <2>1
  <2> HIDE DEF a
  <2>4. /\ DOMAIN records' = 1 .. n + 1 /\ records'[n + 1] = a
        /\ \A i \in DOMAIN closed : records'[i] = closed[i]
        /\ DOMAIN closed = 1 .. n /\ DOMAIN history = 1 .. n
        /\ \A i \in 1 .. n : history[i].step = closed[i].step
    <3>1. Len(history) = n
      BY <2>1 DEF Amended
    <3>2. \A i \in 1 .. n : history[i].step = closed[i].step
      BY <2>1 DEF Amended
    <3> QED
      BY <2>2, <2>3, <3>1, <3>2
  <2> HIDE DEF n
  <2>5. ASSUME NEW i \in DOMAIN records', NEW sel \in Evidence[records'[i].step]
        PROVE  Fresh(records', i, sel)
    <3>1. CASE i \in 1 .. n
      <4>1. records'[i] = closed[i] /\ i \in DOMAIN closed /\ i \in Nat
        BY <2>4, <3>1
      <4>2. Fresh(closed, i, sel)
        BY <1>2, <2>1, <2>5, <4>1
      <4>3. closed[i].evidence[sel] \in Nat
        <5>1. closed[i] \in Attempt
          BY <4>1
        <5>2. sel \in Selectors
          BY <2>5, <4>1, <5>1 DEF Selectors, Attempt
        <5> QED
          BY <5>1, <5>2 DEF Attempt
      <4>4. SUFFICES ASSUME closed[i].evidence[sel] # 0
                     PROVE  LET e == closed[i].evidence[sel]
                            IN  /\ e < i /\ records'[e].status = "ok"
                                /\ \A j \in e + 1 .. i - 1 : records'[j].step # sel.after
        BY <4>1
      <4> DEFINE e == closed[i].evidence[sel]
      <4>5. /\ e < i /\ closed[e].status = "ok"
            /\ \A j \in e + 1 .. i - 1 : closed[j].step # sel.after
        BY <4>2, <4>4
      <4>6. e \in Nat /\ e # 0
        BY <4>3, <4>4
      <4> HIDE DEF e
      <4>7. e \in DOMAIN closed /\ \A j \in e + 1 .. i - 1 : j \in DOMAIN closed
        BY <2>2, <2>4, <3>1, <4>1, <4>5, <4>6
      <4>8. /\ e < i /\ records'[e].status = "ok"
            /\ \A j \in e + 1 .. i - 1 : records'[j].step # sel.after
        BY <2>4, <4>5, <4>7
      <4> QED
        BY <4>8 DEF e
    <3>2. CASE i = n + 1
      <4>1. records'[i] = a /\ sel \in Evidence[s]
        BY <2>2, <2>4, <2>5, <3>2
      <4> DEFINE e == a.evidence[sel]
      <4>2. e = SelectEvidence(sel, history)
        BY <2>2, <4>1
      <4> HIDE DEF e
      <4>3. SUFFICES ASSUME e # 0
                     PROVE  /\ e < i /\ records'[e].status = "ok"
                            /\ \A j \in e + 1 .. i - 1 : records'[j].step # sel.after
        BY <4>1 DEF e
      <4>4. /\ e \in DOMAIN history /\ history[e].status = "ok"
            /\ \A j \in DOMAIN history : j > e => history[j].step # sel.after
        BY <4>2, <4>3, Selected
      <4>5. e \in 1 .. n /\ closed[e].status = "ok" /\ e < i
        BY <2>1, <2>2, <2>4, <3>2, <4>4
      <4>6. ASSUME NEW j \in e + 1 .. i - 1 PROVE records'[j].step # sel.after
        <5>1. j \in 1 .. n /\ j > e
          BY <2>2, <3>2, <4>5
        <5> QED
          BY <2>4, <4>4, <5>1
      <4> QED
        BY <2>4, <4>5, <4>6
    <3> QED
      BY <2>2, <2>4, <3>1, <3>2
  <2> QED
    BY <2>5 DEF EvidenceIsFresh
<1> QED
  BY <1>3, <1>4 DEF Progress

-----------------------------------------------------------------------------
(* The theorems.                                                           *)

RunInvariant == TypeOK /\ Sequential /\ EvidenceIsFresh

LEMMA InitSequential == Init => RunInvariant
<1> SUFFICES ASSUME Init PROVE RunInvariant
  OBVIOUS
<1>1. TypeOK
  BY InitType
<1>2. Sequential
  BY DEF Init, Sequential, OneOpenAttempt, Unpaused, Standing, Working, Live, Stopped,
         Off, Closed, Terminal
<1>3. EvidenceIsFresh
  BY DEF Init, EvidenceIsFresh
<1> QED
  BY <1>1, <1>2, <1>3 DEF RunInvariant

LEMMA RunInvariantKept ==
    ASSUME ~ServeDuringRecovery, RunInvariant, [Next]_vars
    PROVE  RunInvariant'
<1>1. TypeOK' /\ Sequential' /\ Progress
  BY NextType, NextSequential DEF RunInvariant
<1> QED
  BY <1>1, FreshKept DEF RunInvariant, TypeOK, RowsOK

LEMMA RunInvariantHolds ==
    ASSUME ~ServeDuringRecovery PROVE Spec => []RunInvariant
  BY InitSequential, RunInvariantKept, PTL DEF Spec

\* Where requests wait for recovery, only the newest attempt of a run is ever
\* open: no crash, answer, retry or continuation leaves two attempts that a
\* coroutine or an operator could still act on.
THEOREM StepsAreSequential ==
    ASSUME ~ServeDuringRecovery PROVE Spec => []OneOpenAttempt
<1>1. RunInvariant => OneOpenAttempt
  BY DEF RunInvariant, Sequential
<1> QED
  BY <1>1, RunInvariantHolds, PTL

\* Every attempt is opened on finished work that no later round of the step its
\* selector counts `after` has overtaken, whichever of the four commits opened
\* it and whichever history it was looked up in.
THEOREM EvidenceFresh ==
    ASSUME ~ServeDuringRecovery PROVE Spec => []EvidenceIsFresh
<1>1. RunInvariant => EvidenceIsFresh
  BY DEF RunInvariant
<1> QED
  BY <1>1, RunInvariantHolds, PTL

\* Nothing acts on a run that is over.
LEMMA TerminalStep ==
    ASSUME TypeOK, Sequential, ~ServeDuringRecovery, wfStatus \in Terminal, [Next]_vars
    PROVE  wfStatus' = wfStatus /\ records' = records
<1>1. Closed /\ wfStatus \notin {"none", "running", "waiting"}
  BY DEF Sequential, Terminal
<1>2. ~PausedLast /\ \A kind : ~WaitingOn(kind)
  BY <1>1, LastAttempt DEF PausedLast, WaitingOn, Closed, IsOpen, Last
<1>3. ASSUME NEW d \in Drivers
      PROVE  /\ drv[d].pc \notin Working \cup {"recover", "open", "complete",
                                              "resumed", "failing"}
             /\ drv[d].pc = "parked" /\ drv[d].woken => KindOf(d) = "choice"
  BY <1>1 DEF Sequential, Standing, Asking
<1>4. CASE StartRun \/ Operator
  BY <1>1, <1>2, <1>4
  DEF StartRun, Operator, AnswerGate, ResumeGate, RetryStep, ContinueDelivery
<1>5. CASE Crash \/ Restart \/ RecoverRun \/ UNCHANGED vars
  BY <1>5 DEF Crash, Restart, RecoverRun, vars, durable
<1>6. ASSUME NEW d \in Drivers, Execute(d)
      PROVE  wfStatus' = wfStatus /\ records' = records
  <2>1. CASE RunDone(d) \/ TakeSettled(d)
    BY <2>1 DEF RunDone, TakeSettled, durable
  <2>2. CASE Woken(d)
    <3>1. KindOf(d) = "choice"
      BY <1>3, <2>2 DEF Woken, At
    <3> QED
      BY <2>2, <3>1 DEF Woken, durable
  <2>3. ~RunStep(d) \/ TakeSettled(d)
    BY <1>3 DEF RunStep, EnterAgent, SessionReady, PromptAcked, TurnEnds, EnterWork,
        CommandDone, CaptureDone, Decide, EnterReview, ReviewLands, ConsumeVerdict,
        EnterDelivery, EffectBegins, DeliveryDone, ParkGate, StepPauses, MayPause,
        StepFails, At, Working
  <2>4. /\ ~Open(d) /\ ~Loop(d) /\ ~GateResumed(d) /\ ~RunFails(d) /\ ~RunCompletes(d)
        /\ ~Recover(d)
    BY <1>3 DEF Open, Loop, GateResumed, RunFails, RunCompletes, Recover, RecoverEmpty,
        RecoverWaiting, RecoverRunning, RecoverDelivery, RecoverFinished, At, Working
  <2> QED
    BY <1>6, <2>1, <2>2, <2>3, <2>4 DEF Execute
<1> QED
  BY <1>4, <1>5, <1>6 DEF Next

\* Where requests wait for recovery, a run that is complete or failed is never
\* driven again: its status and its history stay as they are.
THEOREM TerminalFinal ==
    ASSUME ~ServeDuringRecovery PROVE Spec => TerminalIsFinal
<1>1. ASSUME RunInvariant, [Next]_vars
      PROVE  [(wfStatus \in {"complete", "failed"}) =>
                  wfStatus' = wfStatus /\ records' = records]_vars
  BY <1>1, TerminalStep DEF RunInvariant, Terminal
<1> QED
  BY <1>1, RunInvariantHolds, PTL DEF Spec, TerminalIsFinal

-----------------------------------------------------------------------------
(* The run row and the newest attempt agree about a wait.                  *)

Waiting == records # << >> /\ Last.status = "waiting"

\* The coroutine that takes the run on from a wait that is answered.
Moving(d) ==
    \/ drv[d].pc = "recover"
    \/ cpu = d /\ drv[d].pc \in {"resumed", "open", "complete", "loop"}

\* An attempt that waits shows in the run row.  A row that still shows an
\* answered wait is being moved on, or will be once the daemon has restarted.
Waits ==
    /\ Waiting => wfStatus = "waiting"
    /\ boot # "serving" => runs = NoDriver
    /\ wfStatus = "waiting" /\ ~Waiting =>
           boot # "serving" \/ LostEnding \/ \E d \in Drivers : Moving(d)

\* Where a coroutine works or moves on, no attempt waits.
Busy == Working \cup {"open", "complete", "resumed", "failing", "decided"}

LEMMA BusyFacts ==
    ASSUME TypeOK, Sequential, Waits, NEW d \in Drivers, drv[d].pc \in Busy
    PROVE  /\ ~Waiting /\ boot = "serving" /\ Standing(d)
           /\ drv[d].pc \in (Working \ {"loop"}) \cup {"failing", "decided"}
                => wfStatus # "waiting"
<1>1. Live(d)
  BY DEF Live, Busy, Working
<1>2. boot = "serving" /\ Standing(d) /\ \A e \in Drivers : Live(e) => e = d
  BY <1>1, LoneFacts
<1>3. ~Waiting
  <2>1. SUFFICES ASSUME records # << >> PROVE Last.status # "waiting"
    BY DEF Waiting
  <2>2. Len(records) \in DOMAIN records
    BY <2>1, LastAttempt
  <2>3. Closed => Last.status # "waiting"
    BY <2>2 DEF Closed, IsOpen, Last
  <2> QED
    BY <1>2, <2>3 DEF Standing, Settled, Busy, Working
<1>4. ASSUME drv[d].pc \in (Working \ {"loop"}) \cup {"failing", "decided"}
      PROVE  wfStatus # "waiting"
  <2>1. \A e \in Drivers : Moving(e) => Live(e)
    BY DEF Moving, Live
  <2>2. ~Moving(d)
    BY <1>4 DEF Moving, Working
  <2>3. ~LostEnding
    BY <1>1 DEF LostEnding
  <2> QED
    BY <1>2, <1>3, <2>1, <2>2, <2>3 DEF Waits
<1> QED
  BY <1>2, <1>3, <1>4

LEMMA BusyNext ==
    ASSUME TypeOK', Sequential', NEW d \in Drivers, drv'[d].pc \in Busy
    PROVE  ~Waiting'
<1>1. Standing(d)'
  BY DEF Sequential
<1>2. SUFFICES ASSUME records' # << >> PROVE Last'.status # "waiting"
  BY DEF Waiting
<1>3. Len(records') \in DOMAIN records'
  BY <1>2 DEF TypeOK, RowsOK
<1>4. Closed' => Last'.status # "waiting"
  BY <1>3 DEF Closed, IsOpen, Last
<1>5. CASE drv'[d].pc \in Working
  BY <1>1, <1>5 DEF Standing
<1>6. CASE drv'[d].pc \in {"open", "complete", "resumed", "failing"}
  BY <1>1, <1>4, <1>6 DEF Standing
<1>7. CASE drv'[d].pc = "decided"
  <2>1. Settled(d)'
    BY <1>1, <1>7 DEF Standing
  <2> QED
    BY <1>4, <2>1 DEF Settled
<1> QED
  BY <1>5, <1>6, <1>7 DEF Busy

\* A pause, and a parked gate, are written to both rows.
LEMMA RowWaits ==
    ASSUME TypeOK, records # << >>, Last.status # "ok", NEW pause \in BOOLEAN,
           NEW outcome \in Outcomes,
           records' = Rewrite(records, Len(records), "waiting", pause, outcome)
    PROVE  Waiting'
<1>1. records \in Seq(Attempt) /\ Len(records) \in DOMAIN records
  BY LastAttempt
<1>2. records'[Len(records')].status = "waiting" /\ Len(records') = Len(records)
  BY <1>1, WaitLast DEF Amended
<1> QED
  BY <1>1, <1>2 DEF Waiting, Last

LEMMA PauseWaits ==
    ASSUME TypeOK, Sequential, NEW d \in Drivers, drv[d].pc \in Working, Pause(d)
    PROVE  Waiting' /\ wfStatus' = "waiting"
<1>1. /\ records # << >> /\ drv[d].seq = Len(records) /\ Last = records[drv[d].seq]
      /\ Last.status = "running" /\ Last.outcome \in Outcomes
  BY WorkingFacts DEF Attempt
<1>2. records' = Rewrite(records, Len(records), "waiting", TRUE, Last.outcome)
  BY <1>1 DEF Pause
<1> QED
  BY <1>1, <1>2, RowWaits DEF Pause, SetRun

\* An answer or a settled delivery leaves no wait behind.
LEMMA AdvanceUnwaits ==
    ASSUME TypeOK, records # << >>, Last.status # "ok", NEW outcome \in Outcomes,
           NEW dest \in Steps \cup {Complete}, NEW history \in Seq(Attempt),
           Advance(Len(records), outcome, dest, history)
    PROVE  ~Waiting' /\ wfStatus' # "waiting"
<1> DEFINE closed == Rewrite(records, Len(records), "ok", FALSE, outcome)
           next == BoundedStep(history, dest)
<1>1. records \in Seq(Attempt) /\ Len(records) \in DOMAIN records
  BY LastAttempt
<1>2. closed \in Seq(Attempt) /\ closed[Len(closed)].status = "ok"
  <2>1. "ok" \in Statuses
    BY DEF Statuses
  <2>2. Amended(closed) /\ closed[Len(closed)].status = "ok"
    BY <1>1, <2>1, FinishLast
  <2> QED
    BY <2>2 DEF Amended
<1> HIDE DEF closed
<1>3. CASE dest = Complete
  BY <1>2, <1>3 DEF Advance, SetRun, closed, Waiting, Last
<1>4. CASE dest # Complete
  <2>1. /\ records' = Append(closed, NewAttempt(next, history)) /\ wfStatus' = "running"
    BY <1>4 DEF Advance, SetRun, closed
  <2>2. next \in Steps
    BY <1>4, BoundedStepType
  <2> HIDE DEF next
  <2>3. NewAttempt(next, history) \in Attempt /\ NewAttempt(next, history).status = "running"
    BY <2>2, NewAttemptType DEF NewAttempt
  <2>4. records'[Len(records')].status = "running"
    BY <1>2, <2>1, <2>3
  <2> QED
    BY <2>1, <2>4 DEF Waiting, Last
<1> QED
  BY <1>3, <1>4

\* A step of an attempt under way, its pauses and settlements apart.
LEMMA BusyWaits ==
    ASSUME TypeOK, Sequential, Waits, TypeOK', Sequential', NEW d \in Drivers,
           drv[d].pc \in (Working \ {"loop"}) \cup {"failing", "decided"},
           UNCHANGED <<wfStatus, boot>>, drv'[d].pc \in Busy
    PROVE  Waits'
<1>1. wfStatus' # "waiting" /\ boot' = "serving" /\ ~Waiting'
  BY BusyFacts, BusyNext DEF Busy
<1> QED
  BY <1>1 DEF Waits

LEMMA FinishesBusy ==
    ASSUME TypeOK, NEW d \in Drivers, NEW outcome, NEW dest, Finishes(d, outcome, dest)
    PROVE  drv'[d].pc \in Busy /\ UNCHANGED <<wfStatus, boot>>
<1>1. drv \in [Drivers -> Driver] /\ drv[d] \in Driver
  BY DEF TypeOK, CoroutinesOK
<1>2. Toward(d, dest).pc \in {"open", "complete"}
  BY <1>1, TowardType
<1> QED
  BY <1>1, <1>2 DEF Finishes, Proceed, Busy, daemon

LEMMA RunStepWaits ==
    ASSUME TypeOK, Sequential, Waits, TypeOK', Sequential', NEW d \in Drivers, RunStep(d)
    PROVE  Waits'
<1>0. drv \in [Drivers -> Driver] /\ drv[d] \in Driver
  BY DEF TypeOK, CoroutinesOK
<1>1. ASSUME drv[d].pc \in Working \ {"loop"}, NEW pc \in Busy,
             drv' = [drv EXCEPT ![d] = [drv[d] EXCEPT !.pc = pc]],
             UNCHANGED <<wfStatus, boot>>
      PROVE  Waits'
  <2>1. drv'[d].pc = pc
    BY <1>0, <1>1 DEF Driver
  <2> QED
    BY <1>1, <2>1, BusyWaits
<1>2. ASSUME drv[d].pc \in Working \ {"loop"}, NEW outcome, NEW dest,
             Finishes(d, outcome, dest)
      PROVE  Waits'
  BY <1>2, FinishesBusy, BusyWaits
<1>3. CASE EnterAgent(d) \/ PromptAcked(d) \/ EnterWork(d) \/ ReviewLands(d) \/ EnterDelivery(d)
  BY <1>1, <1>3 DEF EnterAgent, PromptAcked, EnterWork, ReviewLands, EnterDelivery, At,
     Await, Working, Busy, durable, daemon
<1>4. CASE StepFails(d)
  BY <1>1, <1>4 DEF StepFails, Proceed, Working, Busy, daemon
<1>5. CASE SessionReady(d) \/ EnterReview(d)
  BY <1>1, <1>2, <1>5 DEF SessionReady, EnterReview, At, Await, Working, Busy, durable,
     daemon
<1>6. CASE TurnEnds(d) \/ CommandDone(d) \/ CaptureDone(d) \/ Decide(d) \/ ConsumeVerdict(d)
  BY <1>2, <1>6 DEF TurnEnds, CommandDone, CaptureDone, Decide, ConsumeVerdict, At, Working
<1>7. CASE EffectBegins(d)
  <2>1. drv[d].pc = "work" /\ drv' = drv /\ UNCHANGED <<wfStatus, boot>>
    BY <1>7 DEF EffectBegins, At, memory, daemon
  <2> QED
    BY <2>1, BusyWaits DEF Working, Busy
<1>8. CASE DeliveryDone(d) \/ TakeSettled(d)
  <2>1. CASE DeliveryDone(d)
    <3>1. drv[d].pc = "work" /\ drv'[d].pc = "decided" /\ boot' = boot
      BY <1>0, <2>1 DEF DeliveryDone, At, Await, daemon, Driver
    <3>2. ~Waiting' /\ boot' = "serving"
      BY <3>1, BusyNext, BusyFacts DEF Busy, Working
    <3>3. wfStatus' \in {"running", "complete"}
      BY <2>1 DEF DeliveryDone, SettleDelivery, Advance, SetRun
    <3> QED
      BY <3>2, <3>3 DEF Waits
  <2>2. CASE TakeSettled(d)
    <3>1. drv[d].pc = "decided" /\ UNCHANGED <<records, wfStatus, boot>>
      BY <2>2 DEF TakeSettled, At, durable, daemon
    <3>2. ~Waiting' /\ boot' = "serving" /\ wfStatus' # "waiting"
      BY <3>1, BusyFacts DEF Busy, Waiting, Last
    <3> QED
      BY <3>2 DEF Waits
  <2> QED
    BY <1>8, <2>1, <2>2
<1>9. CASE ParkGate(d) \/ StepPauses(d)
  <2>1. drv[d].pc \in Working /\ boot' = boot
    BY <1>9 DEF ParkGate, StepPauses, MayPause, At, Working, daemon
  <2>2. boot = "serving"
    BY <2>1, WorkingFacts
  <2>3. Waiting' /\ wfStatus' = "waiting"
    <3>1. CASE StepPauses(d)
      BY <2>1, <3>1, PauseWaits DEF StepPauses
    <3>2. CASE ParkGate(d)
      <4>1. /\ records # << >> /\ drv[d].seq = Len(records) /\ Last = records[drv[d].seq]
            /\ Last.status = "running" /\ Last.pause \in BOOLEAN
        BY <2>1, WorkingFacts DEF Attempt
      <4>2. /\ records' = Rewrite(records, Len(records), "waiting", Last.pause, "result")
            /\ wfStatus' = "waiting"
        BY <3>2, <4>1 DEF ParkGate, SetRun
      <4> QED
        BY <4>1, <4>2, RowWaits DEF Outcomes
    <3> QED
      BY <1>9, <3>1, <3>2
  <2> QED
    BY <2>1, <2>2, <2>3 DEF Waits
<1> QED
  BY <1>3, <1>4, <1>5, <1>6, <1>7, <1>8, <1>9 DEF RunStep

\* A coroutine that takes an answered wait on, without an await.
LEMMA MovesWaits ==
    ASSUME Waits, TypeOK, TypeOK', Sequential', NEW d \in Drivers, boot = "serving", boot' = boot,
           cpu' = d, drv'[d].pc \in {"resumed", "open", "complete", "loop"}
    PROVE  Waits'
<1>1. ~Waiting'
  BY BusyNext DEF Busy, Working
<1>2. Moving(d)'
  BY DEF Moving
<1> QED
  BY <1>1, <1>2 DEF Waits

LEMMA LoopWaits ==
    ASSUME TypeOK, Sequential, Waits, TypeOK', Sequential', NEW d \in Drivers,
           Open(d) \/ Loop(d) \/ Woken(d) \/ GateResumed(d) \/ RunFails(d) \/ RunCompletes(d)
    PROVE  Waits'
<1>0. drv \in [Drivers -> Driver] /\ drv[d] \in Driver
  BY DEF TypeOK, CoroutinesOK
<1>1. boot' = boot
  BY DEF Open, Loop, Woken, GateResumed, RunFails, RunCompletes, daemon
<1>2. boot = "serving" /\ Standing(d)
  BY LoneFacts DEF Open, Loop, Woken, GateResumed, RunFails, RunCompletes, At, Live
<1>3. CASE Open(d)
  <2>1. cpu' = d /\ drv'[d].pc = "loop"
    BY <1>0, <1>3 DEF Open, Proceed, Taking, Off
  <2> QED
    BY <1>1, <1>2, <2>1, MovesWaits
<1>4. CASE Loop(d)
  <2>1. CASE Pause(d)
    <3>1. Waiting' /\ wfStatus' = "waiting"
      BY <1>4, <2>1, PauseWaits DEF Loop, At, Working
    <3> QED
      BY <1>1, <1>2, <3>1 DEF Waits
  <2>2. CASE ~Pause(d)
    <3>1. wfStatus' = "running" /\ drv'[d].pc = "enter"
      BY <1>0, <1>4, <2>2 DEF Loop, SetRun, Proceed, Driver
    <3>2. ~Waiting'
      BY <3>1, BusyNext DEF Busy, Working
    <3> QED
      BY <1>1, <1>2, <3>1, <3>2 DEF Waits
  <2> QED
    BY <2>1, <2>2
<1>5. CASE Woken(d)
  <2>1. drv[d].pc = "parked" /\ drv[d].woken
    BY <1>5 DEF Woken, At
  <2>2. CASE KindOf(d) = "choice"
    <3>1. Settled(d) /\ UNCHANGED <<records, wfStatus>>
      BY <1>2, <1>5, <2>1, <2>2 DEF Standing, Woken, durable
    <3>2. records # << >> => Len(records) \in DOMAIN records
      BY LastAttempt
    <3>3. ~Waiting /\ wfStatus # "waiting"
      BY <3>1, <3>2 DEF Settled, Waiting, Closed, IsOpen, Last, OnNewest
    <3>4. ~Waiting' /\ wfStatus' # "waiting"
      BY <3>1, <3>3 DEF Waiting, Last
    <3> QED
      BY <1>1, <1>2, <3>4 DEF Waits
  <2>3. CASE KindOf(d) # "choice"
    <3>1. cpu' = d /\ drv'[d].pc = "resumed"
      BY <1>0, <1>5, <2>3 DEF Woken, Proceed, Driver
    <3> QED
      BY <1>1, <1>2, <3>1, MovesWaits
  <2> QED
    BY <2>2, <2>3
<1>6. CASE GateResumed(d)
  <2>1. /\ wfStatus' = "running"
        /\ \E dest : drv' = [drv EXCEPT ![d] = Toward(d, dest)]
    BY <1>6 DEF GateResumed, SetRun, Proceed
  <2>2. drv'[d].pc \in {"open", "complete"}
    BY <1>0, <2>1, TowardType
  <2>3. ~Waiting'
    BY <2>2, BusyNext DEF Busy
  <2> QED
    BY <1>1, <1>2, <2>1, <2>3 DEF Waits
<1>7. CASE RunFails(d) \/ RunCompletes(d)
  <2>1. /\ drv[d].pc \in {"failing", "complete"} /\ records' = records
        /\ wfStatus' \in {"failed", "complete"}
    BY <1>7 DEF RunFails, RunCompletes, At, SetRun
  <2>2. ~Waiting'
    BY <2>1, BusyFacts DEF Busy, Waiting, Last
  <2> QED
    BY <1>1, <1>2, <2>1, <2>2 DEF Waits
<1> QED
  BY <1>3, <1>4, <1>5, <1>6, <1>7

LEMMA RunDoneWaits ==
    ASSUME TypeOK, Waits, NEW d \in Drivers, RunDone(d) PROVE Waits'
<1>1. /\ drv[d].pc = "done" /\ cpu \in {d, NoDriver} /\ drv' = [drv EXCEPT ![d] = Off]
      /\ runs' \in {runs, NoDriver} /\ UNCHANGED <<records, wfStatus, boot>>
  BY DEF RunDone, At, Await, durable, daemon
<1>2. /\ drv \in [Drivers -> Driver] /\ Off.pc = "off" /\ NoDriver \notin Drivers
  BY DriversAssumption DEF TypeOK, CoroutinesOK, Off, NoDriver
<1>3. \A e \in Drivers : Live(e)' => Live(e)
  BY <1>1, <1>2 DEF Live
<1>4. LostEnding => LostEnding'
  BY <1>1, <1>3 DEF LostEnding, Last
<1>5. ASSUME NEW e \in Drivers, Moving(e) PROVE Moving(e)'
  <2>1. e # d /\ drv[e].pc = "recover"
    BY <1>1, <1>2, <1>5 DEF Moving
  <2> QED
    BY <1>1, <2>1 DEF Moving
<1>6. Waiting' <=> Waiting
  BY <1>1 DEF Waiting, Last
<1> QED
  BY <1>1, <1>4, <1>5, <1>6 DEF Waits

LEMMA RecoverWaits ==
    ASSUME TypeOK, Sequential, Waits, TypeOK', Sequential', NEW d \in Drivers, Recover(d)
    PROVE  Waits'
<1>0. drv \in [Drivers -> Driver] /\ drv[d] \in Driver
  BY DEF TypeOK, CoroutinesOK
<1>1. drv[d].pc = "recover" /\ boot' = boot
  BY DEF Recover, RecoverEmpty, RecoverWaiting, RecoverRunning, RecoverDelivery,
     RecoverFinished, At, daemon
<1>2. boot = "serving" /\ \A e \in Drivers : Live(e) => e = d
  BY <1>1, LoneFacts DEF Live
<1>3. CASE RecoverEmpty(d)
  <2>1. cpu' = d /\ drv'[d].pc \in {"open", "complete"}
    BY <1>0, <1>3, TowardType DEF RecoverEmpty, Proceed
  <2> QED
    BY <1>1, <1>2, <2>1, MovesWaits
<1>4. CASE RecoverWaiting(d)
  <2>1. Waiting /\ records' = records /\ wfStatus' = "waiting"
    BY <1>4 DEF RecoverWaiting, Waiting, SetRun, Waits
  <2>2. Waiting'
    BY <2>1 DEF Waiting, Last
  <2> QED
    BY <1>1, <1>2, <2>1, <2>2 DEF Waits
<1>5. CASE RecoverRunning(d)
  <2>1. cpu' = d /\ drv'[d].pc = "loop"
    BY <1>0, <1>5 DEF RecoverRunning, Proceed, Taking, Off
  <2> QED
    BY <1>1, <1>2, <2>1, MovesWaits
<1>6. CASE RecoverDelivery(d)
  <2>1. records # << >> /\ Last.status = "running" /\ Last.outcome \in Outcomes
    BY <1>6, LastAttempt DEF RecoverDelivery
  <2>2. CASE /\ SettleDelivery(Len(records))
             /\ Proceed(d, [drv[d] EXCEPT !.pc = "decided", !.seq = Len(records)])
    <3>1. drv'[d].pc = "decided"
      BY <1>0, <2>2 DEF Proceed, Driver
    <3>2. ~Waiting'
      BY <3>1, BusyNext DEF Busy
    <3>3. wfStatus' \in {"running", "complete"}
      BY <2>2 DEF SettleDelivery, Advance, SetRun
    <3> QED
      BY <1>1, <1>2, <3>2, <3>3 DEF Waits
  <2>3. CASE /\ records' = Rewrite(records, Len(records), "waiting", TRUE, Last.outcome)
             /\ SetRun("waiting", Last.step)
    <3>1. Waiting' /\ wfStatus' = "waiting"
      BY <2>1, <2>3, RowWaits DEF SetRun
    <3> QED
      BY <1>1, <1>2, <3>1 DEF Waits
  <2> QED
    BY <1>6, <2>2, <2>3 DEF RecoverDelivery
<1>7. CASE RecoverFinished(d)
  <2>1. records # << >> /\ Last.status \in {"ok", "failed"} /\ records' = records
    BY <1>7 DEF RecoverFinished
  <2>2. ~Waiting /\ ~Waiting'
    BY <2>1 DEF Waiting, Last
  <2>3. CASE \E dest : Proceed(d, Toward(d, dest))
    <3>1. cpu' = d /\ drv'[d].pc \in {"open", "complete"}
      BY <1>0, <2>3, TowardType DEF Proceed
    <3> QED
      BY <1>1, <1>2, <3>1, MovesWaits
  <2>4. CASE SetRun("failed", NoStep)
    BY <1>1, <1>2, <2>2, <2>4 DEF Waits, SetRun
  <2>5. CASE EndRun(d) /\ StepAfter(Last.step) \notin Steps
    <3>1. StepAfter(Last.step) = Complete
      BY <2>1, <2>5, LastAttempt, StepAfterType
    <3>2. drv'[d].pc = "done" /\ \A e \in Drivers : e # d => drv'[e] = drv[e]
      BY <1>0, <2>5 DEF EndRun, Await, Driver
    <3>3. \A e \in Drivers : ~Live(e)'
      BY <1>2, <3>2 DEF Live
    <3>4. LostEnding'
      BY <2>1, <3>1, <3>3 DEF LostEnding, Last, IsOpen
    <3> QED
      BY <1>1, <1>2, <2>2, <3>4 DEF Waits
  <2> QED
    BY <1>7, <2>3, <2>4, <2>5, Zenon DEF RecoverFinished
<1> QED
  BY <1>3, <1>4, <1>5, <1>6, <1>7 DEF Recover

LEMMA OperatorWaits ==
    ASSUME TypeOK, Sequential, Waits, TypeOK', Sequential', ~ServeDuringRecovery, Operator
    PROVE  Waits'
<1>1. boot = "serving" /\ boot' = boot
  BY DEF Operator, AnswerGate, ResumeGate, RetryStep, ContinueDelivery, OperatorMayAct, daemon
<1>2. CASE AnswerGate
  <2>1. records # << >> /\ Last.status = "waiting"
    BY <1>2 DEF AnswerGate, WaitingOn
  <2>2. PICK n, history : /\ n = Len(records)
                          /\ history = Rewrite(records, n, "ok", FALSE, Last.outcome)
    OBVIOUS
  <2>3. PICK dest \in Dests[Last.step] : Advance(n, "result", dest, history)
    BY <1>2, <2>2 DEF AnswerGate
  <2>4. dest \in Steps \cup {Complete}
    BY <1>2, <2>1, LastAttempt, DestsAssumption DEF AnswerGate, WaitingOn
  <2>5. history \in Seq(Attempt)
    BY <2>1, <2>2, LastAttempt, FinishLast DEF Amended, Statuses
  <2>6. ~Waiting' /\ wfStatus' # "waiting"
    BY <2>1, <2>2, <2>3, <2>4, <2>5, AdvanceUnwaits DEF Outcomes
  <2> QED
    BY <1>1, <2>6 DEF Waits
<1>3. CASE ResumeGate
  <2>1. Waiting /\ wfStatus = "waiting" /\ UNCHANGED <<records, wfStatus>>
    BY <1>3 DEF ResumeGate, WaitingOn, Waiting, durable
  <2>2. Waiting'
    BY <2>1 DEF Waiting, Last
  <2> QED
    BY <1>1, <2>1, <2>2 DEF Waits
<1>4. CASE RetryStep \/ ContinueDelivery
  <2>1. wfStatus' = "running" /\ \E n : Kick(Taking(n, FALSE))
    BY <1>4, Zenon DEF RetryStep, ContinueDelivery, SetRun
  <2>2. PICK d \in Drivers : \E n : drv' = [drv EXCEPT ![d] = Taking(n, FALSE)]
    BY <2>1 DEF Kick
  <2>3. drv'[d].pc = "loop"
    BY <2>2 DEF Taking, Off, TypeOK, CoroutinesOK
  <2>4. ~Waiting'
    BY <2>3, BusyNext DEF Busy, Working
  <2> QED
    BY <1>1, <2>1, <2>4 DEF Waits
<1> QED
  BY <1>2, <1>3, <1>4 DEF Operator

LEMMA DaemonWaits ==
    ASSUME TypeOK, Sequential, Waits, StartRun \/ Crash \/ Restart \/ RecoverRun
    PROVE  Waits'
<1>1. CASE StartRun
  <2>1. records' = << >> /\ wfStatus' = "running" /\ boot' = "serving"
    BY <1>1 DEF StartRun, Sequential, SetRun, daemon
  <2> QED
    BY <2>1 DEF Waits, Waiting
<1>2. CASE Crash \/ Restart
  <2>1. /\ boot' \in {"down", "recovering"} /\ runs' = NoDriver
        /\ UNCHANGED <<records, wfStatus>>
    BY <1>2 DEF Crash, Restart, durable, memory, Waits
  <2> QED
    BY <2>1 DEF Waits, Waiting, Last
<1>3. CASE RecoverRun
  <2>1. /\ boot = "recovering" /\ boot' = "serving" /\ UNCHANGED <<records, wfStatus>>
        /\ runs = NoDriver /\ snapshot = wfStatus
    BY <1>3 DEF RecoverRun, durable, Waits, Sequential
  <2>2. ASSUME wfStatus = "waiting" PROVE \E d \in Drivers : Moving(d)'
    <3>1. Kick([Off EXCEPT !.pc = "recover"])
      BY <1>3, <2>1, <2>2 DEF RecoverRun
    <3>2. PICK d \in Drivers : drv' = [drv EXCEPT ![d] = [Off EXCEPT !.pc = "recover"]]
      BY <3>1 DEF Kick
    <3>3. drv'[d].pc = "recover"
      BY <3>2 DEF Off, TypeOK, CoroutinesOK
    <3> QED
      BY <3>3 DEF Moving
  <2> QED
    BY <2>1, <2>2 DEF Waits, Waiting, Last
<1> QED
  BY <1>1, <1>2, <1>3

LEMMA WaitsKept ==
    ASSUME ~ServeDuringRecovery, RunInvariant, RunInvariant', Waits, [Next]_vars
    PROVE  Waits'
<1> USE DEF RunInvariant
<1>1. CASE StartRun \/ Crash \/ Restart \/ RecoverRun
  BY <1>1, DaemonWaits
<1>2. CASE Operator
  BY <1>2, OperatorWaits
<1>3. ASSUME NEW d \in Drivers, Execute(d) PROVE Waits'
  BY <1>3, LoopWaits, RunStepWaits, RunDoneWaits, RecoverWaits DEF Execute
<1>4. CASE UNCHANGED vars
  BY <1>4 DEF vars, durable, memory, daemon, Waits, Waiting, Last, LostEnding, Live, Moving
<1> QED
  BY <1>1, <1>2, <1>3, <1>4 DEF Next

\* Where requests wait for recovery, a run at rest shows a wait exactly when its
\* newest attempt holds one, wherever a stop fell between the commits of a
\* pause, a gate, an answer and a recovery; the lost ending is the exception.
THEOREM WaitsAreHeld ==
    ASSUME ~ServeDuringRecovery PROVE Spec => []WaitIsHeld
<1>1. Init => Waits
  BY DEF Init, Waits, Waiting
<1>2. RunInvariant /\ RunInvariant' /\ Waits /\ [Next]_vars => Waits'
  BY WaitsKept
<1>3. Waits => WaitIsHeld
  <2>1. NoDriver \notin Drivers
    BY DriversAssumption DEF NoDriver
  <2> QED
    BY <2>1 DEF Waits, WaitIsHeld, Waiting, Moving
<1> QED
  BY <1>1, <1>2, <1>3, RunInvariantHolds, PTL DEF Spec
=============================================================================
