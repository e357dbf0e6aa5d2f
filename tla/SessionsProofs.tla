----------------------------- MODULE SessionsProofs -----------------------------
(***************************************************************************)
(* One named session of a task, for any number of steps, children,         *)
(* questions, requests and restarts: no child runs on that the supervisor  *)
(* has lost, handing over a policy never interrupts an agent, what is      *)
(* recorded of a session is what it runs under, and what its card shows is *)
(* what its agent is at, once the tracker has heard all of it.             *)
(*                                                                         *)
(* The first three rest on the boundary: it is held exactly while the      *)
(* run's coroutine has a child in hand, and what that child is at is then  *)
(* known, although frames, exits, stops and questions go on.  The last     *)
(* follows the frames from the child that writes them to the tracker that  *)
(* handles them.                                                           *)
(***************************************************************************)
EXTENDS Sessions, SequenceTheorems, TLAPS

Policy == [active : Nat, aux : Nat]
Question == [id : Nat, kind : {"none", "ask", "approval"}]
Message == {"step", "operator"}

ChildRecord == [at : {"none", "starting", "live", "dead", "gone"}, policy : Policy,
                retiring : BOOLEAN, turn : {"none"} \cup Message, question : Question,
                mail : Seq(Message)]

Handing == {"checking", "changing", "retiring", "abandoning", "starting", "recovering"}

RunRecord == [at : Handing \cup {"ready", "applied", "sent", "waiting"}, step : Nat,
              child : Children \cup {0}, over : BOOLEAN,
              heard : {"none", "idle", "exited"}]

SessionTypes ==
    /\ child \in [Children -> ChildRecord] /\ registered \in Children \cup {0}
    /\ applied \in Policy /\ run \in RunRecord /\ asked \in Nat

\* The session's boundary is the run's while it has a child in hand.
BoundaryIsRuns == lock \in BOOLEAN /\ (lock <=> run.at \in Handing)

\* What the child in hand is at: registered until it is retired, nobody's
\* while it is being started.
InHand ==
    /\ run.at \in Handing \cup {"applied", "sent", "waiting"} => run.child \in Children
    /\ run.at \in {"checking", "changing"} =>
           /\ registered \in {0, run.child}
           /\ Live(run.child) => registered = run.child
    /\ run.at \in {"retiring", "abandoning", "starting", "recovering"} => registered = 0
    /\ run.at \in {"starting", "recovering"} => child[run.child].at = "starting"
    /\ run.at \in Handing \ {"recovering"} => run.step \in Steps

\* Questions are asked within turns.
QuestionInTurn == \A c \in Children : child[c].turn = "none" => child[c].question = None

\* A child found at its turn boundary stays there while the boundary is held.
AtRest == run.at = "changing" => ~Busy(run.child)

HandoffInv == /\ SessionTypes /\ BoundaryIsRuns /\ InHand /\ QuestionInTurn /\ AtRest
              /\ NoOrphan

LEMMA ChildNumbers == 0 \notin Children /\ Steps \subseteq Nat /\ 1 \in Steps
  BY SessionAssumption DEF Children, Steps

\* What a step is to run under.
LEMMA PolicyTypes == \A s \in Steps : StepPolicy[s] \in Policy
<1>1. StepPolicy \in Seq(Policy)
  BY SessionAssumption DEF Policy
<1>2. QED
  BY <1>1 DEF Steps

LEMMA NoChildType == NoChild \in ChildRecord /\ ~NoChild.retiring /\ NoChild.turn = "none" /\ NoChild.question = None
                     /\ NoChild.mail = <<>> /\ NoChild.at = "none"
                     /\ None \in Question
  BY DEF NoChild, ChildRecord, Policy, Question, None

LEMMA GoneType ==
    LET x == [NoChild EXCEPT !.at = "gone"] IN
    /\ x \in ChildRecord /\ x.at = "gone" /\ ~x.retiring
    /\ x.turn = "none" /\ x.question = None /\ x.mail = <<>>
<1>1. ASSUME NEW x \in ChildRecord
      PROVE  LET y == [x EXCEPT !.at = "gone"] IN
             /\ y \in ChildRecord /\ y.at = "gone" /\ y.retiring = x.retiring
             /\ y.turn = x.turn /\ y.question = x.question /\ y.mail = x.mail
  BY DEF ChildRecord
<1>2. QED
  BY <1>1, NoChildType

\* The run between two steps, or after its last.
LEMMA BetweenType ==
    \A s \in Nat : LET x == [Between EXCEPT !.step = s] IN
        x \in RunRecord /\ x.at = "ready" /\ x.step = s
  BY DEF Between, RunRecord, Children

\* The coroutine moves while it has nothing in hand.
LEMMA RunOutside ==
    ASSUME HandoffInv, UNCHANGED <<child, registered, lock, applied, asked>>,
           run' \in RunRecord, ~lock, run'.at \notin Handing,
           run'.at = "ready" \/ run'.child \in Children
    PROVE  HandoffInv'
<1> USE DEF HandoffInv
<1>1. SessionTypes' /\ BoundaryIsRuns' /\ QuestionInTurn' /\ AtRest'
  BY DEF SessionTypes, BoundaryIsRuns, QuestionInTurn, AtRest, Handing
<1>2. InHand'
  BY DEF InHand, Handing, RunRecord
<1>3. NoOrphan'
  BY DEF NoOrphan
<1>4. QED
  BY <1>1, <1>2, <1>3

\* What the coroutine notes of a turn or an event changes nothing it holds.
LEMMA RunNotes ==
    ASSUME HandoffInv, UNCHANGED <<child, registered, lock, applied, asked>>,
           run' \in RunRecord, run'.at = run.at, run'.child = run.child, run'.step = run.step
    PROVE  HandoffInv'
<1> USE DEF HandoffInv
<1>1. SessionTypes' /\ BoundaryIsRuns' /\ QuestionInTurn'
  BY DEF SessionTypes, BoundaryIsRuns, QuestionInTurn
<1>2. AtRest'
  BY DEF AtRest, Busy
<1>3. InHand'
  BY DEF InHand, Live
<1>4. NoOrphan'
  BY DEF NoOrphan
<1>5. QED
  BY <1>1, <1>2, <1>3, <1>4

\* A child lives on or dies; while the boundary is held none at rest begins.
LEMMA ChildMoves ==
    ASSUME HandoffInv, NEW c \in Children, NEW y \in ChildRecord,
           child' = [child EXCEPT ![c] = y],
           y.at = child[c].at \/ (child[c].at \in {"live", "dead"} /\ y.at \in {"dead", "gone"}),
           y.turn = "none" => y.question = None,
           ~lock \/ (child[c].turn = "none" /\ child[c].mail = <<>> =>
                        y.turn = "none" /\ y.mail = <<>>),
           run' \in RunRecord, run'.at = run.at, run'.child = run.child, run'.step = run.step,
           registered' = registered \/ (registered' = 0 /\ registered = c /\ y.at # "live"),
           UNCHANGED <<lock, applied>>, asked' \in Nat
    PROVE  HandoffInv'
<1> USE DEF HandoffInv
<1>0. child \in [Children -> ChildRecord] /\ \A d \in Children : d # c => child'[d] = child[d]
  BY DEF SessionTypes
<1>01. child'[c] = y
  BY <1>0
<1>1. SessionTypes'
  BY <1>0 DEF SessionTypes
<1>2. BoundaryIsRuns'
  BY DEF BoundaryIsRuns
<1>3. QuestionInTurn'
  BY <1>0, <1>01 DEF QuestionInTurn
<1>4. AtRest'
  <2> SUFFICES ASSUME run.at = "changing" PROVE child'[run.child].turn = "none" /\ child'[run.child].mail = <<>>
    BY DEF AtRest, Busy
  <2>1. lock /\ run.child \in Children /\ child[run.child].turn = "none" /\ child[run.child].mail = <<>>
    BY DEF BoundaryIsRuns, Handing, InHand, AtRest, Busy
  <2>2. QED
    BY <1>0, <1>01, <2>1
<1>5. InHand'
  <2>1. run.child \in Children => (Live(run.child)' => Live(run.child))
    BY <1>0, <1>01 DEF Live
  <2>2. run.child \in Children /\ child[run.child].at = "starting" => child'[run.child].at = "starting"
    BY <1>0, <1>01
  <2>3. run.at \in Handing \cup {"applied", "sent", "waiting"} => run.child \in Children
    BY DEF InHand
  <2>4. run.at \in {"checking", "changing"} =>
            /\ registered' \in {0, run.child}
            /\ child'[run.child].at = "live" => registered' = run.child
    <3> SUFFICES ASSUME run.at \in {"checking", "changing"}
                 PROVE  /\ registered' \in {0, run.child}
                        /\ child'[run.child].at = "live" => registered' = run.child
      OBVIOUS
    <3>1. registered \in {0, run.child} /\ run.child \in Children /\ run.child # 0
      BY ChildNumbers DEF InHand, Handing
    <3>2. registered' \in {0, run.child}
      BY <3>1
    <3>3. CASE child'[run.child].at = "live"
      BY <1>0, <1>01, <2>1, <3>1, <3>3 DEF InHand, Live
    <3>4. QED
      BY <3>2, <3>3
  <2>5. /\ run.at \in {"retiring", "abandoning", "starting", "recovering"} => registered' = 0
        /\ run.at \in {"starting", "recovering"} => child'[run.child].at = "starting"
        /\ run.at \in Handing \ {"recovering"} => run.step \in Steps
    BY <2>2, <2>3 DEF InHand, Handing
  <2>6. QED
    BY <2>3, <2>4, <2>5 DEF InHand, Live
<1>6. NoOrphan'
  BY <1>0, <1>01 DEF NoOrphan
<1>7. QED
  BY <1>1, <1>2, <1>3, <1>4, <1>5, <1>6

-----------------------------------------------------------------------------
(* The steps                                                                *)

\* The record of a child that asks, or whose question is over.
LEMMA QuestionMoves ==
    ASSUME NEW x \in ChildRecord, NEW q \in Question
    PROVE  LET y == [x EXCEPT !.question = q] IN
           /\ y \in ChildRecord
           /\ y.at = x.at /\ y.turn = x.turn /\ y.mail = x.mail /\ y.question = q
              /\ y.retiring = x.retiring
  BY DEF ChildRecord

\* Of one whose turn is over.
LEMMA TurnEnds ==
    ASSUME NEW x \in ChildRecord
    PROVE  LET y == [x EXCEPT !.turn = "none"] IN
           /\ y \in ChildRecord
           /\ y.at = x.at /\ y.turn = "none" /\ y.mail = x.mail /\ y.question = x.question
              /\ y.retiring = x.retiring
  BY DEF ChildRecord

\* Of one that has mail.
LEMMA MailArrives ==
    ASSUME NEW x \in ChildRecord, NEW m \in Seq(Message)
    PROVE  LET y == [x EXCEPT !.mail = m] IN
           /\ y \in ChildRecord
           /\ y.at = x.at /\ y.turn = x.turn /\ y.mail = m /\ y.question = x.question
              /\ y.retiring = x.retiring
  BY DEF ChildRecord

\* Of one that dies.
LEMMA ChildDies ==
    ASSUME NEW x \in ChildRecord
    PROVE  LET y == [x EXCEPT !.at = "dead"] IN
           /\ y \in ChildRecord
           /\ y.at = "dead" /\ y.turn = x.turn /\ y.mail = x.mail /\ y.question = x.question
              /\ y.retiring = x.retiring
  BY DEF ChildRecord

\* Of one that is retired.
LEMMA ChildRetires ==
    ASSUME NEW x \in ChildRecord
    PROVE  LET y == [x EXCEPT !.retiring = TRUE] IN
           /\ y \in ChildRecord
           /\ y.at = x.at /\ y.turn = x.turn /\ y.mail = x.mail /\ y.question = x.question
              /\ y.retiring /\ y.policy = x.policy
  BY DEF ChildRecord

\* Of one that is verified.
LEMMA ChildLives ==
    ASSUME NEW x \in ChildRecord, NEW p \in Policy
    PROVE  LET y == [x EXCEPT !.at = "live", !.policy = p] IN
           /\ y \in ChildRecord
           /\ y.at = "live" /\ y.turn = x.turn /\ y.mail = x.mail /\ y.question = x.question
              /\ y.retiring = x.retiring /\ y.policy = p
  BY DEF ChildRecord

\* Of one that is started.
LEMMA ChildStarts ==
    ASSUME NEW x \in ChildRecord
    PROVE  LET y == [x EXCEPT !.at = "starting"] IN
           /\ y \in ChildRecord
           /\ y.at = "starting" /\ y.turn = x.turn /\ y.mail = x.mail /\ y.question = x.question
              /\ y.retiring = x.retiring
  BY DEF ChildRecord

\* The run's notes keep its record.
LEMMA Notes ==
    ASSUME SessionTypes, NEW c \in Children, NEW e \in {"idle", "exited"},
           Over(c) \/ Hears(e) \/ run' = run
    PROVE  run' \in RunRecord /\ run'.at = run.at /\ run'.child = run.child /\ run'.step = run.step
<1>1. run \in RunRecord
  BY DEF SessionTypes
<1>2. CASE run' = run
  BY <1>1, <1>2
<1>3. CASE run' = [run EXCEPT !.over = TRUE]
  BY <1>1, <1>3 DEF RunRecord
<1>4. CASE run' = [run EXCEPT !.heard = e]
  BY <1>1, <1>4 DEF RunRecord
<1>5. QED
  BY <1>2, <1>3, <1>4 DEF Over, Hears

\* The frames and the timers.
LEMMA DaemonKeeps == HandoffInv /\ (Daemon \/ Stalls) => HandoffInv'
<1> SUFFICES ASSUME HandoffInv, Daemon \/ Stalls PROVE HandoffInv'
  OBVIOUS
<1> USE DEF durable, counters, timers
<1>0. SessionTypes /\ run \in RunRecord /\ 1 \in Children
  BY SessionAssumption DEF HandoffInv, SessionTypes, Children
<1>1. CASE HandleFrame \/ Stalls
  BY <1>0, <1>1, RunNotes, Notes DEF HandleFrame, Stalls
<1>2. CASE Acked
  <2>1. UNCHANGED <<child, registered, lock, applied, asked>>
    BY <1>2 DEF Acked
  <2>2. CASE run' = run
    BY <1>0, <2>1, <2>2, RunNotes
  <2>3. CASE run.at = "sent" /\ run' = [run EXCEPT !.at = "waiting"]
    <3>1. run' \in RunRecord /\ run'.at = "waiting" /\ run'.child = run.child
      BY <1>0, <2>3 DEF RunRecord
    <3>2. ~lock /\ run.child \in Children
      BY <2>3 DEF HandoffInv, BoundaryIsRuns, InHand, Handing
    <3>3. QED
      BY <2>1, <3>1, <3>2, RunOutside DEF Handing
  <2>4. QED
    BY <1>2, <2>2, <2>3 DEF Acked
<1>3. CASE DebounceAsks \/ DebounceHears
  <2>1. UNCHANGED <<child, registered, lock, applied, asked>> /\ (run' = run \/ Hears("idle"))
    BY <1>3 DEF DebounceAsks, DebounceHears
  <2>2. QED
    BY <1>0, <2>1, RunNotes, Notes
<1>4. CASE StepHears
  <2>1. /\ UNCHANGED <<child, registered, lock, applied, asked>> /\ run.at = "waiting"
        /\ run' = Sequel \/ run' = Failed
    BY <1>4 DEF StepHears, Unheard
  <2>2. run' \in RunRecord /\ run'.at = "ready"
    <3>1. run.step + 1 \in Nat /\ 0 \in Nat
      BY <1>0 DEF RunRecord
    <3>2. QED
      BY <2>1, <3>1, BetweenType DEF Sequel, Failed
  <2>3. ~lock
    BY <2>1 DEF HandoffInv, BoundaryIsRuns, Handing
  <2>4. QED
    BY <2>1, <2>2, <2>3, RunOutside DEF Handing
<1>5. ASSUME NEW c \in Children, ExitSeen(c) PROVE HandoffInv'
  <2>1. /\ child[c].at = "dead" /\ child' = [child EXCEPT ![c] = [NoChild EXCEPT !.at = "gone"]]
        /\ registered' = IF registered = c THEN 0 ELSE registered
        /\ UNCHANGED <<lock, applied, asked>> /\ (run' = run \/ Hears("exited"))
    BY <1>5 DEF ExitSeen
  <2>2. run' \in RunRecord /\ run'.at = run.at /\ run'.child = run.child /\ run'.step = run.step
    BY <1>0, <2>1, Notes
  <2>3. QED
    BY <1>0, <2>1, <2>2, GoneType, ChildMoves DEF SessionTypes
<1>6. QED
  BY <1>1, <1>2, <1>3, <1>4, <1>5 DEF Daemon

\* What the children do.
LEMMA AgentKeeps == HandoffInv /\ Agent => HandoffInv'
<1> SUFFICES ASSUME HandoffInv, NEW c \in Children,
                    \/ Begin(c) \/ Asks(c, "ask") \/ Asks(c, "approval") \/ Withdraws(c)
                    \/ Retries(c) \/ Ends(c) \/ Dies(c)
             PROVE  HandoffInv'
  BY DEF Agent
<1> DEFINE x == child[c]
<1>0. /\ SessionTypes /\ x \in ChildRecord /\ asked \in Nat
      /\ x.turn \in {"none"} \cup Message /\ x.question \in Question /\ x.mail \in Seq(Message)
      /\ x.turn = "none" => x.question = None
  BY DEF HandoffInv, SessionTypes, ChildRecord, QuestionInTurn
<1>1. UNCHANGED <<registered, lock, applied>> /\ x.at = "live"
  BY DEF Begin, Asks, Withdraws, Retries, Ends, Dies, ChildSteps, durable, Live
<1>2. /\ run' = run \/ Over(c)
      /\ asked' = asked \/ asked' = asked + 1
  BY DEF Begin, Asks, Withdraws, Retries, Ends, Dies, ChildSteps
<1>3. /\ run' \in RunRecord /\ run'.at = run.at /\ run'.child = run.child /\ run'.step = run.step
      /\ asked' \in Nat
  BY <1>0, <1>2, Notes
<1>4. ASSUME NEW y \in ChildRecord, child' = [child EXCEPT ![c] = y],
             y.at = x.at \/ y.at = "dead", y.turn = "none" => y.question = None,
             x.turn = "none" /\ x.mail = <<>> => y.turn = "none" /\ y.mail = <<>>
      PROVE  HandoffInv'
  BY <1>1, <1>3, <1>4, ChildMoves
<1>5. CASE Begin(c)
  <2>1. /\ x.turn = "none" /\ x.mail # <<>>
        /\ child' = [child EXCEPT ![c] = [x EXCEPT !.turn = Head(x.mail), !.mail = Tail(x.mail)]]
    BY <1>5 DEF Begin
  <2>2. PICK t \in Message, m \in Seq(Message) : t = Head(x.mail) /\ m = Tail(x.mail)
    <3>1. Head(x.mail) \in Message /\ Tail(x.mail) \in Seq(Message)
      BY <1>0, <2>1
    <3>2. QED
      BY <3>1, Zenon
  <2>3. child' = [child EXCEPT ![c] = [x EXCEPT !.turn = t, !.mail = m]]
    BY <2>1, <2>2
  <2>4. LET y == [x EXCEPT !.turn = t, !.mail = m] IN
        y \in ChildRecord /\ y.at = x.at /\ y.turn = t
    <3>1. \A r \in ChildRecord : LET y == [r EXCEPT !.turn = t, !.mail = m] IN
              y \in ChildRecord /\ y.at = r.at /\ y.turn = t
      BY <2>2 DEF ChildRecord
    <3>2. QED
      BY <1>0, <3>1, Zenon
  <2>5. t # "none" /\ x.mail # <<>>
    BY <2>1, <2>2 DEF Message
  <2>6. QED
    BY <1>4, <2>3, <2>4, <2>5
<1>6. CASE Asks(c, "ask") \/ Asks(c, "approval")
  <2>1. PICK kind \in {"ask", "approval"} : Asks(c, kind)
    BY <1>6
  <2>2. LET y == [x EXCEPT !.question = [id |-> asked + 1, kind |-> kind]] IN
        x.turn # "none" /\ child' = [child EXCEPT ![c] = y]
    BY <2>1 DEF Asks
  <2>3. [id |-> asked + 1, kind |-> kind] \in Question
    BY <1>0 DEF Question
  <2>4. LET y == [x EXCEPT !.question = [id |-> asked + 1, kind |-> kind]] IN
        y \in ChildRecord /\ y.at = x.at /\ y.turn = x.turn /\ y.mail = x.mail
    BY <1>0, <2>3, QuestionMoves
  <2>5. QED
    BY <1>4, <2>2, <2>4
<1>7. CASE Withdraws(c)
  <2>1. child' = [child EXCEPT ![c] = [x EXCEPT !.question = None]]
    BY <1>7 DEF Withdraws
  <2>2. LET y == [x EXCEPT !.question = None] IN
        y \in ChildRecord /\ y.at = x.at /\ y.turn = x.turn /\ y.mail = x.mail /\ y.question = None
    BY <1>0, QuestionMoves, NoChildType
  <2>3. QED
    BY <1>4, <2>1, <2>2
<1>8. CASE Retries(c)
  BY <1>0, <1>1, <1>3, <1>8, RunNotes DEF Retries
<1>9. CASE Ends(c)
  <2>1. x.question = None /\ child' = [child EXCEPT ![c] = [x EXCEPT !.turn = "none"]]
    BY <1>9 DEF Ends
  <2>2. LET y == [x EXCEPT !.turn = "none"] IN
        y \in ChildRecord /\ y.at = x.at /\ y.turn = "none" /\ y.mail = x.mail /\ y.question = x.question
    BY <1>0, TurnEnds
  <2>3. QED
    BY <1>4, <2>1, <2>2
<1>10. CASE Dies(c)
  <2>1. child' = [child EXCEPT ![c] = [x EXCEPT !.at = "dead"]]
    BY <1>10 DEF Dies
  <2>2. LET y == [x EXCEPT !.at = "dead"] IN
        y \in ChildRecord /\ y.at = "dead" /\ y.turn = x.turn /\ y.mail = x.mail /\ y.question = x.question
    BY <1>0, ChildDies
  <2>3. QED
    BY <1>0, <1>4, <2>1, <2>2
<1>11. QED
  BY <1>5, <1>6, <1>7, <1>8, <1>9, <1>10

\* What the operator does: messages reach a child only while nobody holds the
\* boundary; a stop reaches it always.
LEMMA OperatorKeeps == HandoffInv /\ Operator => HandoffInv'
<1> SUFFICES ASSUME HandoffInv, Operator PROVE HandoffInv'
  OBVIOUS
<1> DEFINE c == registered
           x == child[c]
<1>0. SessionTypes /\ Live(registered) /\ UNCHANGED <<registered, lock, applied, asked>>
  BY DEF HandoffInv, Operator, FollowUp, Interrupt, Answer, Stop, Operates, Acquires, durable
<1>1. /\ c \in Children /\ x \in ChildRecord /\ x.at = "live"
      /\ x.mail \in Seq(Message) /\ x.question \in Question /\ run \in RunRecord /\ asked' \in Nat
      /\ x.turn = "none" => x.question = None
  BY <1>0 DEF SessionTypes, Live, ChildRecord, HandoffInv, QuestionInTurn
<1>2. run' = run \/ Over(c)
  BY DEF Operator, FollowUp, Interrupt, Answer, Stop
<1>3. run' \in RunRecord /\ run'.at = run.at /\ run'.child = run.child /\ run'.step = run.step
  BY <1>0, <1>1, <1>2, Notes
<1>4. CASE FollowUp
  <2>1. ~lock /\ child' = [child EXCEPT ![c] = [x EXCEPT !.mail = Append(x.mail, "operator")]]
    BY <1>4 DEF FollowUp, Acquires
  <2>2. Append(x.mail, "operator") \in Seq(Message)
    BY <1>1 DEF Message
  <2>3. LET y == [x EXCEPT !.mail = Append(x.mail, "operator")] IN
        y \in ChildRecord /\ y.at = x.at /\ y.turn = x.turn /\ y.question = x.question
    BY <1>1, <2>2, MailArrives
  <2>4. QED
    BY <1>0, <1>1, <1>3, <2>1, <2>3, ChildMoves
<1>5. CASE Interrupt
  <2>1. /\ ~lock
        /\ child' = [child EXCEPT ![c] = [x EXCEPT !.turn = "none", !.question = None,
                                                   !.mail = <<"operator">> \o x.mail]]
    BY <1>5 DEF Interrupt, Acquires
  <2>2. PICK m \in Seq(Message) : m = <<"operator">> \o x.mail
    <3>1. <<"operator">> \o x.mail \in Seq(Message)
      BY <1>1 DEF Message
    <3>2. QED
      BY <3>1, Zenon
  <2>3. None \in Question
    BY NoChildType
  <2>4. child' = [child EXCEPT ![c] = [x EXCEPT !.turn = "none", !.question = None, !.mail = m]]
    BY <2>1, <2>2
  <2>5. LET y == [x EXCEPT !.turn = "none", !.question = None, !.mail = m] IN
        y \in ChildRecord /\ y.at = x.at /\ y.question = None
    <3>1. \A r \in ChildRecord :
              LET y == [r EXCEPT !.turn = "none", !.question = None, !.mail = m] IN
              y \in ChildRecord /\ y.at = r.at /\ y.question = None
      BY <2>2, <2>3 DEF ChildRecord
    <3>2. QED
      BY <1>1, <3>1, Zenon
  <2>6. QED
    BY <1>0, <1>1, <1>3, <2>1, <2>4, <2>5, ChildMoves
<1>6. CASE Answer
  <2>1. CASE child' = child
    BY <1>0, <1>3, <2>1, RunNotes
  <2>2. CASE child' = [child EXCEPT ![c] = [x EXCEPT !.question = None]]
    <3>1. LET y == [x EXCEPT !.question = None] IN
          y \in ChildRecord /\ y.at = x.at /\ y.turn = x.turn /\ y.mail = x.mail /\ y.question = None
      BY <1>1, QuestionMoves, NoChildType
    <3>2. QED
      BY <1>0, <1>1, <1>3, <2>2, <3>1, ChildMoves
  <2>3. QED
    BY <1>6, <2>1, <2>2 DEF Answer
<1>7. CASE Stop
  <2>1. child' = [child EXCEPT ![c] = [x EXCEPT !.at = "dead"]]
    BY <1>7 DEF Stop
  <2>2. LET y == [x EXCEPT !.at = "dead"] IN
        y \in ChildRecord /\ y.at = "dead" /\ y.turn = x.turn /\ y.mail = x.mail /\ y.question = x.question
    BY <1>1, ChildDies
  <2>3. QED
    BY <1>0, <1>1, <1>3, <2>1, <2>2, ChildMoves
<1>8. QED
  BY <1>4, <1>5, <1>6, <1>7 DEF Operator

\* The boundary is given back: every live child is the registered one.
LEMMA Releases ==
    ASSUME HandoffInv, lock' = FALSE, run' \in RunRecord,
           run'.at = "ready" \/ (run'.at = "applied" /\ run'.child \in Children),
           child' \in [Children -> ChildRecord], registered' \in Children \cup {0},
           applied' \in Policy, asked' = asked, QuestionInTurn',
           \A d \in Children : child'[d].at = "live" => d = registered'
    PROVE  HandoffInv'
<1> USE DEF HandoffInv
<1>1. SessionTypes' /\ BoundaryIsRuns' /\ AtRest'
  BY DEF SessionTypes, BoundaryIsRuns, AtRest, Handing
<1>2. InHand'
  BY DEF InHand, Handing
<1>3. NoOrphan'
  BY DEF NoOrphan
<1>4. QED
  BY <1>1, <1>2, <1>3

\* A child is started while no other lives.
LEMMA StartsOne ==
    ASSUME HandoffInv, NEW resumed \in BOOLEAN, Starts(resumed), run.step \in Steps,
           registered = 0, \A d \in Children : child[d].at # "live",
           lock' = TRUE, UNCHANGED <<registered, applied, asked>>
    PROVE  HandoffInv'
<1> USE DEF HandoffInv
<1>1. PICK c \in Children :
          /\ child' = [child EXCEPT ![c] = [child[c] EXCEPT !.at = "starting"]]
          /\ run' = [run EXCEPT !.at = "starting", !.child = c]
  BY DEF Starts
<1>2. /\ [child[c] EXCEPT !.at = "starting"] \in ChildRecord
      /\ [child[c] EXCEPT !.at = "starting"].at = "starting"
      /\ [child[c] EXCEPT !.at = "starting"].turn = child[c].turn
      /\ [child[c] EXCEPT !.at = "starting"].question = child[c].question
  BY ChildStarts DEF SessionTypes
<1>3. /\ child' \in [Children -> ChildRecord] /\ child'[c].at = "starting"
      /\ child'[c].turn = child[c].turn /\ child'[c].question = child[c].question
      /\ \A d \in Children : d # c => child'[d] = child[d]
  BY <1>1, <1>2 DEF SessionTypes
<1>4. run' \in RunRecord /\ run'.at = "starting" /\ run'.child = c /\ run'.step = run.step
  BY <1>1 DEF SessionTypes, RunRecord, Handing
<1>5. SessionTypes' /\ BoundaryIsRuns' /\ AtRest'
  BY <1>3, <1>4 DEF SessionTypes, BoundaryIsRuns, AtRest, Handing
<1>6. QuestionInTurn'
  BY <1>3 DEF QuestionInTurn
<1>7. InHand'
  BY <1>3, <1>4 DEF InHand, Handing
<1>8. NoOrphan'
  BY <1>3 DEF NoOrphan
<1>9. QED
  BY <1>5, <1>6, <1>7, <1>8

\* The child in hand is taken out of service, under the boundary.
LEMMA RetiresOne ==
    ASSUME HandoffInv, run.at = "changing", NEW y \in ChildRecord,
           child' = [child EXCEPT ![run.child] = y],
           y.turn = child[run.child].turn, y.question = child[run.child].question,
           registered' = IF registered = run.child THEN 0 ELSE registered,
           run' \in RunRecord, run'.at \in {"retiring", "abandoning"},
           run'.child = run.child, run'.step = run.step, UNCHANGED <<lock, applied, asked>>
    PROVE  HandoffInv'
<1> USE DEF HandoffInv
<1>1. lock /\ run.child \in Children /\ registered \in {0, run.child} /\ run.step \in Steps
  BY DEF BoundaryIsRuns, InHand, Handing
<1>2. /\ child' \in [Children -> ChildRecord] /\ child'[run.child] = y
      /\ \A d \in Children : d # run.child => child'[d] = child[d]
  BY <1>1 DEF SessionTypes
<1>3. registered' = 0
  BY <1>1
<1>4. SessionTypes' /\ BoundaryIsRuns' /\ AtRest'
  BY <1>1, <1>2, <1>3 DEF SessionTypes, BoundaryIsRuns, AtRest, Handing
<1>5. QuestionInTurn'
  BY <1>1, <1>2 DEF QuestionInTurn
<1>6. InHand'
  BY <1>1, <1>3 DEF InHand, Handing
<1>7. NoOrphan'
  BY <1>1, <1>2, ChildNumbers DEF NoOrphan
<1>8. QED
  BY <1>4, <1>5, <1>6, <1>7

\* With nothing registered, only the child in hand can live.
LEMMA AloneInHand ==
    HandoffInv /\ registered = 0 /\ run.at \in Handing
        => \A d \in Children : child[d].at = "live" => d = run.child
  BY ChildNumbers DEF HandoffInv, NoOrphan

\* Handing the step's policy to the session.
LEMMA EnteringKeeps == HandoffInv /\ Entering => HandoffInv'
<1> SUFFICES ASSUME HandoffInv, Entering PROVE HandoffInv'
  OBVIOUS
<1>0. /\ SessionTypes /\ BoundaryIsRuns /\ InHand /\ QuestionInTurn /\ NoOrphan
      /\ run \in RunRecord /\ child \in [Children -> ChildRecord]
      /\ registered \in Children \cup {0} /\ applied \in Policy /\ run.step \in Nat
  BY DEF HandoffInv, SessionTypes, RunRecord
<1>01. Failed \in RunRecord /\ Failed.at = "ready"
  BY BetweenType DEF Failed
<1>02. LET x == [Between EXCEPT !.step = run.step] IN x \in RunRecord /\ x.at = "ready"
  BY <1>0, BetweenType
<1>03. QuestionInTurn' <=> \A c \in Children : child'[c].turn = "none" => child'[c].question = None
  BY DEF QuestionInTurn
<1>1. CASE Enter
  <2>1. /\ run.at = "ready" /\ run.step \in Steps /\ ~lock
        /\ UNCHANGED <<registered, applied, asked>>
    BY <1>1 DEF Enter, Unheard, counters
  <2>2. CASE Live(registered) /\ lock' = TRUE /\ child' = child
             /\ run' = [run EXCEPT !.at = "checking", !.child = registered]
    <3>1. /\ run' \in RunRecord /\ run'.at = "checking" /\ run'.child = registered
          /\ run'.step = run.step /\ registered \in Children
      BY <1>0, <2>2 DEF RunRecord, Live, Handing
    <3>2. SessionTypes' /\ BoundaryIsRuns' /\ QuestionInTurn' /\ AtRest'
      BY <1>0, <2>1, <2>2, <3>1 DEF SessionTypes, BoundaryIsRuns, QuestionInTurn, AtRest, Handing
    <3>3. InHand'
      BY <2>1, <3>1 DEF InHand, Handing
    <3>4. NoOrphan'
      BY <1>0, <2>1, <2>2 DEF NoOrphan
    <3>5. QED
      BY <3>2, <3>3, <3>4 DEF HandoffInv
  <2>3. CASE registered = 0 /\ lock' = TRUE /\ Starts(FALSE)
    <3>1. \A d \in Children : child[d].at # "live"
      BY <1>0, <2>1, <2>3, ChildNumbers DEF NoOrphan
    <3>2. QED
      BY <2>1, <2>3, <3>1, StartsOne
  <2>4. CASE Refused /\ child' = child
    <3>1. \A d \in Children : child'[d].at = "live" => d = registered'
      BY <1>0, <2>1, <2>4 DEF NoOrphan
    <3>2. QED
      BY <1>0, <1>01, <2>1, <2>4, <3>1, Releases DEF Refused, QuestionInTurn
  <2>5. QED
    BY <1>1, <2>2, <2>3, <2>4 DEF Enter
<1>2. CASE NotAtBoundary
  <2>1. /\ run.at = "checking" /\ Refused
        /\ UNCHANGED <<child, registered, applied, asked>>
    BY <1>2 DEF NotAtBoundary, Unheard, counters
  <2>2. \A d \in Children : child'[d].at = "live" => d = registered'
    BY <1>0, <2>1, ChildNumbers DEF NoOrphan, InHand, Live
  <2>3. QED
    BY <1>0, <1>01, <2>1, <2>2, Releases DEF Refused, QuestionInTurn
<1>3. CASE AtBoundary
  <2>1. /\ run.at = "checking" /\ ~Busy(run.child) /\ run' = [run EXCEPT !.at = "changing"]
        /\ UNCHANGED <<child, registered, lock, applied, asked>>
    BY <1>3 DEF AtBoundary, Unheard, counters
  <2>2. run' \in RunRecord /\ run'.at = "changing" /\ run'.child = run.child /\ run'.step = run.step
    BY <1>0, <2>1 DEF RunRecord, Handing
  <2>3. SessionTypes' /\ BoundaryIsRuns' /\ QuestionInTurn' /\ NoOrphan'
    BY <1>0, <2>1, <2>2 DEF SessionTypes, BoundaryIsRuns, QuestionInTurn, NoOrphan, Handing
  <2>4. AtRest'
    BY <2>1, <2>2 DEF AtRest, Busy
  <2>5. InHand'
    BY <1>0, <2>1, <2>2 DEF InHand, Handing, Live
  <2>6. QED
    BY <2>3, <2>4, <2>5 DEF HandoffInv
<1>4. CASE Reconfigure
  <2> DEFINE x == child[run.child]
             y == [x EXCEPT !.policy.active = Wanted.active]
  <2>1. /\ run.at = "changing" /\ Live(run.child) /\ child' = [child EXCEPT ![run.child] = y]
        /\ applied' = Wanted /\ run' = [run EXCEPT !.at = "applied"] /\ lock' = FALSE
        /\ UNCHANGED <<registered, asked>>
    BY <1>4 DEF Reconfigure, counters
  <2>2. run.child \in Children /\ run.step \in Steps /\ registered = run.child
    BY <1>0, <2>1 DEF InHand, Handing
  <2>3. run' \in RunRecord /\ run'.at = "applied" /\ run'.child = run.child
    BY <1>0, <2>1 DEF RunRecord
  <2>4. x \in ChildRecord /\ Wanted \in Policy
    BY <1>0, <2>2, PolicyTypes DEF Wanted
  <2>5. y \in ChildRecord /\ y.turn = x.turn /\ y.question = x.question
    <3>1. \A r \in ChildRecord, p \in Policy : LET z == [r EXCEPT !.policy.active = p.active] IN
              z \in ChildRecord /\ z.turn = r.turn /\ z.question = r.question
      BY DEF ChildRecord, Policy
    <3>2. QED
      BY <2>4, <3>1
  <2> HIDE DEF y
  <2>6. child' \in [Children -> ChildRecord] /\ QuestionInTurn'
    BY <1>0, <2>1, <2>2, <2>5 DEF QuestionInTurn
  <2>7. \A d \in Children : child'[d].at = "live" => d = registered'
    BY <1>0, <2>1, <2>2 DEF NoOrphan
  <2>8. QED
    BY <1>0, <2>1, <2>2, <2>3, <2>4, <2>6, <2>7, Releases
<1>5. CASE ReconfigureFails
  <2> DEFINE x == child[run.child]
             y == [x EXCEPT !.policy.active = 0, !.retiring = TRUE]
  <2>1. /\ run.at = "changing" /\ child' = [child EXCEPT ![run.child] = y]
        /\ registered' = IF registered = run.child THEN 0 ELSE registered
        /\ run' = [run EXCEPT !.at = "abandoning"] /\ UNCHANGED <<lock, applied, asked>>
    BY <1>5 DEF ReconfigureFails, GiveUp, Unheard, counters
  <2>2. run.child \in Children
    BY <1>0, <2>1 DEF InHand, Handing
  <2>3. /\ run' \in RunRecord /\ run'.at = "abandoning" /\ run'.child = run.child
        /\ run'.step = run.step
    BY <1>0, <2>1 DEF RunRecord, Handing
  <2>4. \A r \in ChildRecord : LET z == [r EXCEPT !.policy.active = 0, !.retiring = TRUE] IN
            z \in ChildRecord /\ z.turn = r.turn /\ z.question = r.question
    BY DEF ChildRecord, Policy
  <2>5. y \in ChildRecord /\ y.turn = x.turn /\ y.question = x.question
    BY <1>0, <2>2, <2>4
  <2> HIDE DEF y
  <2>6. QED
    BY <2>1, <2>3, <2>5, RetiresOne
<1>6. CASE Replace
  <2> DEFINE x == child[run.child]
             y == [x EXCEPT !.retiring = TRUE]
  <2>1. /\ run.at = "changing" /\ child' = [child EXCEPT ![run.child] = y]
        /\ registered' = IF registered = run.child THEN 0 ELSE registered
        /\ run' = [run EXCEPT !.at = "retiring"] /\ UNCHANGED <<lock, applied, asked>>
    BY <1>6 DEF Replace, Retire, Unheard, counters
  <2>2. run.child \in Children
    BY <1>0, <2>1 DEF InHand, Handing
  <2>3. /\ run' \in RunRecord /\ run'.at = "retiring" /\ run'.child = run.child
        /\ run'.step = run.step
    BY <1>0, <2>1 DEF RunRecord, Handing
  <2>4. y \in ChildRecord /\ y.turn = x.turn /\ y.question = x.question
    BY <1>0, <2>2, ChildRetires
  <2> HIDE DEF y
  <2>5. QED
    BY <2>1, <2>3, <2>4, RetiresOne
<1>7. CASE Retired
  <2>1. /\ run.at \in {"retiring", "abandoning"} /\ child[run.child].at = "gone"
        /\ UNCHANGED <<registered, applied, asked>>
    BY <1>7 DEF Retired, Unheard, counters
  <2>2. /\ registered = 0 /\ lock /\ run.step \in Steps
        /\ \A d \in Children : child[d].at # "live"
    BY <1>0, <2>1, AloneInHand DEF InHand, BoundaryIsRuns, Handing
  <2>3. CASE Starts(TRUE) /\ lock' = lock
    BY <1>0, <2>1, <2>2, <2>3, StartsOne DEF BoundaryIsRuns
  <2>4. CASE Refused /\ child' = child
    BY <1>0, <1>01, <2>1, <2>2, <2>4, Releases DEF Refused, QuestionInTurn
  <2>5. QED
    BY <1>7, <2>3, <2>4 DEF Retired
<1>8. CASE Started
  <2> DEFINE x == child[run.child]
             y == [x EXCEPT !.at = "live", !.policy = Verified]
  <2>1. /\ run.at \in {"starting", "recovering"} /\ child' = [child EXCEPT ![run.child] = y]
        /\ applied' = Verified /\ registered' = run.child /\ lock' = FALSE /\ asked' = asked
        /\ run' = IF run.at = "starting" THEN [run EXCEPT !.at = "applied"]
                                         ELSE [Between EXCEPT !.step = run.step]
    BY <1>8 DEF Started, counters
  <2>2. /\ run.child \in Children /\ registered = 0
        /\ run.at = "starting" => run.step \in Steps
        /\ \A d \in Children : child[d].at = "live" => d = run.child
    BY <1>0, <2>1, AloneInHand DEF InHand, Handing
  <2>3. /\ run' \in RunRecord
        /\ run'.at = "ready" \/ (run'.at = "applied" /\ run'.child \in Children)
    <3>1. [run EXCEPT !.at = "applied"] \in RunRecord
      BY <1>0 DEF RunRecord
    <3>2. [run EXCEPT !.at = "applied"].at = "applied" /\ [run EXCEPT !.at = "applied"].child = run.child
      BY <1>0 DEF RunRecord
    <3>3. QED
      BY <1>02, <2>1, <2>2, <3>1, <3>2
  <2>4. x \in ChildRecord /\ Verified \in Policy
    BY <1>0, <2>1, <2>2, PolicyTypes DEF Wanted, Verified
  <2>5. y \in ChildRecord /\ y.turn = x.turn /\ y.question = x.question
    BY <2>4, ChildLives
  <2> HIDE DEF y
  <2>6. child' \in [Children -> ChildRecord] /\ QuestionInTurn'
    BY <1>0, <2>1, <2>2, <2>5 DEF QuestionInTurn
  <2>7. \A d \in Children : child'[d].at = "live" => d = registered'
    BY <1>0, <2>1, <2>2
  <2>8. registered' \in Children \cup {0} /\ applied' \in Policy
    BY <2>1, <2>2, <2>4
  <2>9. QED
    BY <2>1, <2>3, <2>6, <2>7, <2>8, Releases
<1>9. CASE StartFails
  <2> DEFINE y == [NoChild EXCEPT !.at = "gone"]
  <2>1. /\ run.at \in {"starting", "recovering"} /\ child' = [child EXCEPT ![run.child] = y]
        /\ lock' = FALSE /\ UNCHANGED <<registered, applied, asked>>
        /\ run' = IF run.at = "starting" THEN Failed ELSE [Between EXCEPT !.step = run.step]
    BY <1>9 DEF StartFails, Abandons, Unheard, counters
  <2>2. /\ run.child \in Children /\ registered = 0
        /\ \A d \in Children : child[d].at = "live" => d = run.child
    BY <1>0, <2>1, AloneInHand DEF InHand, Handing
  <2>3. run' \in RunRecord /\ run'.at = "ready"
    BY <1>01, <1>02, <2>1
  <2>4. y \in ChildRecord /\ y.at = "gone" /\ y.question = None
    BY GoneType
  <2> HIDE DEF y
  <2>5. child' \in [Children -> ChildRecord] /\ QuestionInTurn'
    BY <1>0, <2>1, <2>2, <2>4 DEF QuestionInTurn
  <2>6. \A d \in Children : child'[d].at = "live" => d = registered'
    BY <1>0, <2>1, <2>2, <2>4
  <2>7. QED
    BY <1>0, <2>1, <2>3, <2>5, <2>6, Releases
<1>10. QED
  BY <1>1, <1>2, <1>3, <1>4, <1>5, <1>6, <1>7, <1>8, <1>9 DEF Entering

\* Driving the session: the prompt goes to a child whose boundary is free.
LEMMA DrivingKeeps == HandoffInv /\ Driving => HandoffInv'
<1> SUFFICES ASSUME HandoffInv, Driving PROVE HandoffInv'
  OBVIOUS
<1>0. /\ SessionTypes /\ run \in RunRecord /\ run.step \in Nat
      /\ child \in [Children -> ChildRecord]
  BY DEF HandoffInv, SessionTypes, RunRecord
<1>1. /\ run.at \in {"applied", "sent"} /\ ~lock /\ run.child \in Children
      /\ UNCHANGED <<registered, lock, applied, asked>>
  BY DEF Driving, Skip, Prompt, PromptFails, Unheard, counters,
         HandoffInv, BoundaryIsRuns, InHand, Handing
<1>2. CASE Skip
  <2>1. run' = Sequel /\ child' = child
    BY <1>2 DEF Skip
  <2>2. Sequel \in RunRecord /\ Sequel.at = "ready"
    <3>1. run.step + 1 \in Nat
      BY <1>0
    <3>2. QED
      BY <3>1, BetweenType DEF Sequel
  <2>3. QED
    BY <1>1, <2>1, <2>2, RunOutside DEF Handing
<1>3. CASE Prompt
  <2> DEFINE x == child[run.child]
             y == [x EXCEPT !.mail = Append(x.mail, "step")]
  <2>1. child' = [child EXCEPT ![run.child] = y] /\ run' = [run EXCEPT !.at = "sent"]
    BY <1>3 DEF Prompt
  <2>2. /\ run' \in RunRecord /\ run'.at = "sent" /\ run'.child = run.child
        /\ run'.step = run.step
    BY <1>0, <2>1 DEF RunRecord
  <2>3. x \in ChildRecord /\ x.mail \in Seq(Message) /\ "step" \in Message
    BY <1>0, <1>1 DEF ChildRecord, Message
  <2>4. Append(x.mail, "step") \in Seq(Message)
    BY <2>3
  <2>5. y \in ChildRecord /\ y.at = x.at /\ y.turn = x.turn /\ y.question = x.question
    BY <2>3, <2>4, MailArrives
  <2> HIDE DEF y
  <2>6. child' \in [Children -> ChildRecord] /\ QuestionInTurn'
    BY <1>0, <1>1, <2>1, <2>5 DEF QuestionInTurn, HandoffInv
  <2>7. SessionTypes' /\ BoundaryIsRuns' /\ AtRest'
    BY <1>0, <1>1, <2>2, <2>6 DEF SessionTypes, BoundaryIsRuns, AtRest, Handing, HandoffInv
  <2>8. InHand'
    BY <1>1, <2>2 DEF InHand, Handing
  <2>9. NoOrphan'
    BY <1>0, <1>1, <2>1, <2>5 DEF NoOrphan, HandoffInv
  <2>10. QED
    BY <2>6, <2>7, <2>8, <2>9 DEF HandoffInv
<1>4. CASE PromptFails
  <2>1. run' = Failed /\ child' = child
    BY <1>4 DEF PromptFails
  <2>2. Failed \in RunRecord /\ Failed.at = "ready"
    BY BetweenType DEF Failed
  <2>3. QED
    BY <1>1, <2>1, <2>2, RunOutside DEF Handing
<1>5. QED
  BY <1>2, <1>3, <1>4 DEF Driving

\* After a restart no child is left but the one recovery starts.
LEMMA RestartKeeps == HandoffInv /\ Restart => HandoffInv'
<1> SUFFICES ASSUME HandoffInv, Restart PROVE HandoffInv'
  OBVIOUS
<1> DEFINE gone == [c \in Children |-> IF child[c].at = "none" THEN NoChild
                                       ELSE [NoChild EXCEPT !.at = "gone"]]
           between == [Between EXCEPT !.step = run.step]
<1>0. /\ SessionTypes /\ run.step \in Nat /\ registered' = 0
      /\ UNCHANGED <<applied, asked>>
  BY DEF HandoffInv, SessionTypes, RunRecord, Restart, durable
<1>1. gone \in [Children -> ChildRecord]
  BY NoChildType, GoneType
<1>2. \A c \in Children : gone[c].at \in {"none", "gone"} /\ gone[c].question = None
  BY NoChildType, GoneType
<1>3. between \in RunRecord /\ between.at = "ready" /\ between.step = run.step
  BY <1>0, BetweenType
<1>4. CASE child' = gone /\ run' = between /\ lock' = FALSE
  <2> HIDE DEF gone, between
  <2>1. QuestionInTurn' /\ \A d \in Children : child'[d].at = "live" => d = registered'
    BY <1>2, <1>4 DEF QuestionInTurn
  <2>2. applied' \in Policy
    BY <1>0 DEF SessionTypes
  <2>3. QED
    BY <1>0, <1>1, <1>3, <1>4, <2>1, <2>2, Releases
<1>5. ASSUME NEW c \in Children, gone[c].at = "none", lock' = TRUE,
             child' = [gone EXCEPT ![c] = [gone[c] EXCEPT !.at = "starting"]],
             run' = [Between EXCEPT !.at = "recovering", !.step = run.step, !.child = c]
      PROVE  HandoffInv'
  <2>1. /\ run' \in RunRecord /\ run'.at = "recovering" /\ run'.child = c
        /\ run'.step = run.step
    BY <1>0, <1>5 DEF Between, RunRecord, Handing
  <2> DEFINE y == [gone[c] EXCEPT !.at = "starting"]
  <2>2. y \in ChildRecord /\ y.at = "starting" /\ y.question = None
    BY <1>1, <1>2, ChildStarts
  <2>3. child' = [gone EXCEPT ![c] = y]
    BY <1>5
  <2> HIDE DEF gone, between, y
  <2>4. /\ child' \in [Children -> ChildRecord] /\ child'[c].at = "starting"
        /\ \A d \in Children : child'[d].question = None /\ child'[d].at # "live"
    BY <1>1, <1>2, <2>2, <2>3
  <2>5. SessionTypes' /\ BoundaryIsRuns' /\ AtRest'
    BY <1>0, <1>5, <2>1, <2>4 DEF SessionTypes, BoundaryIsRuns, AtRest, Handing
  <2>6. QuestionInTurn'
    BY <2>4 DEF QuestionInTurn
  <2>7. InHand'
    BY <1>0, <2>1, <2>4 DEF InHand, Handing
  <2>8. NoOrphan'
    BY <2>4 DEF NoOrphan
  <2>9. QED
    BY <2>5, <2>6, <2>7, <2>8 DEF HandoffInv
<1>6. QED
  BY <1>4, <1>5 DEF Restart

-----------------------------------------------------------------------------
(* The theorems                                                             *)

LEMMA HandoffInit == Init => HandoffInv
<1> SUFFICES ASSUME Init PROVE HandoffInv
  OBVIOUS
<1>1. /\ child = [c \in Children |-> NoChild] /\ registered = 0 /\ lock = FALSE
      /\ applied = [active |-> 0, aux |-> 0] /\ run = Between /\ asked = 0
  BY DEF Init
<1>2. \A c \in Children : child[c] \in ChildRecord /\ child[c].question = None
                          /\ child[c].at = "none"
  BY <1>1, NoChildType
<1>3. Between \in RunRecord /\ Between.at = "ready"
  BY DEF Between, RunRecord
<1>4. SessionTypes
  BY <1>1, <1>2, <1>3 DEF SessionTypes, Policy
<1>5. BoundaryIsRuns /\ AtRest
  BY <1>1, <1>3 DEF BoundaryIsRuns, AtRest, Handing
<1>6. InHand
  BY <1>1, <1>3 DEF InHand, Handing
<1>7. QuestionInTurn /\ NoOrphan
  BY <1>2 DEF QuestionInTurn, NoOrphan
<1>8. QED
  BY <1>4, <1>5, <1>6, <1>7 DEF HandoffInv

LEMMA HandoffKept == HandoffInv /\ [Next]_vars => HandoffInv'
<1>1. HandoffInv /\ UNCHANGED vars => HandoffInv'
  BY DEF HandoffInv, vars, SessionTypes, BoundaryIsRuns, InHand, QuestionInTurn, AtRest,
         NoOrphan, Busy, Live
<1>2. QED
  BY <1>1, DaemonKeeps, AgentKeeps, OperatorKeeps, EnteringKeeps, DrivingKeeps, RestartKeeps
     DEF Next

\* However frames, exits, stops, questions and restarts fall between the steps
\* of a handoff (`_ensure_session`, `_replace_for_policy`, `_start_locked`), no
\* child of the session runs on that the supervisor does not know: it is the
\* registered one, or the handoff that holds the boundary has it in hand.
THEOREM NoChildIsLost == Spec => []NoOrphan
<1>1. HandoffInv => NoOrphan
  BY DEF HandoffInv
<1>2. QED
  BY <1>1, HandoffInit, HandoffKept, PTL DEF Spec

\* Nobody but a handoff marks a child as being retired, makes it live, or
\* moves its policy.
LEMMA OthersLeaveIt ==
    ASSUME HandoffInv, Next, ~ReconfigureFails, ~Replace, NEW d \in Children
    PROVE  /\ child'[d].retiring => child[d].retiring
           /\ ~Reconfigure /\ ~Started /\ child'[d].at = "live"
                  => child[d].at = "live" /\ child'[d].policy = child[d].policy
<1> DEFINE Left(y, x) == /\ y.retiring => x.retiring
                         /\ y.at = "live" => x.at = "live" /\ y.policy = x.policy
           Goal == /\ child'[d].retiring => child[d].retiring
                   /\ ~Reconfigure /\ ~Started /\ child'[d].at = "live"
                          => child[d].at = "live" /\ child'[d].policy = child[d].policy
<1>0. SessionTypes /\ child \in [Children -> ChildRecord]
  BY DEF HandoffInv, SessionTypes
<1>1. CASE child' = child
  BY <1>1
<1>2. ASSUME NEW c \in Children, NEW y, child' = [child EXCEPT ![c] = y], Left(y, child[c])
      PROVE  Goal
  BY <1>0, <1>2
<1>3. \A y, x : y.at # "live" /\ ~y.retiring => Left(y, x)
  OBVIOUS
<1> HIDE DEF Goal
<1>4. CASE Daemon \/ Stalls
  <2>1. CASE \E c \in Children : ExitSeen(c)
    BY <1>2, <1>3, <2>1, GoneType DEF ExitSeen
  <2>2. CASE HandleFrame \/ Acked \/ DebounceAsks \/ DebounceHears \/ StepHears \/ Stalls
    BY <1>1, <2>2 DEF Goal, HandleFrame, Acked, DebounceAsks, DebounceHears, StepHears, Stalls
  <2>3. QED
    BY <1>4, <2>1, <2>2 DEF Daemon
<1>5. CASE Entering
  <2>1. ASSUME NEW resumed \in BOOLEAN, Starts(resumed) PROVE Goal
    <3>1. PICK c \in Children : child' = [child EXCEPT ![c] = [child[c] EXCEPT !.at = "starting"]]
      BY <2>1 DEF Starts
    <3>2. LET y == [child[c] EXCEPT !.at = "starting"] IN
          y.at = "starting" /\ y.retiring = child[c].retiring
      BY <1>0, ChildStarts
    <3>3. QED
      BY <1>2, <3>1, <3>2
  <2>2. CASE Enter \/ Retired
    BY <1>1, <2>1, <2>2 DEF Goal, Enter, Retired
  <2>3. CASE NotAtBoundary \/ AtBoundary
    BY <1>1, <2>3 DEF Goal, NotAtBoundary, AtBoundary
  <2>4. run.at \in Handing => run.child \in Children
    BY DEF HandoffInv, InHand
  <2>5. CASE Reconfigure
    <3>1. \A x \in ChildRecord : [x EXCEPT !.policy.active = Wanted.active].retiring = x.retiring
      BY DEF ChildRecord
    <3>2. /\ child' = [child EXCEPT ![run.child] =
                          [child[run.child] EXCEPT !.policy.active = Wanted.active]]
          /\ run.child \in Children
      BY <2>4, <2>5 DEF Reconfigure, Handing
    <3>3. QED
      BY <1>0, <2>5, <3>1, <3>2 DEF Goal
  <2>6. CASE Started
    <3>1. \A x \in ChildRecord : [x EXCEPT !.at = "live", !.policy = Verified].retiring = x.retiring
      BY DEF ChildRecord
    <3>2. /\ child' = [child EXCEPT ![run.child] =
                          [child[run.child] EXCEPT !.at = "live", !.policy = Verified]]
          /\ run.child \in Children
      BY <2>4, <2>6 DEF Started, Handing
    <3>3. QED
      BY <1>0, <2>6, <3>1, <3>2 DEF Goal
  <2>7. CASE StartFails
    BY <1>2, <1>3, <2>4, <2>7, GoneType DEF StartFails, Abandons, Handing
  <2>8. QED
    BY <1>5, <2>2, <2>3, <2>5, <2>6, <2>7 DEF Entering, Goal
<1>6. CASE Driving
  <2>1. CASE Skip \/ PromptFails
    BY <1>1, <2>1 DEF Goal, Skip, PromptFails
  <2>2. CASE Prompt
    <3>1. PICK m : child' = [child EXCEPT ![run.child] = [child[run.child] EXCEPT !.mail = m]]
      BY <2>2 DEF Prompt
    <3>2. run.child \in Children
      BY <2>2 DEF Prompt, HandoffInv, InHand
    <3>3. Left([child[run.child] EXCEPT !.mail = m], child[run.child])
      BY <1>0, <3>2 DEF ChildRecord
    <3>4. QED
      BY <1>2, <3>1, <3>2, <3>3
  <2>3. QED
    BY <1>6, <2>1, <2>2 DEF Driving
<1>7. CASE Agent
  <2>1. PICK c \in Children : \/ Begin(c) \/ Asks(c, "ask") \/ Asks(c, "approval")
                              \/ Withdraws(c) \/ Retries(c) \/ Ends(c) \/ Dies(c)
    BY <1>7 DEF Agent
  <2>2. CASE Retries(c)
    BY <1>1, <2>2 DEF Goal, Retries
  <2>3. CASE Begin(c)
    <3>1. PICK t, m : child' = [child EXCEPT ![c] = [child[c] EXCEPT !.turn = t, !.mail = m]]
      BY <2>3 DEF Begin
    <3>2. Left([child[c] EXCEPT !.turn = t, !.mail = m], child[c])
      BY <1>0 DEF ChildRecord
    <3>3. QED
      BY <1>2, <3>1, <3>2
  <2>4. CASE Asks(c, "ask") \/ Asks(c, "approval") \/ Withdraws(c)
    <3>1. PICK q : child' = [child EXCEPT ![c] = [child[c] EXCEPT !.question = q]]
      BY <2>4 DEF Asks, Withdraws
    <3>2. Left([child[c] EXCEPT !.question = q], child[c])
      BY <1>0 DEF ChildRecord
    <3>3. QED
      BY <1>2, <3>1, <3>2
  <2>5. CASE Ends(c) \/ Dies(c)
    <3>1. \/ child' = [child EXCEPT ![c] = [child[c] EXCEPT !.turn = "none"]]
          \/ child' = [child EXCEPT ![c] = [child[c] EXCEPT !.at = "dead"]]
      BY <2>5 DEF Ends, Dies
    <3>2. Left([child[c] EXCEPT !.turn = "none"], child[c])
      BY <1>0 DEF ChildRecord
    <3>3. Left([child[c] EXCEPT !.at = "dead"], child[c])
      BY <1>0 DEF ChildRecord
    <3>4. CASE child' = [child EXCEPT ![c] = [child[c] EXCEPT !.turn = "none"]]
      BY <1>2, <3>2, <3>4
    <3>5. CASE child' = [child EXCEPT ![c] = [child[c] EXCEPT !.at = "dead"]]
      BY <1>2, <3>3, <3>5
    <3>6. QED
      BY <3>1, <3>4, <3>5
  <2>6. QED
    BY <2>1, <2>2, <2>3, <2>4, <2>5
<1>8. CASE Operator
  <2> DEFINE c == registered
  <2>1. c \in Children
    BY <1>0, <1>8 DEF Operator, FollowUp, Interrupt, Answer, Stop, Acquires, Live, SessionTypes
  <2>2. CASE FollowUp
    <3>1. PICK m : child' = [child EXCEPT ![c] = [child[c] EXCEPT !.mail = m]]
      BY <2>2 DEF FollowUp
    <3>2. Left([child[c] EXCEPT !.mail = m], child[c])
      BY <1>0, <2>1 DEF ChildRecord
    <3>3. QED
      BY <1>2, <2>1, <3>1, <3>2
  <2>3. CASE Interrupt
    <3>1. PICK m : child' = [child EXCEPT ![c] =
                                [child[c] EXCEPT !.turn = "none", !.question = None, !.mail = m]]
      BY <2>3 DEF Interrupt
    <3>2. Left([child[c] EXCEPT !.turn = "none", !.question = None, !.mail = m], child[c])
      BY <1>0, <2>1 DEF ChildRecord
    <3>3. QED
      BY <1>2, <2>1, <3>1, <3>2
  <2>4. CASE Answer \/ Stop
    <3>1. \/ child' = child
          \/ child' = [child EXCEPT ![c] = [child[c] EXCEPT !.question = None]]
          \/ child' = [child EXCEPT ![c] = [child[c] EXCEPT !.at = "dead"]]
      BY <2>4 DEF Answer, Stop
    <3>2. Left([child[c] EXCEPT !.question = None], child[c])
      BY <1>0, <2>1 DEF ChildRecord
    <3>3. Left([child[c] EXCEPT !.at = "dead"], child[c])
      BY <1>0, <2>1 DEF ChildRecord
    <3>4. CASE child' = child
      BY <1>1, <3>4 DEF Goal
    <3>5. CASE child' = [child EXCEPT ![c] = [child[c] EXCEPT !.question = None]]
      BY <1>2, <2>1, <3>2, <3>5
    <3>6. CASE child' = [child EXCEPT ![c] = [child[c] EXCEPT !.at = "dead"]]
      BY <1>2, <2>1, <3>3, <3>6
    <3>7. QED
      BY <3>1, <3>4, <3>5, <3>6
  <2>5. QED
    BY <1>8, <2>2, <2>3, <2>4 DEF Operator
<1>9. CASE Restart
  <2> DEFINE gone == [c \in Children |-> IF child[c].at = "none" THEN NoChild
                                         ELSE [NoChild EXCEPT !.at = "gone"]]
  <2>1. \A c \in Children : gone[c] \in ChildRecord /\ ~gone[c].retiring /\ gone[c].at # "live"
    BY NoChildType, GoneType
  <2>2. \A c \in Children : LET y == [gone[c] EXCEPT !.at = "starting"] IN
            ~y.retiring /\ y.at # "live"
    BY <2>1, ChildStarts
  <2>3. child' = gone \/ \E c \in Children : child' = [gone EXCEPT ![c] = [gone[c] EXCEPT !.at = "starting"]]
    BY <1>9 DEF Restart
  <2>4. gone = [c \in Children |-> gone[c]]
    OBVIOUS
  <2> HIDE DEF gone
  <2>5. ~child'[d].retiring /\ child'[d].at # "live"
    BY <2>1, <2>2, <2>3, <2>4
  <2>6. QED
    BY <2>5 DEF Goal
<1>10. QED
  BY <1>4, <1>5, <1>6, <1>7, <1>8, <1>9 DEF Next, Goal

\* What a handoff retires is at rest: ADR-0027.  A child that `_retire` takes
\* (to replace it, or because it is on an unknown pair) has no turn, no message
\* waiting and no question, whatever happened between `_await_turn_boundary`
\* and the retirement.
THEOREM HandoffsNeverInterrupt == Spec => HandoffNeverInterrupts
<1>1. ASSUME HandoffInv, [Next]_vars, NEW c \in Children, child'[c].retiring, ~child[c].retiring
      PROVE  ~Busy(c) /\ child[c].question = None
  <2>1. child \in [Children -> ChildRecord]
    BY <1>1 DEF HandoffInv, SessionTypes
  <2>2. Next
    BY <1>1 DEF vars
  <2>3. Replace \/ ReconfigureFails
    BY <1>1, <2>2, OthersLeaveIt
  <2>4. run.at = "changing" /\ \A d \in Children : d # run.child => child'[d] = child[d]
    BY <2>1, <2>3 DEF Replace, ReconfigureFails, Retire, GiveUp
  <2>5. c = run.child
    BY <1>1, <2>4
  <2>6. QED
    BY <1>1, <2>4, <2>5 DEF HandoffInv, AtRest, QuestionInTurn, Busy
<1>2. HandoffInv /\ [Next]_vars
          => [\A c \in Children : child'[c].retiring /\ ~child[c].retiring
                  => ~Busy(c) /\ child[c].question = None]_vars
  BY <1>1
<1>3. QED
  BY <1>2, HandoffInit, HandoffKept, PTL DEF Spec, HandoffNeverInterrupts

\* What a child that can be prompted runs under is what is recorded, and what
\* the step being driven was accepted with.
RecordedInv == HandoffInv /\ RecordedPolicy

\* Neither the record nor the policy of a registered child moves.
LEMMA RecordStays ==
    ASSUME RecordedInv, HandoffInv', applied' = applied,
           registered' \in {0, registered},
           \A c \in Children : child'[c].at = "live" /\ registered' = c
               => child[c].at = "live" /\ child'[c].policy = child[c].policy,
           run'.at \in {"applied", "sent", "waiting"}
               => run.at \in {"applied", "sent", "waiting"} /\ run'.step = run.step
    PROVE  RecordedPolicy'
<1>1. ASSUME Live(registered)' PROVE child'[registered'].policy = applied'
  <2>1. registered' = registered /\ registered' \in Children
    BY <1>1 DEF Live, HandoffInv, SessionTypes
  <2>2. Live(registered) /\ child'[registered].policy = child[registered].policy
    BY <1>1, <2>1 DEF Live
  <2>3. QED
    BY <2>1, <2>2 DEF RecordedInv, RecordedPolicy
<1>2. run'.at \in {"applied", "sent", "waiting"} => applied' = Wanted'
  BY DEF RecordedInv, RecordedPolicy, Wanted
<1>3. QED
  BY <1>1, <1>2 DEF RecordedPolicy

LEMMA RecordedKept == RecordedInv /\ HandoffInv' /\ Next => RecordedPolicy'
<1> SUFFICES ASSUME RecordedInv, HandoffInv', Next PROVE RecordedPolicy'
  OBVIOUS
<1>0. /\ HandoffInv /\ RecordedPolicy /\ SessionTypes /\ run \in RunRecord
      /\ child \in [Children -> ChildRecord] /\ 0 \notin Children
  BY ChildNumbers DEF RecordedInv, HandoffInv, SessionTypes
<1>1. CASE Reconfigure
  <2> DEFINE c == run.child
  <2>1. /\ run.at = "changing" /\ SameAuxiliary /\ Live(c) /\ registered' = registered
        /\ child' = [child EXCEPT ![c] = [child[c] EXCEPT !.policy.active = Wanted.active]]
        /\ applied' = Wanted /\ run' = [run EXCEPT !.at = "applied"]
    BY <1>1 DEF Reconfigure
  <2>2. registered = c /\ c \in Children /\ run.step \in Steps
    BY <1>0, <2>1 DEF HandoffInv, InHand, Handing
  <2>3. Wanted \in Policy
    BY <2>2, PolicyTypes DEF Wanted
  <2>4. \A r \in ChildRecord, p \in Policy :
            r.policy.aux = p.aux => [r EXCEPT !.policy.active = p.active].policy = p
    BY DEF ChildRecord, Policy
  <2>5. child'[c].policy = Wanted
    BY <1>0, <2>1, <2>2, <2>3, <2>4 DEF SameAuxiliary
  <2>6. run'.step = run.step
    BY <1>0, <2>1 DEF RunRecord
  <2>7. QED
    BY <2>1, <2>2, <2>5, <2>6 DEF RecordedPolicy, Wanted
<1>2. CASE Started
  <2> DEFINE c == run.child
  <2>1. /\ run.at \in {"starting", "recovering"} /\ registered' = c /\ applied' = Verified
        /\ child' = [child EXCEPT ![c] = [child[c] EXCEPT !.at = "live", !.policy = Verified]]
        /\ run' = IF run.at = "starting" THEN [run EXCEPT !.at = "applied"]
                                         ELSE [Between EXCEPT !.step = run.step]
    BY <1>2 DEF Started
  <2>2. c \in Children
    BY <1>0, <2>1 DEF HandoffInv, InHand, Handing
  <2>3. \A r \in ChildRecord : [r EXCEPT !.at = "live", !.policy = Verified].policy = Verified
    BY DEF ChildRecord
  <2>4. child'[c].policy = Verified
    BY <1>0, <2>1, <2>2, <2>3
  <2>5. CASE run.at = "starting"
    <3>1. run'.step = run.step
      BY <1>0, <2>1, <2>5 DEF RunRecord
    <3>2. QED
      BY <2>1, <2>4, <2>5, <3>1 DEF RecordedPolicy, Wanted, Verified
  <2>6. CASE run.at = "recovering"
    <3>1. run'.at = "ready"
      BY <1>0, <2>1, <2>6, BetweenType DEF RunRecord
    <3>2. QED
      BY <2>1, <2>4, <3>1 DEF RecordedPolicy
  <2>7. QED
    BY <2>1, <2>5, <2>6
<1>3. CASE ReconfigureFails \/ Replace
  <2>1. /\ run.at = "changing" /\ applied' = applied
        /\ registered' = IF registered = run.child THEN 0 ELSE registered
        /\ run' = [run EXCEPT !.at = "abandoning"] \/ run' = [run EXCEPT !.at = "retiring"]
    BY <1>3 DEF ReconfigureFails, GiveUp, Replace, Retire, Unheard
  <2>2. run'.at \in {"retiring", "abandoning"} /\ registered' = 0
    BY <1>0, <2>1 DEF RunRecord, HandoffInv, InHand
  <2>3. QED
    BY <1>0, <2>2 DEF RecordedPolicy, Live
<1>4. CASE ~Reconfigure /\ ~Started /\ ~ReconfigureFails /\ ~Replace
  <2>1. \A c \in Children : child'[c].at = "live"
            => child[c].at = "live" /\ child'[c].policy = child[c].policy
    BY <1>0, <1>4, OthersLeaveIt
  <2>2. applied' = applied /\ registered' \in {0, registered}
    <3>1. CASE Daemon \/ Stalls
      BY <3>1 DEF Daemon, Stalls, HandleFrame, Acked, DebounceAsks, DebounceHears, StepHears,
                  ExitSeen, Unheard, durable
    <3>2. CASE Entering
      BY <1>4, <3>2 DEF Entering, Enter, NotAtBoundary, AtBoundary, Retired, StartFails, Unheard
    <3>3. CASE Driving \/ Agent \/ Restart
      BY <3>3 DEF Driving, Skip, Prompt, PromptFails, Unheard, Agent, Begin, Asks, Withdraws,
                  Retries, Ends, Dies, ChildSteps, Restart, durable
    <3>4. CASE Operator
      BY <3>4 DEF Operator, FollowUp, Interrupt, Answer, Stop, Operates, durable
    <3>5. QED
      BY <3>1, <3>2, <3>3, <3>4 DEF Next
  <2>3. run'.at \in {"applied", "sent", "waiting"}
            => run.at \in {"applied", "sent", "waiting"} /\ run'.step = run.step
    <3>0. /\ Failed.at = "ready" /\ Sequel.at = "ready"
          /\ [Between EXCEPT !.step = run.step].at = "ready"
      BY <1>0 DEF Failed, Sequel, Between
    <3>1. CASE \E e \in {"idle", "exited"} : Hears(e) \/ run' = run
      <4>1. 1 \in Children
        BY SessionAssumption DEF Children
      <4>2. QED
        BY <1>0, <3>1, <4>1, Notes
    <3>2. CASE \E c \in Children : Over(c) \/ run' = run
      BY <1>0, <3>2, Notes
    <3>3. CASE Daemon \/ Stalls
      <4>1. CASE Acked
        BY <1>0, <4>1 DEF Acked, RunRecord
      <4>2. CASE StepHears
        BY <3>0, <4>2 DEF StepHears
      <4>3. CASE HandleFrame \/ Stalls \/ DebounceAsks \/ DebounceHears \/ \E c \in Children : ExitSeen(c)
        BY <3>1, <4>3 DEF HandleFrame, Stalls, DebounceAsks, DebounceHears, ExitSeen
      <4>4. QED
        BY <3>3, <4>1, <4>2, <4>3 DEF Daemon
    <3>4. CASE Entering
      <4>1. CASE run' = Failed \/ run' = [Between EXCEPT !.step = run.step]
        BY <3>0, <4>1
      <4>2. CASE \E a \in {"checking", "starting"}, c \in Children \cup {0} :
                    run' = [run EXCEPT !.at = a, !.child = c]
        BY <1>0, <4>2 DEF RunRecord
      <4>3. CASE run' = [run EXCEPT !.at = "changing"]
        BY <1>0, <4>3 DEF RunRecord
      <4>4. QED
        BY <1>0, <1>4, <3>4, <4>1, <4>2, <4>3
           DEF Entering, Enter, NotAtBoundary, AtBoundary, Retired, StartFails, Starts, Refused,
               SessionTypes
    <3>5. CASE Driving
      <4>1. CASE Prompt
        BY <1>0, <4>1 DEF Prompt, RunRecord
      <4>2. QED
        BY <3>0, <3>5, <4>1 DEF Driving, Skip, PromptFails
    <3>6. CASE Agent
      BY <3>2, <3>6 DEF Agent, Begin, Asks, Withdraws, Retries, Ends, Dies
    <3>7. CASE Operator
      <4>1. registered \in Children
        BY <1>0, <3>7 DEF Operator, FollowUp, Interrupt, Answer, Stop, Acquires, Live, SessionTypes
      <4>2. QED
        BY <3>2, <3>7, <4>1 DEF Operator, FollowUp, Interrupt, Answer, Stop
    <3>8. CASE Restart
      <4>1. run'.at \in {"recovering", "ready"}
        BY <3>8 DEF Restart, Between
      <4>2. QED
        BY <4>1
    <3>9. QED
      BY <3>3, <3>4, <3>5, <3>6, <3>7, <3>8 DEF Next
  <2>4. QED
    BY <2>1, <2>2, <2>3, RecordStays
<1>5. QED
  BY <1>1, <1>2, <1>3, <1>4

\* What is recorded is what runs (ADR-0027), across failed and successful
\* handoffs, replaced processes and restarts: `commit` comes after the native
\* state has been verified and before anybody can prompt, and a child on a pair
\* nobody verified is out of reach.
THEOREM RecordedIsRunning == Spec => []RecordedPolicy
<1>1. Init => RecordedPolicy
  BY ChildNumbers DEF Init, RecordedPolicy, Live, Between
<1>2. RecordedInv /\ [Next]_vars => RecordedInv'
  <2>1. RecordedInv /\ UNCHANGED vars => RecordedPolicy'
    BY DEF RecordedInv, RecordedPolicy, vars, Live, Wanted
  <2>2. QED
    BY <2>1, HandoffKept, RecordedKept DEF RecordedInv
<1>3. Init => RecordedInv
  BY <1>1, HandoffInit DEF RecordedInv
<1>4. RecordedInv => RecordedPolicy
  BY DEF RecordedInv
<1>5. QED
  BY <1>2, <1>3, <1>4, PTL DEF Spec

-----------------------------------------------------------------------------
(* What the card shows.  The frames nobody handled yet are a stretch of     *)
(* what the registered child wrote: each may follow the one before, the     *)
(* newest tells what the child is at, and the oldest may follow what the    *)
(* tracker has heard.  So once all are handled, the tracker has heard what  *)
(* the child is at.                                                         *)

FrameTypes == {"ack", "state", "unknown", "agent_start", "agent_end", "request", "ask_end",
               "auto_retry_start", "auto_retry_end"}
FrameRecord == [type : FrameTypes, question : Question, busy : BOOLEAN]

Waiting == {"waiting-input", "waiting-approval"}
WaitingFor(q) == IF q.kind = "approval" THEN "waiting-approval" ELSE "waiting-input"

\* The frames that tell of the child's turns and questions, by their places.
Quiet(f) == f.type \in {"ack", "state", "unknown"}
Loud(fs) == {i \in DOMAIN fs : ~Quiet(fs[i])}
Oldest(fs, i) == i \in Loud(fs) /\ \A k \in Loud(fs) : i <= k
Newest(fs, i) == i \in Loud(fs) /\ \A k \in Loud(fs) : k <= i
Adjacent(fs, i, j) == /\ i \in Loud(fs) /\ j \in Loud(fs) /\ i < j
                      /\ \A k \in Loud(fs) : k <= i \/ j <= k

MayFollow(f, g) ==
    \/ /\ f.type \in {"agent_start", "ask_end", "auto_retry_end"}
       /\ g.type \in {"request", "auto_retry_start", "agent_end"}
    \/ f.type = "auto_retry_start" /\ g.type = "auto_retry_end"
    \/ f.type = "request" /\ g.type = "ask_end" /\ g.question = f.question
    \/ f.type = "request" /\ g.type = "agent_end"
    \/ f.type = "agent_end" /\ g.type = "agent_start"

Begins(fs) == \E i \in DOMAIN fs : fs[i].type = "agent_start"
Linked(fs) == \A i, j \in DOMAIN fs : Adjacent(fs, i, j) => MayFollow(fs[i], fs[j])
Chained(fs) ==
    /\ Linked(fs)
    /\ Loud(fs) # {} => \E i \in DOMAIN fs : Newest(fs, i)
    /\ \A i \in DOMAIN fs : fs[i].type = "agent_end" /\ ~Newest(fs, i) =>
           \E k \in DOMAIN fs : i < k /\ fs[k].type = "agent_start"

\* What the tracker has heard: a turn that goes on, a question, a retried call.
Goes     == pending = None /\ status \in {"working", "stalled"} /\ debounce = "none"
Shows(q) == pending = q /\ status = WaitingFor(q) /\ debounce = "none"
Repeats  == pending = None /\ status = "retrying" /\ debounce = "none"

\* The tracker is ready for the oldest frame, and, with none, at what the child
\* is at.
ReadyFor(f) ==
    /\ f.type \in {"request", "auto_retry_start"} => Goes
    /\ f.type = "ask_end" => Goes \/ Shows(f.question)
    /\ f.type = "auto_retry_end" => Repeats
    /\ f.type = "agent_end" => status \notin Waiting

Agrees(x) ==
    IF x.turn = "none" THEN pending = None /\ status \notin Waiting
    ELSE IF x.question = None THEN Goes ELSE Shows(x.question)

\* Whatever comes before an agent_start is mended by it; and one will come from
\* a child that was interrupted.
Beginning(fs, x) ==
    ~Begins(fs) /\ (x.turn # "none" \/ x.mail = <<>>) =>
        /\ Loud(fs) = {} => Agrees(x)
        /\ \A i \in DOMAIN fs : Oldest(fs, i) => ReadyFor(fs[i])

Ending(fs, x) ==
    \A i \in DOMAIN fs : Newest(fs, i) =>
        IF x.turn = "none"
        THEN /\ fs[i].type = "agent_end"
             /\ x.mail = <<>> =>
                    \A k \in DOMAIN fs : Adjacent(fs, k, i) => fs[k].type # "request"
        ELSE IF x.question = None
        THEN fs[i].type \in {"agent_start", "ask_end", "auto_retry_end"}
        ELSE fs[i].type = "request" /\ fs[i].question = x.question

Card(fs, x) == Chained(fs) /\ Ending(fs, x) /\ Beginning(fs, x)

\* One frame more, and one less, except for answers that became unknown.
Longer(fs, f, gs) ==
    /\ gs \in Seq(FrameRecord) /\ Len(gs) = Len(fs) + 1
    /\ gs[Len(gs)] = f /\ \A i \in DOMAIN fs : gs[i] = fs[i]
Shorter(fs, gs) ==
    /\ gs \in Seq(FrameRecord) /\ Len(gs) = Len(fs) - 1
    /\ \A i \in DOMAIN gs : gs[i] = fs[i + 1] \/ (gs[i].type = "unknown" /\ Quiet(fs[i + 1]))

\* A child that writes what may follow.
LEMMA LongerChains ==
    ASSUME NEW fs \in Seq(FrameRecord), NEW f \in FrameRecord, NEW gs, Longer(fs, f, gs), ~Quiet(f)
    PROVE  /\ Loud(gs) = Loud(fs) \cup {Len(gs)} /\ \A i \in Loud(fs) : i < Len(gs)
           /\ \A i : Newest(gs, i) => i = Len(gs)
           /\ \A i : Adjacent(gs, i, Len(gs)) => Newest(fs, i) /\ gs[i] = fs[i]
           /\ \A i : Oldest(gs, i) => Oldest(fs, i) \/ (Loud(fs) = {} /\ i = Len(gs))
           /\ Chained(fs) /\ (\A i \in DOMAIN fs : Newest(fs, i) => MayFollow(fs[i], f))
                  => Chained(gs)
<1>0. /\ DOMAIN fs = 1..Len(fs) /\ DOMAIN gs = 1..(Len(fs) + 1) /\ Len(fs) \in Nat
      /\ Len(gs) = Len(fs) + 1 /\ gs[Len(gs)] = f /\ \A i \in DOMAIN fs : gs[i] = fs[i]
  BY DEF Longer
<1>1. Loud(gs) = Loud(fs) \cup {Len(gs)} /\ \A i \in Loud(fs) : i < Len(gs)
  BY <1>0 DEF Loud
<1>2. ASSUME NEW i, Newest(gs, i)
      PROVE  i = Len(gs)
  <2>1. i \in Loud(gs) /\ Len(gs) <= i
    BY <1>1, <1>2 DEF Newest
  <2>2. i \in DOMAIN gs
    BY <2>1 DEF Loud
  <2> QED
    BY <1>0, <2>1, <2>2
<1>3. \A i : Adjacent(gs, i, Len(gs)) => Newest(fs, i) /\ gs[i] = fs[i]
  BY <1>0, <1>1 DEF Newest, Adjacent, Loud
<1>4. \A i : Oldest(gs, i) => Oldest(fs, i) \/ (Loud(fs) = {} /\ i = Len(gs))
  BY <1>0, <1>1 DEF Oldest, Loud
<1>5. ASSUME Linked(fs), \A i \in DOMAIN fs : Newest(fs, i) => MayFollow(fs[i], f),
             NEW i \in DOMAIN gs, NEW j \in DOMAIN gs, Adjacent(gs, i, j)
      PROVE  MayFollow(gs[i], gs[j])
  <2>1. CASE j = Len(gs)
    BY <1>0, <1>3, <1>5, <2>1 DEF Newest, Loud
  <2>2. CASE j # Len(gs)
    <3>1. i \in Loud(fs) /\ j \in Loud(fs) /\ i \in DOMAIN fs /\ j \in DOMAIN fs
      BY <1>0, <1>1, <1>5, <2>2 DEF Adjacent, Loud
    <3>2. Adjacent(fs, i, j)
      BY <1>1, <1>5, <3>1 DEF Adjacent
    <3> QED
      BY <1>0, <1>5, <3>1, <3>2 DEF Linked
  <2> QED
    BY <2>1, <2>2
<1>6. Newest(gs, Len(gs)) /\ Len(gs) \in DOMAIN gs
  BY <1>0, <1>1 DEF Newest, Loud
<1>7. ASSUME Chained(fs), \A i \in DOMAIN fs : Newest(fs, i) => MayFollow(fs[i], f),
             NEW i \in DOMAIN gs, gs[i].type = "agent_end", ~Newest(gs, i)
      PROVE  \E k \in DOMAIN gs : i < k /\ gs[k].type = "agent_start"
  <2>1. i \in DOMAIN fs /\ fs[i].type = "agent_end"
    BY <1>0, <1>6, <1>7
  <2>2. CASE Newest(fs, i)
    <3>1. MayFollow(fs[i], f)
      BY <1>7, <2>1, <2>2
    <3>2. f.type = "agent_start"
      BY <2>1, <3>1 DEF MayFollow
    <3> QED
      BY <1>0, <1>6, <2>1, <3>2
  <2>3. CASE ~Newest(fs, i)
    <3>1. PICK k \in DOMAIN fs : i < k /\ fs[k].type = "agent_start"
      BY <1>7, <2>1, <2>3 DEF Chained
    <3> QED
      BY <1>0, <3>1
  <2> QED
    BY <2>2, <2>3
<1>8. Chained(fs) /\ (\A i \in DOMAIN fs : Newest(fs, i) => MayFollow(fs[i], f)) => Chained(gs)
  BY <1>5, <1>6, <1>7 DEF Chained, Linked
<1> QED
  BY <1>1, <1>2, <1>3, <1>4, <1>8

\* A receipt or an answer tells nothing of the child.
LEMMA LongerIsQuiet ==
    ASSUME NEW fs \in Seq(FrameRecord), NEW f \in FrameRecord, NEW gs, Longer(fs, f, gs), Quiet(f)
    PROVE  /\ Loud(gs) = Loud(fs) /\ \A i \in Loud(fs) : gs[i] = fs[i]
           /\ Begins(gs) <=> Begins(fs)
<1>0. /\ DOMAIN fs = 1..Len(fs) /\ DOMAIN gs = 1..(Len(fs) + 1) /\ Len(fs) \in Nat
      /\ Len(gs) = Len(fs) + 1 /\ gs[Len(gs)] = f /\ \A i \in DOMAIN fs : gs[i] = fs[i]
  BY DEF Longer
<1>1. Loud(gs) = Loud(fs) /\ \A i \in Loud(fs) : gs[i] = fs[i]
  BY <1>0 DEF Loud
<1>2. Begins(gs) <=> Begins(fs)
  BY <1>0 DEF Begins, Quiet
<1> QED
  BY <1>1, <1>2

\* The oldest frame is handled.
LEMMA ShorterChains ==
    ASSUME NEW fs \in Seq(FrameRecord), fs # <<>>, NEW gs, Shorter(fs, gs)
    PROVE  /\ \A i : i \in Loud(gs) <=> i \in Nat \ {0} /\ i + 1 \in Loud(fs)
           /\ \A i \in Loud(gs) : gs[i] = fs[i + 1]
           /\ \A i : Newest(gs, i) => Newest(fs, i + 1)
           /\ \A i, j : Adjacent(gs, i, j) => Adjacent(fs, i + 1, j + 1)
           /\ Chained(fs) => Chained(gs)
           /\ Begins(gs) => Begins(fs)
           /\ fs[1].type # "agent_start" => (Begins(fs) => Begins(gs))
           /\ Quiet(fs[1]) => /\ \A i : Oldest(gs, i) => Oldest(fs, i + 1)
                              /\ Loud(gs) = {} => Loud(fs) = {}
           /\ ~Quiet(fs[1]) => /\ \A i : Oldest(gs, i) => Adjacent(fs, 1, i + 1)
                               /\ Loud(gs) = {} => Newest(fs, 1)
                               /\ Oldest(fs, 1)
<1>0. /\ DOMAIN fs = 1..Len(fs) /\ DOMAIN gs = 1..(Len(fs) - 1) /\ Len(fs) \in Nat \ {0}
      /\ \A i \in DOMAIN gs : gs[i] = fs[i + 1] \/ (Quiet(gs[i]) /\ Quiet(fs[i + 1]))
      /\ 1 \in DOMAIN fs
  BY DEF Shorter, Quiet
<1>1. ASSUME NEW i \in DOMAIN gs
      PROVE  /\ i + 1 \in DOMAIN fs /\ (~Quiet(gs[i]) <=> ~Quiet(fs[i + 1]))
             /\ (~Quiet(gs[i]) => gs[i] = fs[i + 1])
  BY <1>0
<1>2. \A i : i \in Loud(gs) <=> i \in Nat \ {0} /\ i + 1 \in Loud(fs)
  BY <1>0, <1>1 DEF Loud
<1>3. \A i \in Loud(gs) : gs[i] = fs[i + 1] /\ i \in DOMAIN gs /\ i \in Nat \ {0}
  BY <1>0, <1>1 DEF Loud
<1>4. \A i \in Loud(fs) : i \in Nat \ {0} /\ (i # 1 => i - 1 \in Loud(gs) /\ (i - 1) + 1 = i)
  BY <1>0, <1>2 DEF Loud
<1>5. \A i : Newest(gs, i) => Newest(fs, i + 1)
  BY <1>2, <1>3, <1>4 DEF Newest
<1>6. \A i, j : Adjacent(gs, i, j) => Adjacent(fs, i + 1, j + 1)
  <2> SUFFICES ASSUME NEW i, NEW j, Adjacent(gs, i, j), NEW k \in Loud(fs)
               PROVE  /\ i + 1 \in Loud(fs) /\ j + 1 \in Loud(fs) /\ i + 1 < j + 1
                      /\ k <= i + 1 \/ j + 1 <= k
    BY <1>2, <1>3 DEF Adjacent
  <2>1. i \in Nat \ {0} /\ j \in Nat \ {0} /\ i < j /\ i + 1 \in Loud(fs) /\ j + 1 \in Loud(fs)
    BY <1>2 DEF Adjacent
  <2>2. k = 1 \/ k - 1 <= i \/ j <= k - 1
    BY <1>4 DEF Adjacent
  <2> QED
    BY <1>4, <2>1, <2>2
<1>7. Chained(fs) => Chained(gs)
  <2> SUFFICES ASSUME Chained(fs) PROVE Chained(gs)
    OBVIOUS
  <2>1. Linked(gs)
    BY <1>1, <1>3, <1>6 DEF Chained, Linked, Adjacent
  <2>2. ASSUME Loud(gs) # {} PROVE \E i \in DOMAIN gs : Newest(gs, i)
    <3>1. PICK j \in Loud(gs) : TRUE
      BY <2>2
    <3>2. j \in Nat \ {0} /\ j + 1 \in Loud(fs)
      BY <1>2
    <3>3. PICK n \in DOMAIN fs : Newest(fs, n)
      BY <3>2 DEF Chained
    <3>4. j + 1 <= n /\ n # 1
      BY <3>2, <3>3 DEF Newest
    <3>5. n - 1 \in Loud(gs) /\ (n - 1) + 1 = n
      BY <1>4, <3>3, <3>4 DEF Newest
    <3>6. ASSUME NEW k \in Loud(gs) PROVE k <= n - 1
      <4>1. k \in Nat \ {0} /\ k + 1 \in Loud(fs)
        BY <1>2
      <4>2. k + 1 <= n
        BY <3>3, <4>1 DEF Newest
      <4> QED
        BY <1>0, <3>3, <4>1, <4>2
    <3> QED
      BY <1>3, <3>5, <3>6 DEF Newest
  <2>3. ASSUME NEW i \in DOMAIN gs, gs[i].type = "agent_end", ~Newest(gs, i)
        PROVE  \E k \in DOMAIN gs : i < k /\ gs[k].type = "agent_start"
    <3>1. i + 1 \in DOMAIN fs /\ fs[i + 1].type = "agent_end" /\ i \in Loud(gs)
      BY <1>1, <2>3 DEF Quiet, Loud
    <3>2. ~Newest(fs, i + 1)
      <4>1. PICK k \in Loud(gs) : ~(k <= i)
        BY <2>3, <3>1 DEF Newest
      <4>2. k + 1 \in Loud(fs) /\ k \in Nat
        BY <1>2
      <4> QED
        BY <1>0, <4>1, <4>2 DEF Newest
    <3>3. PICK k \in DOMAIN fs : i + 1 < k /\ fs[k].type = "agent_start"
      BY <3>1, <3>2 DEF Chained
    <3>4. k - 1 \in DOMAIN gs /\ (k - 1) + 1 = k /\ i < k - 1
      BY <1>0, <3>3
    <3>5. gs[k - 1] = fs[k]
      BY <1>1, <3>3, <3>4 DEF Quiet
    <3> QED
      BY <3>3, <3>4, <3>5
  <2> QED
    BY <2>1, <2>2, <2>3 DEF Chained
<1>8. Begins(gs) => Begins(fs)
  BY <1>1 DEF Begins, Quiet
<1>9. fs[1].type # "agent_start" => (Begins(fs) => Begins(gs))
  <2> SUFFICES ASSUME fs[1].type # "agent_start", NEW i \in DOMAIN fs, fs[i].type = "agent_start"
               PROVE  Begins(gs)
    BY DEF Begins
  <2>1. i # 1 /\ i - 1 \in DOMAIN gs /\ (i - 1) + 1 = i
    BY <1>0
  <2>2. gs[i - 1] = fs[i]
    BY <1>1, <2>1 DEF Quiet
  <2> QED
    BY <2>1, <2>2 DEF Begins
<1>10. Quiet(fs[1]) => /\ \A i : Oldest(gs, i) => Oldest(fs, i + 1)
                       /\ Loud(gs) = {} => Loud(fs) = {}
  <2> SUFFICES ASSUME Quiet(fs[1])
               PROVE  /\ \A i : Oldest(gs, i) => Oldest(fs, i + 1)
                      /\ Loud(gs) = {} => Loud(fs) = {}
    OBVIOUS
  <2>1. 1 \notin Loud(fs)
    BY DEF Loud
  <2>2. ASSUME NEW i, Oldest(gs, i), NEW k \in Loud(fs)
        PROVE  i + 1 \in Loud(fs) /\ i + 1 <= k
    <3>1. k - 1 \in Loud(gs) /\ (k - 1) + 1 = k
      BY <1>4, <2>1
    <3>2. i \in Loud(gs) /\ i <= k - 1
      BY <2>2, <3>1 DEF Oldest
    <3>3. i \in Nat /\ i + 1 \in Loud(fs) /\ k \in Nat
      BY <1>2, <1>4, <3>2
    <3> QED
      BY <3>2, <3>3
  <2>3. Loud(gs) = {} => Loud(fs) = {}
    BY <1>4, <2>1
  <2>4. ASSUME NEW i, Oldest(gs, i) PROVE i + 1 \in Loud(fs)
    BY <1>2, <2>4 DEF Oldest
  <2> QED
    BY <2>2, <2>3, <2>4 DEF Oldest
<1>11. ~Quiet(fs[1]) => /\ \A i : Oldest(gs, i) => Adjacent(fs, 1, i + 1)
                        /\ Loud(gs) = {} => Newest(fs, 1)
                        /\ Oldest(fs, 1)
  <2> SUFFICES ASSUME ~Quiet(fs[1])
               PROVE  /\ \A i : Oldest(gs, i) => Adjacent(fs, 1, i + 1)
                      /\ Loud(gs) = {} => Newest(fs, 1)
                      /\ Oldest(fs, 1)
    OBVIOUS
  <2>1. 1 \in Loud(fs)
    BY <1>0 DEF Loud
  <2>2. \A i : Oldest(gs, i) => Adjacent(fs, 1, i + 1)
    BY <1>2, <1>3, <1>4, <2>1 DEF Oldest, Adjacent
  <2> QED
    BY <1>4, <2>1, <2>2 DEF Oldest, Newest
<1> QED
  BY <1>2, <1>3, <1>5, <1>6, <1>7, <1>8, <1>9, <1>10, <1>11

\* Whatever the tracker had heard, it still has, or has forgotten nothing else.
Steady ==
    /\ Goes => Goes'
    /\ Repeats => Repeats'
    /\ \A q \in Question : Shows(q) => Shows(q)'
    /\ status \notin Waiting => status' \notin Waiting
    /\ pending = None => pending' = None

\* The frames that tell of the child are the same.
SameTold(fs, gs) ==
    /\ Chained(fs) => Chained(gs)
    /\ Begins(fs) => Begins(gs)
    /\ Loud(gs) = {} <=> Loud(fs) = {}
    /\ \A i \in DOMAIN gs : Oldest(gs, i) => \E j \in DOMAIN fs : Oldest(fs, j) /\ fs[j] = gs[i]
    /\ \A i \in DOMAIN gs : Newest(gs, i) =>
           \E j \in DOMAIN fs :
               /\ Newest(fs, j) /\ fs[j] = gs[i]
               /\ \A k \in DOMAIN gs : Adjacent(gs, k, i) =>
                      \E l \in DOMAIN fs : Adjacent(fs, l, j) /\ fs[l] = gs[k]

LEMMA QuietTells ==
    ASSUME NEW fs \in Seq(FrameRecord), NEW gs,
           \/ gs = fs
           \/ \E f \in FrameRecord : Quiet(f) /\ Longer(fs, f, gs)
           \/ fs # <<>> /\ Quiet(fs[1]) /\ Shorter(fs, gs)
    PROVE  SameTold(fs, gs)
<1>1. CASE gs = fs
  BY <1>1, Zenon DEF SameTold
<1>2. ASSUME NEW f \in FrameRecord, Quiet(f), Longer(fs, f, gs) PROVE SameTold(fs, gs)
  <2>1. Loud(gs) = Loud(fs) /\ (\A i \in Loud(fs) : gs[i] = fs[i]) /\ (Begins(gs) <=> Begins(fs))
    BY <1>2, LongerIsQuiet
  <2>2. /\ DOMAIN fs \subseteq DOMAIN gs /\ \A i \in DOMAIN fs : gs[i] = fs[i]
        /\ Loud(fs) \subseteq DOMAIN fs
    BY <1>2 DEF Longer, Loud
  <2>3. /\ \A i : Oldest(gs, i) <=> Oldest(fs, i)
        /\ \A i : Newest(gs, i) <=> Newest(fs, i)
        /\ \A i, j : Adjacent(gs, i, j) <=> Adjacent(fs, i, j)
    BY <2>1 DEF Oldest, Newest, Adjacent
  <2>4. Chained(fs) => Chained(gs)
    <3>1. Linked(fs) => Linked(gs)
      BY <2>1, <2>2, <2>3 DEF Linked, Adjacent
    <3>2. ASSUME Chained(fs), NEW i \in DOMAIN gs, gs[i].type = "agent_end", ~Newest(gs, i)
          PROVE  \E k \in DOMAIN gs : i < k /\ gs[k].type = "agent_start"
      <4>1. i \in Loud(fs)
        BY <2>1, <3>2 DEF Loud, Quiet
      <4>2. i \in DOMAIN fs /\ fs[i].type = "agent_end" /\ ~Newest(fs, i)
        BY <2>1, <2>2, <2>3, <3>2, <4>1
      <4> QED
        BY <2>2, <3>2, <4>2 DEF Chained
    <3> QED
      BY <2>1, <2>2, <2>3, <3>1, <3>2 DEF Chained
  <2>5. \A i, j : /\ Oldest(fs, i) => i \in DOMAIN fs /\ fs[i] = gs[i]
                  /\ Newest(fs, i) => i \in DOMAIN fs /\ fs[i] = gs[i]
                  /\ Adjacent(fs, i, j) => i \in DOMAIN fs /\ fs[i] = gs[i]
    BY <2>1, <2>2 DEF Oldest, Newest, Adjacent
  <2> QED
    BY <2>1, <2>3, <2>4, <2>5 DEF SameTold
<1>3. ASSUME fs # <<>>, Quiet(fs[1]), Shorter(fs, gs) PROVE SameTold(fs, gs)
  <2>1. /\ \A i \in Loud(gs) : gs[i] = fs[i + 1]
        /\ \A i : Newest(gs, i) => Newest(fs, i + 1)
        /\ \A i, j : Adjacent(gs, i, j) => Adjacent(fs, i + 1, j + 1)
        /\ Chained(fs) => Chained(gs)
        /\ fs[1].type # "agent_start" => (Begins(fs) => Begins(gs))
        /\ \A i : Oldest(gs, i) => Oldest(fs, i + 1)
        /\ Loud(gs) = {} <=> Loud(fs) = {}
    BY <1>3, ShorterChains
  <2>2. Begins(fs) => Begins(gs)
    BY <1>3, <2>1 DEF Quiet
  <2>3. \A i, j : /\ Oldest(gs, i) => i + 1 \in DOMAIN fs /\ fs[i + 1] = gs[i]
                  /\ Newest(gs, i) => i + 1 \in DOMAIN fs /\ fs[i + 1] = gs[i]
                  /\ Adjacent(gs, i, j) => i + 1 \in DOMAIN fs /\ fs[i + 1] = gs[i]
    <3>1. \A i, j : (Oldest(gs, i) \/ Newest(gs, i) \/ Adjacent(gs, i, j)) =>
                        i \in Loud(gs) /\ i + 1 \in Loud(fs)
      BY <2>1 DEF Oldest, Newest, Adjacent
    <3> QED
      BY <2>1, <3>1 DEF Loud
  <2> QED
    BY <2>1, <2>2, <2>3 DEF SameTold
<1> QED
  BY <1>1, <1>2, <1>3

\* A step that tells nothing new of the child, and takes nothing heard away.
LEMMA NothingNew ==
    ASSUME NEW fs \in Seq(FrameRecord), NEW gs, SameTold(fs, gs), NEW x \in ChildRecord, NEW y \in ChildRecord,
           y.turn = x.turn, y.question = x.question, y.mail = x.mail \/ y.mail # <<>>,
           Steady, Card(fs, x)
    PROVE  Card(gs, y)'
<1>1. Chained(gs)
  BY DEF SameTold, Card
<1>2. Ending(gs, y)
  <2> SUFFICES ASSUME NEW i \in DOMAIN gs, Newest(gs, i)
               PROVE  IF y.turn = "none"
                      THEN /\ gs[i].type = "agent_end"
                           /\ y.mail = <<>> =>
                                  \A k \in DOMAIN gs : Adjacent(gs, k, i) => gs[k].type # "request"
                      ELSE IF y.question = None
                      THEN gs[i].type \in {"agent_start", "ask_end", "auto_retry_end"}
                      ELSE gs[i].type = "request" /\ gs[i].question = y.question
    BY DEF Ending
  <2>1. PICK j \in DOMAIN fs :
               /\ Newest(fs, j) /\ fs[j] = gs[i]
               /\ \A k \in DOMAIN gs : Adjacent(gs, k, i) =>
                      \E l \in DOMAIN fs : Adjacent(fs, l, j) /\ fs[l] = gs[k]
    BY DEF SameTold
  <2> QED
    BY <2>1 DEF Card, Ending
<1>3. Beginning(gs, y)'
  <2> SUFFICES ASSUME ~Begins(gs), y.turn # "none" \/ y.mail = <<>>
               PROVE  /\ Loud(gs) = {} => Agrees(y)'
                      /\ \A i \in DOMAIN gs : Oldest(gs, i) => ReadyFor(gs[i])'
    BY DEF Beginning
  <2>1. ~Begins(fs) /\ (x.turn # "none" \/ x.mail = <<>>)
    BY DEF SameTold
  <2>2. ASSUME Loud(gs) = {} PROVE Agrees(y)'
    <3>1. Agrees(x)
      BY <2>1, <2>2 DEF SameTold, Card, Beginning
    <3>2. x.question \in Question
      BY DEF ChildRecord
    <3>3. PICK q \in Question : q = x.question /\ q = y.question
      BY <3>2, Zenon
    <3>4. (Goes => Goes') /\ (Shows(q) => Shows(q)')
      BY DEF Steady, Goes, Shows, WaitingFor
    <3>5. (pending = None => pending' = None) /\ (status \notin Waiting => status' \notin Waiting)
      BY DEF Steady
    <3> QED
      BY <3>1, <3>3, <3>4, <3>5 DEF Agrees
  <2>3. ASSUME NEW i \in DOMAIN gs, Oldest(gs, i) PROVE ReadyFor(gs[i])'
    <3>1. PICK j \in DOMAIN fs : Oldest(fs, j) /\ fs[j] = gs[i]
      BY <2>3 DEF SameTold
    <3>2. ReadyFor(gs[i])
      BY <2>1, <3>1 DEF Card, Beginning
    <3>3. DOMAIN fs = 1..Len(fs) /\ fs[j] \in FrameRecord
      OBVIOUS
    <3>4. PICK g \in FrameRecord : g = fs[j] /\ g = gs[i]
      BY <3>1, <3>3, Zenon
    <3>5. g.question \in Question
      BY DEF FrameRecord
    <3>6. (Goes => Goes') /\ (Repeats => Repeats') /\ (Shows(g.question) => Shows(g.question)')
          /\ (status \notin Waiting => status' \notin Waiting)
      BY <3>5 DEF Steady, Goes, Shows, Repeats, WaitingFor
    <3>7. ReadyFor(g) => ReadyFor(g)'
      BY <3>6 DEF ReadyFor
    <3> QED
      BY <3>2, <3>4, <3>7
  <2> QED
    BY <2>2, <2>3
<1> QED
  BY <1>1, <1>2, <1>3 DEF Card

\* The tracker hears what it was ready for, and is ready for what follows.
LEMMA Handled ==
    ASSUME NEW fs \in Seq(FrameRecord), fs # <<>>, NEW gs, Shorter(fs, gs), ~Quiet(fs[1]),
           NEW x \in ChildRecord, Card(fs, x), NEW g, g = fs[1],
           g.type = "agent_start" => Goes',
           g.type = "request" /\ Goes => Shows(g.question)',
           g.type = "ask_end" /\ (Goes \/ Shows(g.question)) => Goes',
           g.type = "auto_retry_start" /\ Goes => Repeats',
           g.type = "auto_retry_end" /\ Repeats => Goes',
           g.type = "agent_end" /\ status \notin Waiting => pending' = None /\ status' \notin Waiting
    PROVE  Card(gs, x)'
<1>1. /\ \A i \in Loud(gs) : gs[i] = fs[i + 1]
      /\ \A i : Newest(gs, i) => Newest(fs, i + 1)
      /\ \A i, j : Adjacent(gs, i, j) => Adjacent(fs, i + 1, j + 1)
      /\ Chained(fs) => Chained(gs)
      /\ g.type # "agent_start" => (Begins(fs) => Begins(gs))
      /\ \A i : Oldest(gs, i) => Adjacent(fs, 1, i + 1)
      /\ Loud(gs) = {} => Newest(fs, 1)
      /\ Oldest(fs, 1)
  BY ShorterChains, Zenon
<1>2. \A i, j : (Oldest(gs, i) \/ Newest(gs, i) \/ Adjacent(gs, i, j)) =>
                    gs[i] = fs[i + 1] /\ i + 1 \in DOMAIN fs /\ i \in DOMAIN gs
  <2>1. \A i, j : (Oldest(gs, i) \/ Newest(gs, i) \/ Adjacent(gs, i, j)) => i \in Loud(gs)
    BY DEF Oldest, Newest, Adjacent
  <2>2. \A i \in Loud(gs) : i \in DOMAIN gs /\ i + 1 \in Loud(fs)
    BY ShorterChains DEF Loud
  <2> QED
    BY <1>1, <2>1, <2>2 DEF Loud
<1>3. 1 \in DOMAIN fs /\ g \in FrameRecord /\ DOMAIN fs = 1..Len(fs)
  OBVIOUS
<1>4. Ending(gs, x)
  <2> SUFFICES ASSUME NEW i \in DOMAIN gs, Newest(gs, i)
               PROVE  IF x.turn = "none"
                      THEN /\ gs[i].type = "agent_end"
                           /\ x.mail = <<>> =>
                                  \A k \in DOMAIN gs : Adjacent(gs, k, i) => gs[k].type # "request"
                      ELSE IF x.question = None
                      THEN gs[i].type \in {"agent_start", "ask_end", "auto_retry_end"}
                      ELSE gs[i].type = "request" /\ gs[i].question = x.question
    BY DEF Ending
  <2>1. Newest(fs, i + 1) /\ gs[i] = fs[i + 1] /\ i + 1 \in DOMAIN fs
    BY <1>1, <1>2
  <2>2. \A k \in DOMAIN gs : Adjacent(gs, k, i) =>
            k + 1 \in DOMAIN fs /\ Adjacent(fs, k + 1, i + 1) /\ gs[k] = fs[k + 1]
    BY <1>1, <1>2
  <2> QED
    BY <2>1, <2>2 DEF Card, Ending
<1>5. ASSUME Loud(gs) = {}
      PROVE  /\ g.type # "auto_retry_start"
             /\ x.turn = "none" <=> g.type = "agent_end"
             /\ x.question = None \/ x.turn = "none" <=> g.type # "request"
             /\ g.type = "request" => x.question = g.question
  BY <1>1, <1>3, <1>5 DEF Card, Ending
<1>6. ASSUME NEW i \in DOMAIN gs, Oldest(gs, i) PROVE MayFollow(g, gs[i])
  BY <1>1, <1>2, <1>3, <1>6 DEF Card, Chained, Linked
<1>7. g.type \in FrameTypes \ {"ack", "state", "unknown"}
  BY <1>3 DEF FrameRecord, Quiet
<1>8. Beginning(gs, x)'
  <2> SUFFICES ASSUME ~Begins(gs), x.turn # "none" \/ x.mail = <<>>
               PROVE  /\ Loud(gs) = {} => Agrees(x)'
                      /\ \A i \in DOMAIN gs : Oldest(gs, i) => ReadyFor(gs[i])'
    BY DEF Beginning
  <2>1. g.type # "agent_start" => ReadyFor(g)
    BY <1>1, <1>3 DEF Card, Beginning
  <2>2. CASE g.type \in {"agent_start", "ask_end", "auto_retry_end"}
    <3>1. Goes' /\ status' \notin Waiting
      BY <2>1, <2>2 DEF ReadyFor, Goes, Waiting
    <3>2. ASSUME Loud(gs) = {} PROVE Agrees(x)'
      BY <1>5, <2>2, <3>1, <3>2 DEF Agrees
    <3>3. ASSUME NEW i \in DOMAIN gs, Oldest(gs, i) PROVE ReadyFor(gs[i])'
      <4>1. gs[i].type \in {"request", "auto_retry_start", "agent_end"}
        BY <1>6, <2>2, <3>3 DEF MayFollow
      <4> QED
        BY <3>1, <4>1 DEF ReadyFor
    <3> QED
      BY <3>2, <3>3
  <2>3. CASE g.type = "request"
    <3>1. Shows(g.question)'
      BY <2>1, <2>3 DEF ReadyFor
    <3>2. ASSUME Loud(gs) = {} PROVE Agrees(x)'
      BY <1>5, <2>3, <3>1, <3>2 DEF Agrees
    <3>3. ASSUME NEW i \in DOMAIN gs, Oldest(gs, i) PROVE ReadyFor(gs[i])'
      <4>1. (gs[i].type = "ask_end" /\ gs[i].question = g.question) \/ gs[i].type = "agent_end"
        BY <1>6, <2>3, <3>3 DEF MayFollow
      <4>2. gs[i].type # "agent_end"
        <5> SUFFICES ASSUME gs[i].type = "agent_end" PROVE FALSE
          OBVIOUS
        <5>1. Newest(gs, i)
          BY <1>1 DEF Card, Chained, Begins
        <5>2. Newest(fs, i + 1) /\ i + 1 \in DOMAIN fs /\ fs[i + 1].type = "agent_end"
              /\ Adjacent(fs, 1, i + 1)
          BY <1>1, <1>2, <3>3, <5>1
        <5>3. x.turn = "none" /\ x.mail = <<>>
          BY <5>2 DEF Card, Ending
        <5> QED
          BY <1>3, <2>3, <5>2, <5>3 DEF Card, Ending
      <4> QED
        BY <3>1, <4>1, <4>2 DEF ReadyFor
    <3> QED
      BY <3>2, <3>3
  <2>4. CASE g.type = "auto_retry_start"
    <3>1. Repeats'
      BY <2>1, <2>4 DEF ReadyFor
    <3>2. ASSUME NEW i \in DOMAIN gs, Oldest(gs, i) PROVE ReadyFor(gs[i])'
      <4>1. gs[i].type = "auto_retry_end"
        BY <1>6, <2>4, <3>2 DEF MayFollow
      <4> QED
        BY <3>1, <4>1 DEF ReadyFor
    <3> QED
      BY <1>5, <2>4, <3>2
  <2>5. CASE g.type = "agent_end"
    <3>1. pending' = None /\ status' \notin Waiting
      BY <2>1, <2>5 DEF ReadyFor
    <3>2. ASSUME Loud(gs) = {} PROVE Agrees(x)'
      BY <1>5, <2>5, <3>1, <3>2 DEF Agrees
    <3>3. ASSUME NEW i \in DOMAIN gs, Oldest(gs, i) PROVE ReadyFor(gs[i])'
      <4>1. gs[i].type = "agent_start"
        BY <1>6, <2>5, <3>3 DEF MayFollow
      <4> QED
        BY <4>1 DEF ReadyFor
    <3> QED
      BY <3>2, <3>3
  <2> QED
    BY <1>7, <2>2, <2>3, <2>4, <2>5 DEF FrameTypes
<1> QED
  BY <1>1, <1>4, <1>8 DEF Card

\* A child writes what may follow, and is at what it wrote.
LEMMA Written ==
    ASSUME NEW fs \in Seq(FrameRecord), NEW f \in FrameRecord, NEW gs, Longer(fs, f, gs), ~Quiet(f),
           Chained(fs), \A i \in DOMAIN fs : Newest(fs, i) => MayFollow(fs[i], f),
           NEW y \in ChildRecord,
           IF y.turn = "none"
           THEN /\ f.type = "agent_end"
                /\ y.mail = <<>> => \A k \in DOMAIN fs : Newest(fs, k) => fs[k].type # "request"
           ELSE IF y.question = None
           THEN f.type \in {"agent_start", "ask_end", "auto_retry_end"}
           ELSE f.type = "request" /\ f.question = y.question
    PROVE  Chained(gs) /\ Ending(gs, y)
<1>1. Chained(gs)
  BY LongerChains, Zenon
<1>2. ASSUME NEW i \in DOMAIN gs, Newest(gs, i) PROVE i = Len(gs) /\ gs[i] = f
  BY <1>2, LongerChains DEF Longer
<1>3. ASSUME NEW k \in DOMAIN gs, Adjacent(gs, k, Len(gs))
      PROVE  Newest(fs, k) /\ gs[k] = fs[k] /\ k \in DOMAIN fs
  BY <1>3, LongerChains DEF Newest, Loud
<1>4. Ending(gs, y)
  BY <1>2, <1>3 DEF Ending
<1> QED
  BY <1>1, <1>4

\* What the tracker is ready for when nothing else is waiting, it will be.
LEMMA WrittenBegins ==
    ASSUME NEW fs \in Seq(FrameRecord), NEW f \in FrameRecord, NEW gs, Longer(fs, f, gs), ~Quiet(f),
           NEW x \in ChildRecord, NEW y \in ChildRecord, Beginning(fs, x),
           \/ f.type = "agent_start"
           \/ /\ x.turn # "none" \/ x.mail = <<>>
              /\ Loud(fs) = {} /\ ~Begins(fs) => ReadyFor(f)
    PROVE  Beginning(gs, y)
<1>1. /\ Loud(gs) = Loud(fs) \cup {Len(gs)}
      /\ \A i : Oldest(gs, i) => Oldest(fs, i) \/ (Loud(fs) = {} /\ i = Len(gs))
  BY LongerChains
<1>2. /\ DOMAIN fs \subseteq DOMAIN gs /\ Len(gs) \in DOMAIN gs /\ gs[Len(gs)] = f
      /\ \A i \in DOMAIN fs : gs[i] = fs[i]
  BY DEF Longer
<1>3. f.type = "agent_start" \/ Begins(fs) => Begins(gs)
  BY <1>2 DEF Begins
<1>4. ASSUME ~Begins(gs), NEW i \in DOMAIN gs, Oldest(gs, i) PROVE ReadyFor(gs[i])
  <2>1. ~Begins(fs) /\ (x.turn # "none" \/ x.mail = <<>>)
    BY <1>3, <1>4
  <2>2. CASE Oldest(fs, i)
    BY <1>2, <2>1, <2>2 DEF Beginning, Oldest, Loud
  <2>3. CASE Loud(fs) = {} /\ i = Len(gs)
    BY <1>2, <1>3, <1>4, <2>1, <2>3
  <2> QED
    BY <1>1, <1>4, <2>2, <2>3
<1> QED
  BY <1>1, <1>4 DEF Beginning

\* Questions are numbered as they are asked; the frames of later ones follow.
Numbers(fs, p, n) ==
    /\ p.id <= n
    /\ \A i \in DOMAIN fs :
           /\ fs[i].type = "request" => p.id < fs[i].question.id /\ fs[i].question.id <= n
           /\ fs[i].type = "ask_end" => fs[i].question.kind = "ask"
           /\ \A j \in DOMAIN fs : i < j /\ fs[i].type = "request" /\ fs[j].type = "request"
                  => fs[i].question.id < fs[j].question.id

\* One answer to get_state is awaited at a time.
OneState(fs, d) ==
    /\ \A i \in DOMAIN fs : fs[i].type = "state" => d = "asked"
    /\ \A i, j \in DOMAIN fs : fs[i].type = "state" /\ fs[j].type = "state" => i = j

LEMMA FrameQuestions ==
    ASSUME NEW fs \in Seq(FrameRecord), NEW i \in DOMAIN fs
    PROVE  fs[i] \in FrameRecord /\ fs[i].question \in Question /\ fs[i].question.id \in Nat
<1>1. DOMAIN fs = 1..Len(fs) /\ fs[i] \in FrameRecord
  OBVIOUS
<1> QED
  BY <1>1 DEF FrameRecord, Question

LEMMA LongerNumbers ==
    ASSUME NEW fs \in Seq(FrameRecord), NEW f \in FrameRecord, NEW gs, Longer(fs, f, gs),
           NEW p \in Question, NEW q \in Question, NEW n \in Nat, NEW m \in Nat,
           Numbers(fs, p, n), q.id <= p.id, n <= m,
           f.type = "request" => n < f.question.id /\ f.question.id <= m,
           f.type = "ask_end" => f.question.kind = "ask"
    PROVE  Numbers(gs, q, m)
<1>0. /\ DOMAIN fs = 1..Len(fs) /\ DOMAIN gs = 1..(Len(fs) + 1) /\ Len(fs) \in Nat
      /\ gs[Len(fs) + 1] = f /\ \A i \in DOMAIN fs : gs[i] = fs[i]
      /\ \A i \in DOMAIN gs : i \in DOMAIN fs \/ i = Len(fs) + 1
  BY DEF Longer
<1>1. p.id \in Nat /\ q.id \in Nat /\ f.question.id \in Nat
  BY DEF Question, FrameRecord
<1>2. \A i \in DOMAIN fs : fs[i].question.id \in Nat
  BY FrameQuestions
<1>3. ASSUME NEW i \in DOMAIN gs
      PROVE  /\ gs[i].type = "request" => q.id < gs[i].question.id /\ gs[i].question.id <= m
             /\ gs[i].type = "ask_end" => gs[i].question.kind = "ask"
  BY <1>0, <1>1, <1>2, <1>3 DEF Numbers
<1>4. ASSUME NEW i \in DOMAIN gs, NEW j \in DOMAIN gs, i < j,
             gs[i].type = "request", gs[j].type = "request"
      PROVE  gs[i].question.id < gs[j].question.id
  <2>1. i \in DOMAIN fs
    BY <1>0, <1>4
  <2>2. gs[i] = fs[i] /\ fs[i].question.id <= n /\ fs[i].question.id \in Nat
    BY <1>0, <1>2, <1>4, <2>1 DEF Numbers
  <2>3. CASE j \in DOMAIN fs
    BY <1>0, <1>4, <2>1, <2>3 DEF Numbers
  <2>4. CASE j = Len(fs) + 1
    BY <1>0, <1>1, <1>4, <2>2, <2>4
  <2> QED
    BY <1>0, <2>3, <2>4
<1> QED
  BY <1>1, <1>3, <1>4 DEF Numbers

LEMMA ShorterNumbers ==
    ASSUME NEW fs \in Seq(FrameRecord), fs # <<>>, NEW gs, Shorter(fs, gs),
           NEW p \in Question, NEW q \in Question, NEW n \in Nat, Numbers(fs, p, n),
           q.id <= p.id \/ (fs[1].type = "request" /\ q = fs[1].question)
    PROVE  Numbers(gs, q, n)
<1>0. /\ DOMAIN fs = 1..Len(fs) /\ DOMAIN gs = 1..(Len(fs) - 1) /\ Len(fs) \in Nat \ {0}
      /\ \A i \in DOMAIN gs : /\ i + 1 \in DOMAIN fs /\ i \in Nat /\ 1 < i + 1
                              /\ gs[i].type \in {"request", "ask_end"} => gs[i] = fs[i + 1]
      /\ 1 \in DOMAIN fs
  BY DEF Shorter
<1>1. p.id \in Nat /\ q.id \in Nat /\ \A i \in DOMAIN fs : fs[i].question.id \in Nat
  BY FrameQuestions DEF Question
<1>2. q.id <= n /\ \A i \in DOMAIN fs : 1 < i /\ fs[i].type = "request" => q.id < fs[i].question.id
  BY <1>0, <1>1 DEF Numbers
<1> QED
  BY <1>0, <1>2 DEF Numbers

LEMMA ShorterStates ==
    ASSUME NEW fs \in Seq(FrameRecord), fs # <<>>, NEW gs, Shorter(fs, gs), NEW d, OneState(fs, d)
    PROVE  /\ OneState(gs, d)
           /\ fs[1].type = "state" => \A e : OneState(gs, e)
<1>0. /\ DOMAIN fs = 1..Len(fs) /\ DOMAIN gs = 1..(Len(fs) - 1) /\ Len(fs) \in Nat \ {0}
      /\ \A i \in DOMAIN gs : /\ i + 1 \in DOMAIN fs /\ i \in Nat /\ i # 0
                              /\ gs[i].type = "state" => gs[i] = fs[i + 1]
      /\ 1 \in DOMAIN fs
  BY DEF Shorter
<1>1. \A i, j \in DOMAIN gs : i + 1 = j + 1 => i = j
  BY <1>0
<1>2. OneState(gs, d)
  BY <1>0, <1>1 DEF OneState
<1>3. ASSUME fs[1].type = "state", NEW i \in DOMAIN gs PROVE gs[i].type # "state"
  BY <1>0, <1>3 DEF OneState
<1> QED
  BY <1>2, <1>3 DEF OneState

LEMMA LongerStates ==
    ASSUME NEW fs \in Seq(FrameRecord), NEW f \in FrameRecord, NEW gs, Longer(fs, f, gs),
           NEW d, OneState(fs, d)
    PROVE  /\ f.type # "state" => OneState(gs, d)
           /\ d # "asked" => OneState(gs, "asked")
<1>0. \A i \in DOMAIN gs : (i \in DOMAIN fs /\ gs[i] = fs[i]) \/ (i = Len(fs) + 1 /\ gs[i] = f)
  BY DEF Longer
<1> QED
  BY <1>0 DEF OneState

-----------------------------------------------------------------------------
(* The children the supervisor starts and retires                           *)

Unstarted == {"none", "starting"}

\* A child that never lived has nothing to do, and is not being retired; nor
\* is the registered one, which did live if it is in hand.
FreshChildren ==
    /\ \A c \in Children : child[c].at \in Unstarted => ~Busy(c) /\ ~child[c].retiring
    /\ registered # 0 => ~child[registered].retiring
    /\ run.at = "changing" => child[run.child].at \notin Unstarted

\* No child goes back to where it was before it lived.
Aged(y, x) == y.at \in Unstarted =>
                  x.at \in Unstarted /\ y.turn = x.turn /\ y.mail = x.mail

LEMMA ChildrenAge ==
    ASSUME HandoffInv, Next, ~Restart, NEW d \in Children
    PROVE  Aged(child'[d], child[d])
<1> USE DEF Aged
<1>0. /\ SessionTypes /\ child \in [Children -> ChildRecord]
      /\ run.at \in Handing \cup {"applied"} => run.child \in Children
      /\ registered \in Children \cup {0}
  BY DEF HandoffInv, SessionTypes, InHand
<1>1. CASE child' = child
  BY <1>1 DEF Aged
<1>2. ASSUME NEW c \in Children, NEW y, child' = [child EXCEPT ![c] = y], Aged(y, child[c])
      PROVE  Aged(child'[d], child[d])
  BY <1>0, <1>2 DEF Aged
<1>3. ASSUME NEW c \in Children, \A e \in Children : e # c => child'[e] = child[e],
             child'[c].at \in {"live", "dead", "gone"}
      PROVE  Aged(child'[d], child[d])
  BY <1>3 DEF Unstarted
<1>4. CASE Daemon \/ Stalls
  <2>1. CASE \E c \in Children : ExitSeen(c)
    <3>1. PICK c \in Children : child' = [child EXCEPT ![c] = [NoChild EXCEPT !.at = "gone"]]
      BY <2>1 DEF ExitSeen
    <3>2. child'[c].at = "gone" /\ \A e \in Children : e # c => child'[e] = child[e]
      BY <1>0, <3>1, GoneType
    <3> QED
      BY <1>3, <3>2
  <2>2. CASE HandleFrame \/ Acked \/ DebounceAsks \/ DebounceHears \/ StepHears \/ Stalls
    BY <1>1, <2>2 DEF HandleFrame, Acked, DebounceAsks, DebounceHears, StepHears, Stalls
  <2> QED
    BY <1>4, <2>1, <2>2 DEF Daemon
<1>5. CASE Entering
  <2>1. ASSUME NEW resumed \in BOOLEAN, Starts(resumed) PROVE Aged(child'[d], child[d])
    <3>1. PICK c \in Children : /\ child[c].at = "none"
                                /\ child' = [child EXCEPT ![c] = [child[c] EXCEPT !.at = "starting"]]
      BY <2>1 DEF Starts
    <3>2. Aged([child[c] EXCEPT !.at = "starting"], child[c])
      <4>1. \A x \in ChildRecord : LET y == [x EXCEPT !.at = "starting"] IN
                                   y.turn = x.turn /\ y.mail = x.mail
        BY DEF ChildRecord
      <4> QED
        BY <1>0, <3>1, <4>1 DEF Aged, Unstarted
    <3> QED
      BY <1>2, <3>1, <3>2
  <2>2. CASE Enter \/ Retired
    BY <1>1, <2>1, <2>2 DEF Enter, Retired
  <2>3. CASE NotAtBoundary \/ AtBoundary
    BY <1>1, <2>3 DEF NotAtBoundary, AtBoundary
  <2>4. CASE Reconfigure
    <3>1. \A x \in ChildRecord : [x EXCEPT !.policy.active = Wanted.active].at = x.at
      BY DEF ChildRecord
    <3>2. /\ child' = [child EXCEPT ![run.child] =
                          [child[run.child] EXCEPT !.policy.active = Wanted.active]]
          /\ run.child \in Children /\ child[run.child].at = "live"
      BY <1>0, <2>4 DEF Reconfigure, Handing, Live
    <3>3. /\ child'[run.child].at = "live"
          /\ \A e \in Children : e # run.child => child'[e] = child[e]
      BY <1>0, <3>1, <3>2
    <3> QED
      BY <1>3, <3>2, <3>3
  <2>5. CASE Started
    <3>1. \A x \in ChildRecord : [x EXCEPT !.at = "live", !.policy = Verified].at = "live"
      BY DEF ChildRecord
    <3>2. /\ child' = [child EXCEPT ![run.child] =
                          [child[run.child] EXCEPT !.at = "live", !.policy = Verified]]
          /\ run.child \in Children
      BY <1>0, <2>5 DEF Started, Handing
    <3>3. /\ child'[run.child].at = "live"
          /\ \A e \in Children : e # run.child => child'[e] = child[e]
      BY <1>0, <3>1, <3>2
    <3> QED
      BY <1>3, <3>2, <3>3
  <2>6. CASE StartFails
    <3>1. /\ child' = [child EXCEPT ![run.child] = [NoChild EXCEPT !.at = "gone"]]
          /\ run.child \in Children
      BY <1>0, <2>6 DEF StartFails, Abandons, Handing
    <3>2. /\ child'[run.child].at = "gone"
          /\ \A e \in Children : e # run.child => child'[e] = child[e]
      BY <1>0, <3>1, GoneType
    <3> QED
      BY <1>3, <3>1, <3>2
  <2>7. CASE Replace \/ ReconfigureFails
    <3>1. \/ child' = [child EXCEPT ![run.child] = [child[run.child] EXCEPT !.retiring = TRUE]]
          \/ child' = [child EXCEPT ![run.child] =
                          [child[run.child] EXCEPT !.policy.active = 0, !.retiring = TRUE]]
      BY <2>7 DEF Replace, ReconfigureFails, Retire, GiveUp
    <3>2. run.child \in Children
      BY <1>0, <2>7 DEF Replace, ReconfigureFails, Handing
    <3>3. \A x \in ChildRecord :
              /\ Aged([x EXCEPT !.retiring = TRUE], x)
              /\ Aged([x EXCEPT !.policy.active = 0, !.retiring = TRUE], x)
      BY DEF ChildRecord, Aged
    <3>4. CASE child' = [child EXCEPT ![run.child] = [child[run.child] EXCEPT !.retiring = TRUE]]
      BY <1>0, <1>2, <3>2, <3>3, <3>4
    <3>5. CASE child' = [child EXCEPT ![run.child] =
                            [child[run.child] EXCEPT !.policy.active = 0, !.retiring = TRUE]]
      BY <1>0, <1>2, <3>2, <3>3, <3>5
    <3> QED
      BY <3>1, <3>4, <3>5
  <2> QED
    BY <1>5, <2>2, <2>3, <2>4, <2>5, <2>6, <2>7 DEF Entering
<1>6. CASE Driving
  <2>1. CASE Skip \/ PromptFails
    BY <1>1, <2>1 DEF Skip, PromptFails
  <2>2. CASE Prompt
    <3>1. PICK m : child' = [child EXCEPT ![run.child] = [child[run.child] EXCEPT !.mail = m]]
      BY <2>2 DEF Prompt
    <3>2. run.child \in Children /\ child[run.child].at = "live"
      BY <1>0, <2>2 DEF Prompt, Live
    <3>3. \A x \in ChildRecord : [x EXCEPT !.mail = m].at = x.at
      BY DEF ChildRecord
    <3>4. /\ child'[run.child].at = "live"
          /\ \A e \in Children : e # run.child => child'[e] = child[e]
      BY <1>0, <3>1, <3>2, <3>3
    <3> QED
      BY <1>3, <3>2, <3>4
  <2> QED
    BY <1>6, <2>1, <2>2 DEF Driving
<1>7. CASE Agent
  <2>1. PICK c \in Children : \/ Begin(c) \/ Asks(c, "ask") \/ Asks(c, "approval")
                              \/ Withdraws(c) \/ Retries(c) \/ Ends(c) \/ Dies(c)
    BY <1>7 DEF Agent
  <2>2. child[c].at = "live"
    BY <2>1 DEF Begin, Asks, Withdraws, Retries, Ends, Dies, ChildSteps, Live
  <2>3. \/ child' = child
        \/ \E u, m : child' = [child EXCEPT ![c] = [child[c] EXCEPT !.turn = u, !.mail = m]]
        \/ \E q : child' = [child EXCEPT ![c] = [child[c] EXCEPT !.question = q]]
        \/ child' = [child EXCEPT ![c] = [child[c] EXCEPT !.turn = "none"]]
        \/ child' = [child EXCEPT ![c] = [child[c] EXCEPT !.at = "dead"]]
    <3>1. CASE Begin(c)
      BY <3>1 DEF Begin
    <3>2. CASE Asks(c, "ask") \/ Asks(c, "approval") \/ Withdraws(c)
      BY <3>2 DEF Asks, Withdraws
    <3>3. CASE Retries(c) \/ Ends(c) \/ Dies(c)
      BY <3>3 DEF Retries, Ends, Dies
    <3> QED
      BY <2>1, <3>1, <3>2, <3>3
  <2>4. \A x \in ChildRecord : x.at = "live" =>
            /\ \A u, m : [x EXCEPT !.turn = u, !.mail = m].at = "live"
            /\ \A q : [x EXCEPT !.question = q].at = "live"
            /\ [x EXCEPT !.turn = "none"].at = "live"
            /\ [x EXCEPT !.at = "dead"].at = "dead"
    BY DEF ChildRecord
  <2>5. \/ child' = child
        \/ /\ child'[c].at \in {"live", "dead"}
           /\ \A e \in Children : e # c => child'[e] = child[e]
    <3>1. CASE \E u, m : child' = [child EXCEPT ![c] = [child[c] EXCEPT !.turn = u, !.mail = m]]
      BY <1>0, <2>2, <2>4, <3>1
    <3>2. CASE \E q : child' = [child EXCEPT ![c] = [child[c] EXCEPT !.question = q]]
      BY <1>0, <2>2, <2>4, <3>2
    <3>3. CASE child' = [child EXCEPT ![c] = [child[c] EXCEPT !.turn = "none"]]
      BY <1>0, <2>2, <2>4, <3>3
    <3>4. CASE child' = [child EXCEPT ![c] = [child[c] EXCEPT !.at = "dead"]]
      BY <1>0, <2>2, <2>4, <3>4
    <3> QED
      BY <2>3, <3>1, <3>2, <3>3, <3>4
  <2> QED
    BY <1>1, <1>3, <2>5
<1>8. CASE Operator
  <2> DEFINE c == registered
  <2>1. c \in Children /\ child[c].at = "live"
    BY <1>0, <1>8 DEF Operator, FollowUp, Interrupt, Answer, Stop, Acquires, Live
  <2>2. \/ child' = child
        \/ \E m : child' = [child EXCEPT ![c] = [child[c] EXCEPT !.mail = m]]
        \/ \E m : child' = [child EXCEPT ![c] =
                      [child[c] EXCEPT !.turn = "none", !.question = None, !.mail = m]]
        \/ child' = [child EXCEPT ![c] = [child[c] EXCEPT !.question = None]]
        \/ child' = [child EXCEPT ![c] = [child[c] EXCEPT !.at = "dead"]]
    BY <1>8 DEF Operator, FollowUp, Interrupt, Answer, Stop
  <2>3. \A x \in ChildRecord : x.at = "live" =>
            /\ \A m : /\ [x EXCEPT !.mail = m].at = "live"
                      /\ [x EXCEPT !.turn = "none", !.question = None, !.mail = m].at = "live"
            /\ [x EXCEPT !.question = None].at = "live"
            /\ [x EXCEPT !.at = "dead"].at = "dead"
    BY DEF ChildRecord
  <2>4. \/ child' = child
        \/ /\ child'[c].at \in {"live", "dead"}
           /\ \A e \in Children : e # c => child'[e] = child[e]
    <3>1. CASE \E m : child' = [child EXCEPT ![c] = [child[c] EXCEPT !.mail = m]]
      BY <1>0, <2>1, <2>3, <3>1
    <3>2. CASE \E m : child' = [child EXCEPT ![c] =
                      [child[c] EXCEPT !.turn = "none", !.question = None, !.mail = m]]
      BY <1>0, <2>1, <2>3, <3>2
    <3>3. CASE child' = [child EXCEPT ![c] = [child[c] EXCEPT !.question = None]]
      BY <1>0, <2>1, <2>3, <3>3
    <3>4. CASE child' = [child EXCEPT ![c] = [child[c] EXCEPT !.at = "dead"]]
      BY <1>0, <2>1, <2>3, <3>4
    <3> QED
      BY <2>2, <3>1, <3>2, <3>3, <3>4
  <2> QED
    BY <1>1, <1>3, <2>1, <2>4
<1> QED
  BY <1>4, <1>5, <1>6, <1>7, <1>8 DEF Next

\* A restarted run is between two steps, or its session is resumed first.
LEMMA RestartedRun ==
    ASSUME Restart
    PROVE  run'.at \in {"ready", "recovering"}
<1>1. CASE run' = [Between EXCEPT !.step = run.step]
  <2>1. \A s : [Between EXCEPT !.step = s].at = "ready"
    BY DEF Between
  <2> QED
    BY <1>1, <2>1
<1>2. ASSUME NEW c \in Children,
             run' = [Between EXCEPT !.at = "recovering", !.step = run.step, !.child = c]
      PROVE  run'.at \in {"ready", "recovering"}
  <2>1. \A s, d : [Between EXCEPT !.at = "recovering", !.step = s, !.child = d].at = "recovering"
    BY DEF Between
  <2> QED
    BY <1>2, <2>1
<1>3. CASE known
  BY <1>2, <1>3 DEF Restart
<1>4. CASE ~known
  BY <1>1, <1>4 DEF Restart
<1> QED
  BY <1>3, <1>4

\* Who is registered stays so until nobody is, or a started child comes.
LEMMA Registers ==
    ASSUME HandoffInv, Next
    PROVE  /\ registered' \in {0, registered} \/ Started
           /\ run'.at = "changing" =>
                  AtBoundary \/ (run.at = "changing" /\ run'.child = run.child)
<1>0. SessionTypes /\ run \in RunRecord /\ 1 \in Children
  BY SessionAssumption DEF HandoffInv, SessionTypes, Children
<1>00. \A s : [Between EXCEPT !.step = s].at = "ready"
  BY DEF Between
<1>01. Failed.at = "ready" /\ Sequel.at = "ready"
  BY <1>00 DEF Failed, Sequel
<1>1. CASE Daemon \/ Stalls
  <2>1. registered' \in {0, registered}
    BY <1>1 DEF Daemon, Stalls, HandleFrame, Acked, DebounceAsks, DebounceHears, StepHears,
                ExitSeen
  <2>2. CASE HandleFrame \/ Stalls
    BY <2>1, <2>2 DEF HandleFrame, Stalls
  <2>3. CASE Acked
    BY <1>0, <2>1, <2>3 DEF Acked, RunRecord
  <2>4. CASE DebounceAsks \/ DebounceHears \/ \E c \in Children : ExitSeen(c)
    <3>1. run' = run \/ Hears("idle") \/ Hears("exited")
      BY <2>4 DEF DebounceAsks, DebounceHears, ExitSeen
    <3> QED
      BY <1>0, <2>1, <3>1, Notes
  <2>5. CASE StepHears
    BY <1>01, <2>1, <2>5 DEF StepHears
  <2> QED
    BY <1>1, <2>2, <2>3, <2>4, <2>5 DEF Daemon
<1>2. CASE Entering
  <2>1. ASSUME NEW resumed \in BOOLEAN, Starts(resumed) PROVE run'.at = "starting"
    BY <1>0, <2>1 DEF Starts, RunRecord
  <2>2. CASE Enter \/ Retired
    <3>1. registered' = registered
      BY <2>2 DEF Enter, Retired
    <3>2. run'.at # "changing"
      BY <1>0, <1>01, <2>1, <2>2 DEF Enter, Retired, Refused, RunRecord
    <3> QED
      BY <3>1, <3>2
  <2>3. CASE NotAtBoundary \/ AtBoundary
    BY <1>01, <2>3 DEF NotAtBoundary, AtBoundary, Refused
  <2>4. CASE Reconfigure \/ ReconfigureFails \/ Replace
    <3>1. registered' \in {0, registered}
      BY <2>4 DEF Reconfigure, ReconfigureFails, Replace, GiveUp, Retire
    <3>2. run'.at # "changing"
      BY <1>0, <2>4 DEF Reconfigure, ReconfigureFails, Replace, GiveUp, RunRecord
    <3> QED
      BY <3>1, <3>2
  <2>5. CASE Started
    <3>1. run'.at # "changing"
      BY <1>0, <1>00, <2>5 DEF Started, RunRecord
    <3> QED
      BY <2>5, <3>1
  <2>6. CASE StartFails
    BY <1>00, <1>01, <2>6 DEF StartFails
  <2> QED
    BY <1>2, <2>2, <2>3, <2>4, <2>5, <2>6 DEF Entering
<1>3. CASE Driving
  <2>1. registered' = registered
    BY <1>3 DEF Driving, Skip, Prompt, PromptFails
  <2>2. run'.at # "changing"
    BY <1>0, <1>01, <1>3 DEF Driving, Skip, Prompt, PromptFails, RunRecord
  <2> QED
    BY <2>1, <2>2
<1>4. CASE Agent
  <2>1. PICK c \in Children : \/ Begin(c) \/ Asks(c, "ask") \/ Asks(c, "approval")
                              \/ Withdraws(c) \/ Retries(c) \/ Ends(c) \/ Dies(c)
    BY <1>4 DEF Agent
  <2>2. registered' = registered /\ (run' = run \/ Over(c))
    BY <2>1 DEF Begin, Asks, Withdraws, Retries, Ends, Dies, ChildSteps
  <2> QED
    BY <1>0, <2>2, Notes
<1>5. CASE Operator
  <2>1. registered' = registered /\ registered \in Children /\ (run' = run \/ Over(registered))
    BY <1>0, <1>5 DEF Operator, FollowUp, Interrupt, Answer, Stop, Acquires, Live, SessionTypes
  <2> QED
    BY <1>0, <2>1, Notes
<1>6. CASE Restart
  <2>1. registered' = 0
    BY <1>6 DEF Restart
  <2>2. run'.at # "changing"
    BY <1>6, RestartedRun
  <2> QED
    BY <2>1, <2>2
<1> QED
  BY <1>1, <1>2, <1>3, <1>4, <1>5, <1>6 DEF Next

\* A restart leaves no child that lived.
LEMMA RestartsFresh ==
    ASSUME HandoffInv, Restart
    PROVE  FreshChildren' /\ \A d \in Children : child'[d].at # "live"
<1> DEFINE gone == [c \in Children |-> IF child[c].at = "none" THEN NoChild
                                       ELSE [NoChild EXCEPT !.at = "gone"]]
<1>1. \A c \in Children : /\ gone[c] \in ChildRecord /\ ~gone[c].retiring /\ gone[c].at # "live"
                          /\ gone[c].turn = "none" /\ gone[c].mail = <<>>
  BY NoChildType, GoneType
<1>2. \A c \in Children : LET y == [gone[c] EXCEPT !.at = "starting"] IN
          ~y.retiring /\ y.at # "live" /\ y.turn = "none" /\ y.mail = <<>>
  BY <1>1, ChildStarts
<1>3. child' = gone \/ \E c \in Children : child' = [gone EXCEPT ![c] = [gone[c] EXCEPT !.at = "starting"]]
  BY DEF Restart
<1>4. gone = [c \in Children |-> gone[c]]
  OBVIOUS
<1> HIDE DEF gone
<1>5. \A d \in Children : /\ ~child'[d].retiring /\ child'[d].at # "live"
                          /\ child'[d].turn = "none" /\ child'[d].mail = <<>>
  BY <1>1, <1>2, <1>3, <1>4
<1>6. registered' = 0
  BY DEF Restart
<1>7. run'.at # "changing"
  BY RestartedRun
<1> QED
  BY <1>5, <1>6, <1>7 DEF FreshChildren, Busy

LEMMA FreshInit == Init => FreshChildren
  BY NoChildType, ChildNumbers DEF Init, FreshChildren, Busy, Between

LEMMA FreshKept == HandoffInv /\ HandoffInv' /\ FreshChildren /\ [Next]_vars => FreshChildren'
<1>1. HandoffInv /\ FreshChildren /\ UNCHANGED vars => FreshChildren'
  BY DEF FreshChildren, vars, Busy
<1> SUFFICES ASSUME HandoffInv, HandoffInv', FreshChildren, Next PROVE FreshChildren'
  BY <1>1
<1>0. /\ child \in [Children -> ChildRecord] /\ registered' \in Children \cup {0}
      /\ run.at \in {"changing", "starting", "recovering"} => run.child \in Children
  BY DEF HandoffInv, SessionTypes, InHand, Handing
<1>2. CASE Restart
  BY <1>2, RestartsFresh
<1>3. CASE ~Restart
  <2>1. \A d \in Children : child'[d].at \in Unstarted =>
            child[d].at \in Unstarted /\ ~Busy(d)' /\ ~child[d].retiring
    <3>1. \A d \in Children : Aged(child'[d], child[d])
      BY <1>3, ChildrenAge
    <3> QED
      BY <3>1 DEF Aged, FreshChildren, Busy
  <2>2. CASE Replace \/ ReconfigureFails
    <3>1. /\ run.at = "changing" /\ run'.at \in {"retiring", "abandoning"}
          /\ \A d \in Children : d # run.child => child'[d] = child[d]
      <4>1. run \in RunRecord
        BY DEF HandoffInv, SessionTypes
      <4> QED
        BY <1>0, <2>2, <4>1 DEF Replace, ReconfigureFails, Retire, GiveUp, RunRecord
    <3>2. registered' = 0
      BY <3>1 DEF HandoffInv, InHand
    <3>3. child[run.child].at \notin Unstarted /\ child'[run.child].at \notin Unstarted
      BY <1>0, <2>1, <3>1 DEF FreshChildren
    <3> QED
      BY <1>0, <2>1, <3>1, <3>2, <3>3 DEF FreshChildren, Busy
  <2>3. CASE ~Replace /\ ~ReconfigureFails
    <3>1. \A d \in Children : child'[d].retiring => child[d].retiring
      BY <2>3, OthersLeaveIt
    <3>2. registered' # 0 => ~child'[registered'].retiring
      <4>1. Started => registered' = run.child /\ child[run.child].at = "starting"
                       /\ run.child \in Children
        BY <1>0 DEF Started, HandoffInv, InHand
      <4> QED
        BY <1>0, <3>1, <4>1, Registers DEF FreshChildren, Unstarted
    <3>3. run'.at = "changing" => child'[run'.child].at \notin Unstarted
      <4>1. AtBoundary => run'.child = run.child /\ child[run.child].at = "live" /\ child' = child
        <5>1. run \in RunRecord
          BY DEF HandoffInv, SessionTypes
        <5> QED
          BY <5>1 DEF AtBoundary, Live, RunRecord
      <4> QED
        BY <1>0, <2>1, <4>1, Registers DEF FreshChildren, Unstarted
    <3> QED
      BY <2>1, <3>1, <3>2, <3>3 DEF FreshChildren, Busy
  <2> QED
    BY <2>2, <2>3
<1> QED
  BY <1>2, <1>3

-----------------------------------------------------------------------------
(* The tracker and the registered child                                     *)

\* A session is tracked while it has a child, or one is in hand.
Tracked == registered # 0 \/ run.at \in Handing => status # "none"

CardTypes == frames \in Seq(FrameRecord) /\ pending \in Question

\* While no child is registered, or the one that is has been found at its turn
\* boundary, no child is at work and the tracker waits for nothing.
Calm ==
    /\ pending = None /\ status \notin Waiting /\ Loud(frames) = {}
    /\ \A c \in Children : Live(c) => ~Busy(c)

Reads ==
    /\ OneState(frames, debounce) /\ Numbers(frames, pending, asked)
    /\ Live(registered) => watched = registered /\ Card(frames, child[registered])
    /\ registered = 0 \/ run.at = "changing" => Calm

CardInv == /\ HandoffInv /\ FreshChildren /\ CardTypes /\ Tracked
           /\ status # "failed" => Reads

\* The card, in the state a step leads to.
LEMMA CardIs ==
    ASSUME NEW gs, NEW y, gs = frames', y = child'[registered'], Card(gs, y)'
    PROVE  Card(frames, child[registered])'
<1>1. Chained(gs) /\ Ending(gs, y) /\ Beginning(gs, y)'
  BY DEF Card
<1>2. Chained(frames)'
  BY <1>1 DEF Chained, Linked, Newest, Adjacent, Loud
<1>3. Ending(frames, child[registered])'
  BY <1>1 DEF Ending, Newest, Adjacent, Loud
<1>4. Beginning(frames, child[registered])'
  BY <1>1 DEF Beginning, Begins, Loud, Oldest, Agrees, ReadyFor, Goes, Shows, Repeats
<1> QED
  BY <1>2, <1>3, <1>4 DEF Card

LEMMA FrameType ==
    ASSUME NEW type \in FrameTypes
    PROVE  /\ Frame(type) \in FrameRecord /\ Frame(type).type = type
           /\ \A q \in Question : LET f == [Frame(type) EXCEPT !.question = q] IN
                  f \in FrameRecord /\ f.type = type /\ f.question = q
           /\ \A b \in BOOLEAN : LET f == [Frame(type) EXCEPT !.busy = b] IN
                  f \in FrameRecord /\ f.type = type
  BY NoChildType DEF Frame, FrameRecord

LEMMA UnansweredType ==
    ASSUME NEW fs \in Seq(FrameRecord)
    PROVE  /\ Unanswered(fs) \in Seq(FrameRecord) /\ Len(Unanswered(fs)) = Len(fs)
           /\ \A i \in DOMAIN fs :
                  /\ Unanswered(fs)[i] = fs[i] \/ (Unanswered(fs)[i].type = "unknown" /\ Quiet(fs[i]))
                  /\ Unanswered(fs)[i].type # "state"
<1>1. Frame("unknown") \in FrameRecord /\ Frame("unknown").type = "unknown"
  BY FrameType DEF FrameTypes
<1>2. DOMAIN fs = 1..Len(fs) /\ Len(fs) \in Nat /\ \A i \in DOMAIN fs : fs[i] \in FrameRecord
  OBVIOUS
<1>3. \A i \in DOMAIN fs :
          Unanswered(fs)[i] = IF fs[i].type = "state" THEN Frame("unknown") ELSE fs[i]
  BY DEF Unanswered
<1>4. Unanswered(fs) \in [1..Len(fs) -> FrameRecord]
  BY <1>1, <1>2 DEF Unanswered
<1>5. Unanswered(fs) \in Seq(FrameRecord) /\ Len(Unanswered(fs)) = Len(fs)
  BY <1>2, <1>4
<1> QED
  BY <1>1, <1>3, <1>5 DEF Quiet

LEMMA UnansweredStates ==
    ASSUME NEW fs \in Seq(FrameRecord), NEW d
    PROVE  OneState(Unanswered(fs), d)
<1>1. DOMAIN Unanswered(fs) = DOMAIN fs
  BY DEF Unanswered
<1> QED
  BY <1>1, UnansweredType DEF OneState

\* Handling a frame shortens the queue; writing one lengthens it.
LEMMA TailShorter ==
    ASSUME NEW fs \in Seq(FrameRecord), fs # <<>>
    PROVE  Shorter(fs, Tail(fs)) /\ Shorter(fs, Unanswered(Tail(fs))) /\ Head(fs) = fs[1]
<1>1. /\ Tail(fs) \in Seq(FrameRecord) /\ Len(Tail(fs)) = Len(fs) - 1
      /\ DOMAIN Tail(fs) = 1..(Len(fs) - 1)
      /\ \A i \in DOMAIN Tail(fs) : Tail(fs)[i] = fs[i + 1]
  OBVIOUS
<1>2. DOMAIN Unanswered(Tail(fs)) = DOMAIN Tail(fs)
  BY DEF Unanswered
<1>3. Shorter(fs, Tail(fs))
  BY <1>1 DEF Shorter
<1>4. PICK ts \in Seq(FrameRecord) : ts = Tail(fs)
  BY <1>1
<1>5. Shorter(fs, Unanswered(ts))
  BY <1>1, <1>2, <1>4, UnansweredType DEF Shorter
<1> QED
  BY <1>3, <1>4, <1>5

LEMMA AppendLonger ==
    ASSUME NEW fs \in Seq(FrameRecord), NEW f \in FrameRecord
    PROVE  Longer(fs, f, fs \o <<f>>) /\ Longer(fs, f, Append(fs, f))
  BY DEF Longer

\* A session that has failed stays so until the daemon is started again, and
\* one that is tracked stays tracked.
LEMMA StatusStays ==
    ASSUME Next, ~Restart
    PROVE  /\ status = "failed" => status' = "failed"
           /\ status # "none" => status' # "none"
<1> USE DEF Becomes, From
<1>1. CASE Daemon \/ Stalls
  <2>1. CASE HandleFrame
    BY <2>1 DEF HandleFrame, OnUnknown, OnStart, OnEnd, OnRequest, OnAskEnd, OnRetry, Recovers
  <2>2. CASE Acked \/ DebounceAsks \/ DebounceHears \/ StepHears \/ Stalls
    BY <2>2 DEF Acked, DebounceAsks, DebounceHears, StepHears, Stalls
  <2>3. CASE \E c \in Children : ExitSeen(c)
    BY <2>3 DEF ExitSeen
  <2> QED
    BY <1>1, <2>1, <2>2, <2>3 DEF Daemon
<1>2. CASE Entering
  BY <1>2 DEF Entering, Enter, NotAtBoundary, AtBoundary, Reconfigure, ReconfigureFails, GiveUp,
              Replace, Retired, Started, StartFails, Refused, Starts
<1>3. CASE Driving \/ Agent
  BY <1>3 DEF Driving, Skip, Prompt, PromptFails, Agent, Begin, Asks, Withdraws, Retries, Ends,
              Dies, ChildSteps
<1>4. CASE Operator
  BY <1>4 DEF Operator, FollowUp, Interrupt, Answer, Stop, Resumes
<1> QED
  BY <1>1, <1>2, <1>3, <1>4 DEF Next

\* The boundary is entered by the step, or by recovery.
LEMMA BoundaryEntered ==
    ASSUME Next, lock = FALSE, ~Enter, ~Restart
    PROVE  lock' = FALSE
<1>1. CASE Daemon \/ Stalls
  BY <1>1 DEF Daemon, Stalls, HandleFrame, Acked, DebounceAsks, DebounceHears, StepHears, ExitSeen
<1>2. CASE Entering
  BY <1>2 DEF Entering, NotAtBoundary, AtBoundary, Reconfigure, ReconfigureFails, GiveUp,
              Replace, Retired, Started, StartFails, Refused
<1>3. CASE Driving \/ Agent \/ Operator
  BY <1>3 DEF Driving, Skip, Prompt, PromptFails, Agent, Begin, Asks, Withdraws, Retries, Ends,
              Dies, ChildSteps, Operator, FollowUp, Interrupt, Answer, Stop, Operates
<1> QED
  BY <1>1, <1>2, <1>3 DEF Next

\* Who is registered changes with an exit or a handoff.
LEMMA Unregisters ==
    ASSUME Next, registered' # registered
    PROVE  \/ \E c \in Children : ExitSeen(c) /\ registered = c
           \/ Replace \/ ReconfigureFails \/ Started \/ Restart
<1>1. CASE Daemon \/ Stalls
  BY <1>1 DEF Daemon, Stalls, HandleFrame, Acked, DebounceAsks, DebounceHears, StepHears, ExitSeen
<1>2. CASE Entering
  BY <1>2 DEF Entering, Enter, NotAtBoundary, AtBoundary, Reconfigure, Retired, StartFails
<1>3. CASE Driving \/ Agent \/ Operator
  BY <1>3 DEF Driving, Skip, Prompt, PromptFails, Agent, Begin, Asks, Withdraws, Retries, Ends,
              Dies, ChildSteps, Operator, FollowUp, Interrupt, Answer, Stop
<1> QED
  BY <1>1, <1>2, <1>3 DEF Next

LEMMA TrackedKept == HandoffInv /\ HandoffInv' /\ Tracked /\ [Next]_vars => Tracked'
<1>1. Tracked /\ UNCHANGED vars => Tracked'
  BY DEF Tracked, vars
<1> SUFFICES ASSUME HandoffInv, HandoffInv', Tracked, Next PROVE Tracked'
  BY <1>1
<1>2. (lock <=> run.at \in Handing) /\ (lock' <=> run'.at \in Handing) /\ lock \in BOOLEAN
  BY DEF HandoffInv, BoundaryIsRuns
<1>3. CASE Restart
  <2>1. registered' = 0 /\ (status' = "starting" \/ lock' = FALSE)
    BY <1>3 DEF Restart
  <2> QED
    BY <1>2, <2>1 DEF Tracked
<1>4. CASE ~Restart /\ status # "none"
  BY <1>4, StatusStays DEF Tracked
<1>5. CASE ~Restart /\ status = "none"
  <2>1. registered = 0 /\ lock = FALSE
    BY <1>2, <1>5 DEF Tracked
  <2>2. registered' = 0
    BY <1>2, <2>1, <1>5, Registers DEF Started, Handing
  <2>3. CASE Enter
    <3>1. Starts(FALSE)
      BY <2>1, <2>3 DEF Enter, Live
    <3> QED
      BY <1>5, <3>1 DEF Starts, Becomes, Tracked
  <2>4. CASE ~Enter
    BY <1>2, <1>5, <2>1, <2>2, <2>4, BoundaryEntered DEF Tracked
  <2> QED
    BY <2>3, <2>4
<1> QED
  BY <1>3, <1>4, <1>5

\* What is written is frames, and what is asked a question.
LEMMA CardTypesKept == HandoffInv /\ CardTypes /\ [Next]_vars => CardTypes'
<1>1. CardTypes /\ UNCHANGED vars => CardTypes'
  BY DEF CardTypes, vars
<1> SUFFICES ASSUME HandoffInv, CardTypes, Next PROVE CardTypes'
  BY <1>1
<1>0. frames \in Seq(FrameRecord) /\ pending \in Question /\ None \in Question
  BY NoChildType DEF CardTypes
<1>2. /\ <<>> \in Seq(FrameRecord) /\ (frames # <<>> => Tail(frames) \in Seq(FrameRecord))
      /\ frames # <<>> => Head(frames) \in FrameRecord /\ Head(frames).question \in Question
      /\ \A fs \in Seq(FrameRecord) : Unanswered(fs) \in Seq(FrameRecord)
  <2>1. frames # <<>> => Tail(frames) \in Seq(FrameRecord) /\ Head(frames) \in FrameRecord
    BY <1>0
  <2>2. \A f \in FrameRecord : f.question \in Question
    BY DEF FrameRecord
  <2>3. \A fs \in Seq(FrameRecord) : Unanswered(fs) \in Seq(FrameRecord)
    BY UnansweredType, Zenon
  <2> QED
    BY <2>1, <2>2, <2>3
<1>3. ASSUME NEW c, NEW fs \in Seq(FrameRecord), Writes(c, fs) PROVE frames' \in Seq(FrameRecord)
  BY <1>0, <1>3 DEF Writes
<1>4. CASE Daemon \/ Stalls
  <2>1. CASE HandleFrame
    <3>1. frames' \in Seq(FrameRecord)
      BY <1>2, <2>1 DEF HandleFrame, OnUnknown, OnStart, OnEnd, OnRequest, OnAskEnd, OnRetry
    <3>2. pending' \in {pending, None, Head(frames).question}
      BY <2>1 DEF HandleFrame, OnUnknown, OnStart, OnEnd, OnRequest, OnAskEnd, OnRetry, ClearPending
    <3> QED
      BY <1>0, <1>2, <2>1, <3>1, <3>2 DEF CardTypes, HandleFrame
  <2>2. CASE Acked \/ DebounceHears \/ StepHears \/ Stalls
    BY <1>0, <1>2, <2>2 DEF CardTypes, Acked, DebounceHears, StepHears, Stalls, Unheard
  <2>3. CASE DebounceAsks
    <3>1. Busy(watched) \in BOOLEAN
      BY DEF Busy
    <3>2. [Frame("state") EXCEPT !.busy = Busy(watched)] \in FrameRecord
      BY <3>1, FrameType DEF FrameTypes
    <3>3. Append(frames, [Frame("state") EXCEPT !.busy = Busy(watched)]) \in Seq(FrameRecord)
      BY <1>0, <3>2
    <3> QED
      BY <1>0, <2>3, <3>3 DEF DebounceAsks, CardTypes
  <2>4. CASE \E c \in Children : ExitSeen(c)
    BY <1>0, <1>2, <2>4 DEF ExitSeen, ClearPending, CardTypes
  <2> QED
    BY <1>4, <2>1, <2>2, <2>3, <2>4 DEF Daemon
<1>5. CASE Entering
  BY <1>0, <1>2, <1>5 DEF Entering, Enter, NotAtBoundary, AtBoundary, Reconfigure, ReconfigureFails,
              Replace, Retired, Started, StartFails, Unheard, CardTypes
<1>6. CASE Driving
  <2>1. <<Frame("ack")>> \in Seq(FrameRecord)
    BY FrameType DEF FrameTypes
  <2>2. frames' \in Seq(FrameRecord)
    BY <1>0, <1>3, <1>6, <2>1 DEF Driving, Skip, Prompt, PromptFails, Unheard
  <2>3. pending' = pending
    BY <1>6 DEF Driving, Skip, Prompt, PromptFails, Unheard
  <2> QED
    BY <1>0, <2>2, <2>3 DEF CardTypes
<1>7. ASSUME NEW q \in Question
      PROVE  /\ <<Frame("agent_start")>> \in Seq(FrameRecord) /\ <<Frame("agent_end")>> \in Seq(FrameRecord)
             /\ <<Frame("auto_retry_start"), Frame("auto_retry_end")>> \in Seq(FrameRecord)
             /\ <<[Frame("request") EXCEPT !.question = q]>> \in Seq(FrameRecord)
             /\ <<[Frame("ask_end") EXCEPT !.question = q]>> \in Seq(FrameRecord)
  <2>1. /\ Frame("agent_start") \in FrameRecord /\ Frame("agent_end") \in FrameRecord
        /\ Frame("auto_retry_start") \in FrameRecord /\ Frame("auto_retry_end") \in FrameRecord
        /\ [Frame("request") EXCEPT !.question = q] \in FrameRecord
        /\ [Frame("ask_end") EXCEPT !.question = q] \in FrameRecord
    BY FrameType DEF FrameTypes
  <2> QED
    BY <2>1
<1>8. CASE Agent
  <2>1. PICK c \in Children : \/ Begin(c) \/ Asks(c, "ask") \/ Asks(c, "approval")
                              \/ Withdraws(c) \/ Retries(c) \/ Ends(c) \/ Dies(c)
    BY <1>8 DEF Agent
  <2>2. child[c].question \in Question /\ asked \in Nat
    BY DEF HandoffInv, SessionTypes, ChildRecord
  <2>3. \A kind \in {"ask", "approval"} : [id |-> asked + 1, kind |-> kind] \in Question
    BY <2>2 DEF Question
  <2>4. pending' = pending
    BY <2>1 DEF Begin, Asks, Withdraws, Retries, Ends, Dies, ChildSteps
  <2>5. CASE Begin(c) \/ Retries(c) \/ Ends(c) \/ Dies(c)
    BY <1>0, <1>3, <1>7, <2>4, <2>5 DEF Begin, Retries, Ends, Dies, CardTypes
  <2>6. CASE Asks(c, "ask") \/ Asks(c, "approval")
    <3>1. PICK q \in Question : Writes(c, <<[Frame("request") EXCEPT !.question = q]>>)
      BY <2>2, <2>3, <2>6 DEF Asks
    <3> QED
      BY <1>0, <1>3, <1>7, <2>4, <3>1 DEF CardTypes
  <2>7. CASE Withdraws(c)
    BY <1>0, <1>3, <1>7, <2>2, <2>4, <2>7 DEF Withdraws, CardTypes
  <2> QED
    BY <2>1, <2>5, <2>6, <2>7
<1>9. CASE Operator
  <2>1. CASE FollowUp \/ Stop
    BY <1>0, <2>1 DEF FollowUp, Stop, CardTypes
  <2>2. CASE Interrupt
    <3>1. registered \in Children
      BY <2>2 DEF Interrupt, Acquires, Live, HandoffInv, SessionTypes
    <3>2. PICK q \in Question : q = child[registered].question
      BY <3>1 DEF HandoffInv, SessionTypes, ChildRecord
    <3>3. PICK fs \in Seq(FrameRecord), gs \in Seq(FrameRecord) :
              /\ fs = IF q.kind = "ask" THEN <<[Frame("ask_end") EXCEPT !.question = q]>> ELSE <<>>
              /\ gs = IF child[registered].turn # "none" THEN <<Frame("agent_end")>> ELSE <<>>
      BY <1>2, <1>7
    <3>4. Writes(registered, fs \o gs) /\ pending' = None
      BY <2>2, <3>2, <3>3 DEF Interrupt, ClearPending
    <3>5. fs \o gs \in Seq(FrameRecord)
      OBVIOUS
    <3> QED
      BY <1>0, <1>3, <3>4, <3>5 DEF CardTypes
  <2>3. CASE Answer
    <3>1. PICK fs \in Seq(FrameRecord) : fs = IF pending.kind = "ask"
                        THEN <<[Frame("ask_end") EXCEPT !.question = pending]>> ELSE <<>>
      BY <1>0, <1>2, <1>7
    <3>2. pending' = None /\ (frames' = frames \/ Writes(registered, fs))
      BY <2>3, <3>1 DEF Answer, ClearPending
    <3> QED
      BY <1>0, <1>3, <3>2 DEF CardTypes
  <2> QED
    BY <1>9, <2>1, <2>2, <2>3 DEF Operator
<1>10. CASE Restart
  BY <1>0, <1>2, <1>10 DEF Restart, CardTypes
<1> QED
  BY <1>4, <1>5, <1>6, <1>8, <1>9, <1>10 DEF Next

\* What the invariant says of a session that has not failed.
LEMMA BeforeStep ==
    ASSUME CardInv, Next, ~Restart, status' # "failed"
    PROVE  status # "failed" /\ Reads
  BY StatusStays DEF CardInv

\* When the last child is unregistered, or one is found at its turn boundary,
\* nothing was at work before.
LEMMA CalmBefore ==
    ASSUME CardInv, Next, ~Restart, status' # "failed",
           registered' = 0 \/ run'.at = "changing"
    PROVE  Calm
<1>1. Reads /\ HandoffInv
  BY BeforeStep DEF CardInv
<1>2. CASE registered = 0 \/ run.at = "changing"
  BY <1>1, <1>2 DEF Reads
<1>3. CASE registered # 0 /\ run.at # "changing"
  <2>1. run'.at = "changing" => AtBoundary
    BY <1>1, <1>3, Registers
  <2>2. CASE AtBoundary
    <3>1. /\ frames = <<>> /\ Live(run.child) /\ pending = None /\ ~Busy(run.child)
          /\ run.at = "checking"
      BY <2>2 DEF AtBoundary
    <3>2. registered = run.child /\ Live(registered)
      BY <1>1, <3>1 DEF HandoffInv, InHand
    <3>3. Loud(frames) = {} /\ ~Begins(frames)
      BY <3>1 DEF Loud, Begins
    <3>4. Agrees(child[registered])
      BY <1>1, <3>1, <3>2, <3>3 DEF Reads, Card, Beginning, Busy
    <3>5. status \notin Waiting
      BY <3>1, <3>2, <3>4 DEF Agrees, Busy
    <3>6. \A c \in Children : Live(c) => ~Busy(c)
      BY <1>1, <3>1, <3>2 DEF HandoffInv, NoOrphan, Live
    <3> QED
      BY <3>1, <3>3, <3>5, <3>6 DEF Calm
  <2>3. CASE registered' = 0
    <3>1. registered' # registered
      BY <1>3, <2>3
    <3>2. ~Replace /\ ~ReconfigureFails /\ ~Started
      BY <1>1, <1>3 DEF Replace, ReconfigureFails, Started, HandoffInv, InHand
    <3>3. PICK c \in Children : ExitSeen(c) /\ registered = c
      BY <3>1, <3>2, Unregisters
    <3>4. ~child[c].retiring
      BY <1>3, <3>3 DEF CardInv, FreshChildren
    <3>5. status' = "failed"
      BY <1>3, <3>3, <3>4 DEF ExitSeen, CardInv, Tracked, Becomes
    <3> QED
      BY <3>5
  <2> QED
    BY <1>3, <2>1, <2>2, <2>3
<1> QED
  BY <1>2, <1>3

\* A child at its turn boundary stays there unless it is told otherwise.
SameTurn(y, x) == y.turn = x.turn /\ y.question = x.question /\ (y.mail = x.mail \/ y.mail # <<>>)

\* A step that tells the tracker nothing new of the child.
LEMMA QuietMove ==
    ASSUME CardInv, HandoffInv', CardTypes', Next, ~Restart, status' # "failed",
           \/ frames' = frames
           \/ \E f \in FrameRecord : Quiet(f) /\ Longer(frames, f, frames')
           \/ frames # <<>> /\ Quiet(frames[1]) /\ Shorter(frames, frames'),
           OneState(frames, debounce) => OneState(frames, debounce)',
           pending' = pending, asked' = asked,
           registered' # 0 => Steady, status \notin Waiting => status' \notin Waiting,
           registered' \in {0, registered}, watched' = watched,
           \A c \in Children : Live(c)' => Live(c) /\ SameTurn(child'[c], child[c]),
           registered' = 0 \/ run'.at = "changing" =>
               \A c \in Children : Live(c)' => child'[c].mail = child[c].mail
    PROVE  Reads'
<1>0. /\ Reads /\ HandoffInv /\ frames \in Seq(FrameRecord) /\ pending \in Question
      /\ child \in [Children -> ChildRecord] /\ child' \in [Children -> ChildRecord]
      /\ registered \in Children \cup {0} /\ asked \in Nat
  BY BeforeStep DEF CardInv, CardTypes, HandoffInv, SessionTypes
<1>1. PICK gs : gs = frames'
  OBVIOUS
<1>2. gs \in Seq(FrameRecord)
  BY <1>1 DEF CardTypes
<1>3. SameTold(frames, gs)
  BY <1>0, <1>1, QuietTells
<1>4. OneState(frames, debounce)'
  BY <1>0 DEF Reads
<1>5. Numbers(frames, pending, asked)'
  <2>1. Numbers(frames, pending, asked) /\ pending.id \in Nat
    BY <1>0 DEF Reads, Question
  <2>2. Numbers(gs, pending, asked)
    <3>1. CASE frames' = frames
      BY <1>1, <2>1, <3>1
    <3>2. ASSUME NEW f \in FrameRecord, Quiet(f), Longer(frames, f, frames')
          PROVE  Numbers(gs, pending, asked)
      BY <1>0, <1>1, <2>1, <3>2, LongerNumbers DEF Quiet
    <3>3. CASE frames # <<>> /\ Quiet(frames[1]) /\ Shorter(frames, frames')
      BY <1>0, <1>1, <2>1, <3>3, ShorterNumbers
    <3> QED
      BY <3>1, <3>2, <3>3
  <2> QED
    BY <1>1, <2>2 DEF Numbers
<1>6. ASSUME Live(registered)' PROVE (watched = registered /\ Card(frames, child[registered]))'
  <2>1. registered' = registered /\ registered \in Children /\ Live(registered)
    <3>1. registered' # 0
      BY <1>6 DEF Live
    <3>2. registered' = registered /\ registered \in Children
      BY <1>0, <3>1
    <3> QED
      BY <1>6, <3>2 DEF Live
  <2>0. Steady
    BY <1>6 DEF Live
  <2>2. PICK y \in ChildRecord : y = child'[registered']
    BY <1>0, <2>1
  <2>3. PICK x \in ChildRecord : x = child[registered]
    BY <1>0, <2>1
  <2>4. PICK fs \in Seq(FrameRecord) : fs = frames
    BY <1>0
  <2>5. SameTurn(y, x) /\ Card(fs, x) /\ watched = registered
    BY <1>0, <1>6, <2>1, <2>2, <2>3, <2>4 DEF Reads, Live
  <2>6. Card(gs, y)'
    BY <1>3, <2>0, <2>4, <2>5, NothingNew DEF SameTurn
  <2>7. Card(frames, child[registered])'
    BY <1>1, <2>2, <2>6, CardIs
  <2> QED
    BY <2>1, <2>5, <2>7
<1>7. ASSUME registered' = 0 \/ run'.at = "changing" PROVE Calm'
  <2>1. Calm
    BY <1>7, CalmBefore
  <2>2. (Loud(frames) = {})'
    <3>1. Loud(gs) = {}
      BY <1>3, <2>1 DEF SameTold, Calm
    <3> QED
      BY <1>1, <3>1 DEF Loud
  <2>3. pending' = None /\ status' \notin Waiting
    BY <2>1 DEF Calm
  <2>4. ASSUME NEW c \in Children, Live(c)' PROVE ~Busy(c)'
    BY <1>7, <2>1, <2>4 DEF Calm, Busy, SameTurn
  <2> QED
    BY <2>2, <2>3, <2>4 DEF Calm
<1> QED
  BY <1>4, <1>5, <1>6, <1>7 DEF Reads

LEMMA ChildMovesQuietly ==
    ASSUME HandoffInv, NEW c \in Children, NEW y, child' = [child EXCEPT ![c] = y],
           y.at = "live" => child[c].at = "live" /\ SameTurn(y, child[c])
    PROVE  /\ \A d \in Children : Live(d)' => Live(d) /\ SameTurn(child'[d], child[d])
           /\ (y.at = "live" => y.mail = child[c].mail) =>
                  \A d \in Children : Live(d)' => child'[d].mail = child[d].mail
<1>1. /\ child'[c] = y /\ \A d \in Children : d # c => child'[d] = child[d]
      /\ \A d \in Children : Live(d)' <=> child'[d].at = "live"
      /\ \A d \in Children : Live(d) <=> child[d].at = "live"
  BY ChildNumbers DEF HandoffInv, SessionTypes, Live
<1> QED
  BY <1>1 DEF SameTurn

\* A frame that tells of the child, of a session that has not failed.
LEMMA LoudFrame ==
    ASSUME CardInv, HandoffInv', CardTypes', Next, ~Restart, status' # "failed",
           HandleFrame, Head(frames).type # "unknown"
    PROVE  Reads'
<1>0. /\ Reads /\ HandoffInv /\ Tracked /\ frames \in Seq(FrameRecord) /\ frames # <<>>
      /\ pending \in Question /\ pending' \in Question /\ asked \in Nat
      /\ child \in [Children -> ChildRecord] /\ registered \in Children \cup {0}
      /\ status # "failed"
  BY BeforeStep DEF CardInv, CardTypes, HandoffInv, SessionTypes, HandleFrame
<1>1. PICK g \in FrameRecord : g = Head(frames)
  BY <1>0
<1>2. PICK fs \in Seq(FrameRecord) : fs = frames
  BY <1>0
<1>3. PICK gs : gs = frames'
  OBVIOUS
<1>4. Shorter(fs, Tail(fs)) /\ Shorter(fs, Unanswered(Tail(fs))) /\ g = fs[1] /\ fs # <<>>
  BY <1>0, <1>1, <1>2, TailShorter
<1>5. /\ UNCHANGED <<child, registered, watched, run, asked>>
      /\ OnStart \/ OnEnd \/ OnRequest \/ OnAskEnd \/ OnRetry
  BY DEF HandleFrame, OnUnknown, counters
<1>6. Shorter(fs, gs)
  BY <1>2, <1>3, <1>4, <1>5 DEF OnStart, OnEnd, OnRequest, OnAskEnd, OnRetry
<1>7. ~Quiet(g) /\ 1 \in Loud(fs) /\ g.question \in Question
  <2>1. ~Quiet(g)
    BY <1>1, <1>5 DEF OnStart, OnEnd, OnRequest, OnAskEnd, OnRetry, Quiet
  <2>2. 1 \in DOMAIN fs
    BY <1>4
  <2> QED
    BY <1>4, <2>1, <2>2 DEF Loud, FrameRecord
<1>8. registered # 0 /\ run.at # "changing" /\ status # "none"
  BY <1>0, <1>2, <1>7 DEF Reads, Calm, Tracked
<1>9. OneState(frames, debounce)'
  <2>1. OneState(fs, debounce)
    BY <1>0, <1>2 DEF Reads
  <2>2. PICK d : d = debounce'
    OBVIOUS
  <2>3. OneState(gs, d)
    <3>1. CASE OnStart \/ OnEnd
      <4>1. gs = Unanswered(Tail(fs)) /\ Tail(fs) \in Seq(FrameRecord)
        BY <1>2, <1>3, <1>4, <3>1 DEF OnStart, OnEnd
      <4>2. PICK ts \in Seq(FrameRecord) : ts = Tail(fs)
        BY <4>1
      <4> QED
        BY <4>1, <4>2, UnansweredStates
    <3>2. CASE OnRequest \/ OnAskEnd \/ OnRetry
      <4>1. d = debounce
        BY <2>2, <3>2 DEF OnRequest, OnAskEnd, OnRetry
      <4>2. OneState(fs, d)
        BY <2>1, <4>1
      <4> QED
        BY <1>4, <1>6, <4>2, ShorterStates
    <3> QED
      BY <1>5, <3>1, <3>2
  <2> QED
    BY <1>3, <2>2, <2>3 DEF OneState
<1>10. Numbers(fs, pending, asked) /\ (g.type = "ask_end" => g.question.kind = "ask")
  <2>1. Numbers(fs, pending, asked) /\ 1 \in DOMAIN fs
    BY <1>0, <1>2, <1>7 DEF Reads, Loud
  <2> QED
    BY <1>4, <2>1 DEF Numbers
<1>11. Numbers(frames, pending, asked)'
  <2>1. PICK p \in Question : p = pending
    BY <1>0
  <2>2. PICK q \in Question : q = pending'
    BY <1>0
  <2>3. q.id <= p.id \/ (g.type = "request" /\ q = g.question)
    <3>1. q = p \/ q = None \/ (g.type = "request" /\ q = g.question)
      BY <1>1, <1>5, <2>1, <2>2 DEF OnStart, OnEnd, OnRequest, OnAskEnd, OnRetry, ClearPending
    <3>2. None.id = 0 /\ p.id \in Nat
      BY DEF None, Question
    <3> QED
      BY <3>1, <3>2
  <2>4. Numbers(gs, q, asked)
    BY <1>0, <1>4, <1>6, <1>10, <2>1, <2>3, ShorterNumbers
  <2> QED
    BY <1>3, <1>5, <2>2, <2>4 DEF Numbers
<1>12. ASSUME Live(registered)' PROVE (watched = registered /\ Card(frames, child[registered]))'
  <2>1. registered \in Children /\ Live(registered) /\ child' = child /\ registered' = registered
    BY <1>0, <1>5, <1>8, <1>12 DEF Live
  <2>2. PICK x \in ChildRecord : x = child[registered]
    BY <1>0, <2>1
  <2>3. watched = registered /\ Card(fs, x)
    BY <1>0, <1>2, <2>1, <2>2 DEF Reads
  <2> USE DEF Becomes, From
  <2>4. g.type = "agent_start" => Goes'
    BY <1>0, <1>1, <1>5, <1>8 DEF OnStart, OnEnd, OnRequest, OnAskEnd, OnRetry, ClearPending, Goes
  <2>5. g.type = "request" /\ Goes => Shows(g.question)'
    BY <1>1, <1>5 DEF OnStart, OnEnd, OnRequest, OnAskEnd, OnRetry, Goes, Shows, WaitingFor
  <2>6. g.type = "ask_end" /\ (Goes \/ Shows(g.question)) => Goes'
    BY <1>1, <1>5, <1>10 DEF OnStart, OnEnd, OnRequest, OnAskEnd, OnRetry, ClearPending, Recovers,
                             Goes, Shows, WaitingFor
  <2>7. g.type = "auto_retry_start" /\ Goes => Repeats'
    BY <1>1, <1>5 DEF OnStart, OnEnd, OnRequest, OnAskEnd, OnRetry, Goes, Repeats
  <2>8. g.type = "auto_retry_end" /\ Repeats => Goes'
    BY <1>1, <1>5 DEF OnStart, OnEnd, OnRequest, OnAskEnd, OnRetry, Goes, Repeats
  <2>9. g.type = "agent_end" /\ status \notin Waiting => pending' = None /\ status' \notin Waiting
    BY <1>1, <1>5 DEF OnStart, OnEnd, OnRequest, OnAskEnd, OnRetry, ClearPending, Recovers, Waiting
  <2>10. Card(gs, x)'
    BY <1>4, <1>6, <1>7, <2>3, <2>4, <2>5, <2>6, <2>7, <2>8, <2>9, Handled
  <2>11. Card(frames, child[registered])'
    BY <1>3, <2>1, <2>2, <2>10, CardIs
  <2> QED
    BY <1>5, <2>3, <2>11
<1>13. registered' # 0 /\ run'.at # "changing"
  BY <1>5, <1>8
<1> QED
  BY <1>9, <1>11, <1>12, <1>13 DEF Reads

LEMMA SteadyWhen ==
    ASSUME pending' = pending,
           \/ UNCHANGED <<status, debounce>>
           \/ UNCHANGED debounce /\ status' = From({"working"}, "stalled")
           \/ UNCHANGED debounce /\ status' = From({"starting"}, "idle")
           \/ debounce # "none" /\ status' \in {status, From({"working"}, "idle")}
    PROVE  Steady /\ (status \notin Waiting => status' \notin Waiting)
  BY DEF Steady, Goes, Shows, Repeats, WaitingFor, Waiting, From, Becomes

\* Receipts, answers and timers.
LEMMA QuietFrames ==
    ASSUME CardInv, HandoffInv', CardTypes', Next, ~Restart, status' # "failed",
           \/ HandleFrame /\ Head(frames).type = "unknown"
           \/ Acked \/ DebounceAsks \/ DebounceHears \/ StepHears \/ Stalls
    PROVE  Reads'
<1>0. /\ Reads /\ HandoffInv /\ frames \in Seq(FrameRecord)
      /\ OneState(frames, debounce) /\ registered \in Children \cup {0}
  BY BeforeStep DEF CardInv, CardTypes, HandoffInv, SessionTypes, Reads
<1>1. /\ child' = child /\ registered' = registered /\ watched' = watched /\ asked' = asked
      /\ pending' = pending
  BY DEF HandleFrame, OnUnknown, OnStart, OnEnd, OnRequest, OnAskEnd, OnRetry, Acked, DebounceAsks,
         DebounceHears, StepHears, Stalls, Unheard, counters
<1>2. \A c \in Children : /\ Live(c)' => Live(c) /\ SameTurn(child'[c], child[c])
                          /\ child'[c].mail = child[c].mail
  BY <1>1 DEF Live, SameTurn
<1>3. PICK fs \in Seq(FrameRecord) : fs = frames
  BY <1>0
<1>4. PICK gs : gs = frames'
  OBVIOUS
<1>5. ASSUME \/ frames' = frames
             \/ \E f \in FrameRecord : Quiet(f) /\ Longer(fs, f, gs)
             \/ fs # <<>> /\ Quiet(fs[1]) /\ Shorter(fs, gs),
             NEW d, d = debounce', OneState(gs, d),
             Steady, status \notin Waiting => status' \notin Waiting
      PROVE  Reads'
  <2>1. OneState(frames, debounce)'
    BY <1>4, <1>5 DEF OneState
  <2> QED
    BY <1>1, <1>2, <1>3, <1>4, <1>5, <2>1, QuietMove
<1>6. ASSUME fs # <<>> PROVE Shorter(fs, Tail(fs)) /\ Head(fs) = fs[1]
  BY <1>6, TailShorter
<1>7. PICK d : d = debounce'
  OBVIOUS
<1>8. PICK e : e = debounce /\ OneState(fs, e)
  BY <1>0, <1>3
<1>9. CASE (HandleFrame /\ Head(frames).type = "unknown") \/ Acked
  <2>1. /\ fs # <<>> /\ Quiet(fs[1]) /\ Shorter(fs, gs)
        /\ UNCHANGED <<status, pending, debounce>>
    BY <1>3, <1>4, <1>6, <1>9 DEF HandleFrame, OnUnknown, OnStart, OnEnd, OnRequest, OnAskEnd,
                                  OnRetry, Acked, timers, Quiet
  <2>2. OneState(gs, d)
    BY <1>7, <1>8, <2>1, ShorterStates
  <2> QED
    BY <1>5, <1>7, <2>1, <2>2, SteadyWhen
<1>10. CASE DebounceAsks /\ debounce = "armed" /\ Live(watched)
  <2>1. PICK f \in FrameRecord : f.type = "state" /\ gs = Append(fs, f)
    <3>1. Busy(watched) \in BOOLEAN
      BY DEF Busy
    <3>2. PICK b \in BOOLEAN : b = Busy(watched)
      BY <3>1
    <3>3. [Frame("state") EXCEPT !.busy = b] \in FrameRecord /\ [Frame("state") EXCEPT !.busy = b].type = "state"
      BY FrameType DEF FrameTypes
    <3>4. gs = Append(fs, [Frame("state") EXCEPT !.busy = b])
      BY <1>3, <1>4, <1>10, <3>2 DEF DebounceAsks
    <3> QED
      BY <3>3, <3>4
  <2>2. Longer(fs, f, gs) /\ Quiet(f)
    BY <2>1, AppendLonger DEF Quiet
  <2>3. d = "asked" /\ status' = status /\ e # "asked" /\ debounce # "none"
    BY <1>7, <1>8, <1>10 DEF DebounceAsks
  <2>4. OneState(gs, d)
    BY <1>8, <2>2, <2>3, LongerStates
  <2> QED
    BY <1>1, <1>5, <1>7, <2>2, <2>3, <2>4, SteadyWhen
<1>11. CASE DebounceAsks /\ ~(debounce = "armed" /\ Live(watched))
  <2>1. /\ debounce \in {"armed", "stale"} /\ frames' = frames
        /\ status' = From({"working"}, "idle")
    BY <1>11 DEF DebounceAsks
  <2>2. OneState(gs, d)
    BY <1>3, <1>4, <1>8, <2>1 DEF OneState
  <2>3. debounce # "none"
    BY <2>1
  <2> QED
    BY <1>1, <1>5, <1>7, <2>1, <2>2, <2>3, SteadyWhen
<1>12. CASE DebounceHears
  <2>1. /\ fs # <<>> /\ fs[1].type = "state" /\ gs = Tail(fs)
        /\ status' \in {status, From({"working"}, "idle")}
    BY <1>3, <1>4, <1>6, <1>12 DEF DebounceHears
  <2>2. Quiet(fs[1]) /\ Shorter(fs, gs) /\ 1 \in DOMAIN fs
    BY <1>6, <2>1 DEF Quiet
  <2>3. OneState(gs, d)
    BY <1>8, <2>1, <2>2, ShorterStates
  <2>4. debounce # "none"
    BY <1>8, <2>1, <2>2 DEF OneState
  <2> QED
    BY <1>1, <1>5, <1>7, <2>1, <2>2, <2>3, <2>4, SteadyWhen
<1>13. CASE StepHears \/ Stalls
  <2>1. /\ frames' = frames /\ debounce' = debounce
        /\ status' = status \/ status' = From({"working"}, "stalled")
    BY <1>13 DEF StepHears, Stalls, Unheard, timers
  <2>2. OneState(gs, d)
    BY <1>3, <1>4, <1>7, <1>8, <2>1
  <2> QED
    BY <1>1, <1>5, <1>7, <2>1, <2>2, SteadyWhen
<1> QED
  BY <1>9, <1>10, <1>11, <1>12, <1>13

\* A child exits that is being replaced, or never was tracked.
LEMMA QuietExit ==
    ASSUME CardInv, HandoffInv', CardTypes', Next, ~Restart, status' # "failed",
           NEW c \in Children, ExitSeen(c)
    PROVE  Reads'
<1>0. /\ Reads /\ HandoffInv /\ frames \in Seq(FrameRecord) /\ Tracked /\ FreshChildren
      /\ child \in [Children -> ChildRecord] /\ registered \in Children \cup {0}
  BY BeforeStep DEF CardInv, CardTypes, HandoffInv, SessionTypes
<1>1. /\ child[c].at = "dead" /\ child' = [child EXCEPT ![c] = [NoChild EXCEPT !.at = "gone"]]
      /\ registered' = IF registered = c THEN 0 ELSE registered
      /\ watched' = watched /\ asked' = asked
  BY DEF ExitSeen, counters
<1>2. PICK y : y = [NoChild EXCEPT !.at = "gone"] /\ y.at = "gone"
  BY GoneType, Zenon
<1>3. child' = [child EXCEPT ![c] = y] /\ y.at # "live"
  BY <1>1, <1>2
<1>4. /\ \A d \in Children : Live(d)' => Live(d) /\ SameTurn(child'[d], child[d])
      /\ \A d \in Children : Live(d)' => child'[d].mail = child[d].mail
  BY <1>0, <1>3, ChildMovesQuietly
<1>5. CASE child[c].retiring
  <2>1. UNCHANGED <<status, pending, debounce, frames>>
    BY <1>5 DEF ExitSeen, timers
  <2>2. Steady /\ (status \notin Waiting => status' \notin Waiting)
    BY <2>1, SteadyWhen
  <2>3. OneState(frames, debounce) => OneState(frames, debounce)'
    BY <2>1 DEF OneState
  <2>4. registered' \in {0, registered}
    BY <1>1
  <2> QED
    BY <1>1, <1>4, <2>1, <2>2, <2>3, <2>4, QuietMove
<1>6. CASE ~child[c].retiring
  <2>1. /\ status' = Becomes("failed") /\ pending' = None /\ frames' = Unanswered(frames)
        /\ run' = run \/ Hears("exited")
    BY <1>6 DEF ExitSeen, ClearPending
  <2>2. status = "none" /\ status' = "none"
    BY <2>1, StatusStays DEF Becomes
  <2>3. registered = 0 /\ registered' = 0
    BY <1>1, <2>2, <1>0 DEF Tracked
  <2>4. Calm
    BY <1>0, <2>3 DEF Reads
  <2>5. PICK fs \in Seq(FrameRecord) : fs = frames
    BY <1>0
  <2>6. PICK gs : gs = frames' /\ gs = Unanswered(fs)
    BY <2>1, <2>5
  <2>7. DOMAIN gs = DOMAIN fs
    BY <2>6 DEF Unanswered
  <2>8. \A i \in DOMAIN fs : /\ gs[i] = fs[i] \/ (gs[i].type = "unknown" /\ Quiet(fs[i]))
                             /\ gs[i].type # "state"
    BY <2>6, UnansweredType
  <2>9. OneState(frames, debounce)'
    BY <2>6, <2>7, <2>8 DEF OneState
  <2>10. Numbers(frames, pending, asked)'
    <3>1. Numbers(fs, pending, asked) /\ pending = None
      BY <1>0, <2>4, <2>5 DEF Reads, Calm
    <3>2. Numbers(gs, None, asked)
      BY <2>7, <2>8, <3>1 DEF Numbers
    <3> QED
      BY <1>1, <2>1, <2>6, <3>2 DEF Numbers
  <2>11. Calm'
    <3>1. Loud(fs) = {}
      BY <2>4, <2>5 DEF Calm
    <3>2. Loud(gs) = {}
      BY <2>7, <2>8, <3>1 DEF Loud, Quiet
    <3>3. (Loud(frames) = {})'
      BY <2>6, <3>2 DEF Loud
    <3>4. ASSUME NEW d \in Children, Live(d)' PROVE ~Busy(d)'
      BY <1>4, <2>4, <3>4 DEF Calm, Busy, SameTurn
    <3> QED
      BY <2>1, <2>2, <3>3, <3>4 DEF Calm, Waiting
  <2> QED
    BY <2>3, <2>9, <2>10, <2>11, ChildNumbers DEF Reads, Live
<1> QED
  BY <1>5, <1>6

\* A child dies, or is sent a message.
LEMMA QuietChild ==
    ASSUME CardInv, HandoffInv', CardTypes', Next, ~Restart, status' # "failed",
           Driving \/ FollowUp \/ Stop \/ \E c \in Children : Dies(c)
    PROVE  Reads'
<1>0. /\ Reads /\ HandoffInv /\ frames \in Seq(FrameRecord) /\ SessionTypes /\ run \in RunRecord
      /\ child \in [Children -> ChildRecord] /\ registered \in Children \cup {0}
      /\ 0 \notin Children /\ 0 \in {0, registered}
  BY BeforeStep, ChildNumbers DEF CardInv, CardTypes, HandoffInv, SessionTypes
<1>1. ASSUME UNCHANGED <<pending, asked, registered, watched, debounce>>,
             status' \in {status, From({"starting"}, "idle")},
             \/ frames' = frames
             \/ \E f \in FrameRecord : Quiet(f) /\ Longer(frames, f, frames') /\ f.type # "state",
             \A c \in Children : Live(c)' => Live(c) /\ SameTurn(child'[c], child[c]),
             registered' = 0 \/ run'.at = "changing" =>
                 \A c \in Children : Live(c)' => child'[c].mail = child[c].mail
      PROVE  Reads'
  <2>1. Steady /\ (status \notin Waiting => status' \notin Waiting)
    BY <1>1, SteadyWhen
  <2>2. OneState(frames, debounce) => OneState(frames, debounce)'
    <3>1. CASE frames' = frames
      BY <1>1, <3>1 DEF OneState
    <3>2. ASSUME NEW f \in FrameRecord, Longer(frames, f, frames'), f.type # "state",
                 OneState(frames, debounce)
          PROVE  OneState(frames, debounce)'
      <4>1. PICK gs, d : gs = frames' /\ d = debounce
        OBVIOUS
      <4>2. OneState(gs, d)
        BY <1>0, <3>2, <4>1, LongerStates
      <4> QED
        BY <1>1, <4>1, <4>2 DEF OneState
    <3> QED
      BY <1>1, <3>1, <3>2
  <2>3. registered' \in {0, registered}
    BY <1>1
  <2>4. \/ frames' = frames
        \/ \E f \in FrameRecord : Quiet(f) /\ Longer(frames, f, frames')
    BY <1>1
  <2> QED
    BY <1>1, <2>1, <2>2, <2>3, <2>4, QuietMove
<1>2. ASSUME NEW c \in Children, NEW y, child' = [child EXCEPT ![c] = y],
             y.at = "live" => child[c].at = "live" /\ SameTurn(y, child[c]),
             (y.at = "live" => y.mail = child[c].mail) \/ (registered' # 0 /\ run'.at # "changing")
      PROVE  /\ \A d \in Children : Live(d)' => Live(d) /\ SameTurn(child'[d], child[d])
             /\ registered' = 0 \/ run'.at = "changing" =>
                    \A d \in Children : Live(d)' => child'[d].mail = child[d].mail
  BY <1>0, <1>2, ChildMovesQuietly
<1>3. CASE Skip \/ PromptFails
  <2>1. /\ UNCHANGED <<pending, asked, registered, watched, debounce, child, frames>>
        /\ status' \in {status, From({"starting"}, "idle")}
    BY <1>3 DEF Skip, PromptFails, Unheard, timers, counters
  <2>2. \A d \in Children : /\ Live(d)' => Live(d) /\ SameTurn(child'[d], child[d])
                            /\ child'[d].mail = child[d].mail
    BY <2>1 DEF Live, SameTurn
  <2> QED
    BY <1>1, <2>1, <2>2
<1>4. ASSUME NEW m \in {"step", "operator"}, NEW x \in ChildRecord
      PROVE  LET y == [x EXCEPT !.mail = Append(x.mail, m)] IN y.at = x.at /\ SameTurn(y, x)
  <2>1. x.mail \in Seq(Message) /\ m \in Message
    BY DEF ChildRecord, Message
  <2>2. Append(x.mail, m) \in Seq(Message) /\ Append(x.mail, m) # <<>>
    BY <2>1
  <2> QED
    BY <2>2, MailArrives DEF SameTurn
<1>5. CASE Prompt
  <2>1. /\ UNCHANGED <<pending, asked, registered, watched, debounce, status>>
        /\ run.at = "applied" /\ Live(run.child) /\ run' = [run EXCEPT !.at = "sent"]
        /\ Writes(run.child, <<Frame("ack")>>)
        /\ child' = [child EXCEPT ![run.child] =
                        [child[run.child] EXCEPT !.mail = Append(child[run.child].mail, "step")]]
    BY <1>5 DEF Prompt, timers, counters
  <2>2. run.child \in Children /\ run'.at = "sent" /\ child[run.child].at = "live"
    BY <1>0, <2>1 DEF HandoffInv, InHand, RunRecord, Live
  <2>3. registered' # 0
    BY <1>0, <2>1, <2>2 DEF HandoffInv, NoOrphan, BoundaryIsRuns, Handing
  <2>4. PICK y : /\ y = [child[run.child] EXCEPT !.mail = Append(child[run.child].mail, "step")]
                 /\ y.at = "live" /\ SameTurn(y, child[run.child])
    BY <1>0, <1>4, <2>2
  <2>5. /\ \A d \in Children : Live(d)' => Live(d) /\ SameTurn(child'[d], child[d])
        /\ registered' = 0 \/ run'.at = "changing" =>
               \A d \in Children : Live(d)' => child'[d].mail = child[d].mail
    BY <1>2, <2>1, <2>2, <2>3, <2>4
  <2>6. \/ frames' = frames
        \/ \E f \in FrameRecord : Quiet(f) /\ Longer(frames, f, frames') /\ f.type # "state"
    <3>1. Frame("ack") \in FrameRecord /\ Frame("ack").type = "ack"
      BY FrameType DEF FrameTypes
    <3>2. Longer(frames, Frame("ack"), frames \o <<Frame("ack")>>)
      BY <1>0, <3>1, AppendLonger
    <3> QED
      BY <2>1, <3>1, <3>2 DEF Writes, Quiet
  <2> QED
    BY <1>1, <2>1, <2>5, <2>6
<1>6. CASE FollowUp
  <2>1. /\ UNCHANGED <<pending, asked, registered, watched, debounce, status, frames, run>>
        /\ ~lock /\ Live(registered)
        /\ child' = [child EXCEPT ![registered] =
                        [child[registered] EXCEPT !.mail = Append(child[registered].mail, "operator")]]
    BY <1>6 DEF FollowUp, Operates, Acquires, timers
  <2>2. registered \in Children /\ run'.at # "changing" /\ registered' # 0
        /\ child[registered].at = "live"
    BY <1>0, <2>1 DEF HandoffInv, BoundaryIsRuns, Handing, Live
  <2>3. PICK y : /\ y = [child[registered] EXCEPT !.mail = Append(child[registered].mail, "operator")]
                 /\ y.at = "live" /\ SameTurn(y, child[registered])
    BY <1>0, <1>4, <2>2
  <2>4. /\ \A d \in Children : Live(d)' => Live(d) /\ SameTurn(child'[d], child[d])
        /\ registered' = 0 \/ run'.at = "changing" =>
               \A d \in Children : Live(d)' => child'[d].mail = child[d].mail
    BY <1>2, <2>1, <2>2, <2>3
  <2> QED
    BY <1>1, <2>1, <2>4
<1>7. ASSUME NEW c \in Children, child' = [child EXCEPT ![c] = [child[c] EXCEPT !.at = "dead"]],
             UNCHANGED <<pending, asked, registered, watched, debounce, status, frames>>
      PROVE  Reads'
  <2>1. PICK y : y = [child[c] EXCEPT !.at = "dead"] /\ y.at = "dead"
    BY <1>0, ChildDies
  <2>2. /\ \A d \in Children : Live(d)' => Live(d) /\ SameTurn(child'[d], child[d])
        /\ registered' = 0 \/ run'.at = "changing" =>
               \A d \in Children : Live(d)' => child'[d].mail = child[d].mail
    BY <1>2, <1>7, <2>1
  <2> QED
    BY <1>1, <1>7, <2>2
<1>8. CASE Stop
  <2>1. registered \in Children
    BY <1>0, <1>8 DEF Stop, Live
  <2> QED
    BY <1>7, <1>8, <2>1 DEF Stop, Operates, timers
<1>9. CASE \E c \in Children : Dies(c)
  BY <1>7, <1>9 DEF Dies, ChildSteps, timers
<1> QED
  BY <1>3, <1>5, <1>6, <1>8, <1>9 DEF Driving

\* The handoff, up to the child it starts.
LEMMA QuietHandoff ==
    ASSUME CardInv, HandoffInv', CardTypes', Next, ~Restart, status' # "failed",
           Entering, ~Started
    PROVE  Reads'
<1>0. /\ Reads /\ HandoffInv /\ frames \in Seq(FrameRecord) /\ Tracked
      /\ child \in [Children -> ChildRecord] /\ registered \in Children \cup {0}
  BY BeforeStep DEF CardInv, CardTypes, HandoffInv, SessionTypes
<1>1. ~Refused
  <2>1. Refused => status # "none"
    BY <1>0 DEF Entering, Enter, NotAtBoundary, AtBoundary, Reconfigure, ReconfigureFails, Replace,
                Retired, StartFails, Tracked, Handing, Starts, Refused, GiveUp, HandoffInv,
                BoundaryIsRuns
  <2> QED
    BY <2>1 DEF Refused, Becomes
<1>2. ~StartFails
  BY <1>0 DEF StartFails, Becomes, Tracked, Handing
<1>3. Enter \/ AtBoundary \/ Reconfigure \/ ReconfigureFails \/ Replace \/ Retired
  BY <1>1, <1>2 DEF Entering, NotAtBoundary
<1>4. UNCHANGED <<pending, asked, watched, frames, debounce>>
  BY <1>3 DEF Enter, AtBoundary, Reconfigure, ReconfigureFails, Replace, Retired, Unheard, timers,
              counters
<1>5. /\ registered' \in {0, registered}
      /\ status' = status \/ (registered' = 0 /\ status' = "starting")
  <2>1. CASE Enter
    <3>1. registered' = registered /\ (status' = status \/ (registered = 0 /\ status' = Becomes("starting")))
      BY <1>1, <2>1 DEF Enter, Starts
    <3> QED
      BY <3>1 DEF Becomes
  <2>2. CASE AtBoundary \/ Reconfigure
    BY <2>2 DEF AtBoundary, Reconfigure
  <2>3. CASE ReconfigureFails
    BY <2>3 DEF ReconfigureFails, GiveUp
  <2>4. CASE Replace
    <3>1. registered' = 0
      BY <2>4 DEF Replace, Retire, HandoffInv, InHand
    <3> QED
      BY <2>4, <3>1 DEF Replace, Becomes
  <2>5. CASE Retired
    BY <1>1, <2>5 DEF Retired, Starts
  <2> QED
    BY <1>3, <2>1, <2>2, <2>3, <2>4, <2>5
<1>6. registered' # 0 => Steady
  BY <1>4, <1>5, SteadyWhen
<1>7. status \notin Waiting => status' \notin Waiting
  BY <1>5 DEF Waiting
<1>8. /\ \A d \in Children : Live(d)' => Live(d) /\ SameTurn(child'[d], child[d])
      /\ \A d \in Children : Live(d)' => child'[d].mail = child[d].mail
  <2>1. CASE child' = child
    BY <2>1 DEF Live, SameTurn
  <2>2. ASSUME NEW c \in Children, child' = [child EXCEPT ![c] = [child[c] EXCEPT !.at = "starting"]]
        PROVE  /\ \A d \in Children : Live(d)' => Live(d) /\ SameTurn(child'[d], child[d])
               /\ \A d \in Children : Live(d)' => child'[d].mail = child[d].mail
    <3>1. PICK y : y = [child[c] EXCEPT !.at = "starting"] /\ y.at = "starting"
      BY <1>0, ChildStarts
    <3>2. child' = [child EXCEPT ![c] = y] /\ y.at # "live"
      BY <2>2, <3>1
    <3> QED
      BY <1>0, <3>2, ChildMovesQuietly
  <2>3. CASE Enter \/ Retired
    <3>1. child' = child \/ \E c \in Children :
              child' = [child EXCEPT ![c] = [child[c] EXCEPT !.at = "starting"]]
      BY <1>1, <2>3 DEF Enter, Retired, Starts
    <3> QED
      BY <2>1, <2>2, <3>1
  <2>4. CASE Reconfigure \/ ReconfigureFails \/ Replace
    <3>1. run.child \in Children
      BY <1>0, <2>4 DEF Reconfigure, ReconfigureFails, Replace, HandoffInv, InHand, Handing
    <3>2. PICK x \in ChildRecord : x = child[run.child]
      BY <1>0, <3>1
    <3>3. \/ child' = [child EXCEPT ![run.child] = [x EXCEPT !.policy.active = Wanted.active]]
          \/ child' = [child EXCEPT ![run.child] = [x EXCEPT !.policy.active = 0, !.retiring = TRUE]]
          \/ child' = [child EXCEPT ![run.child] = [x EXCEPT !.retiring = TRUE]]
      BY <2>4, <3>2 DEF Reconfigure, ReconfigureFails, GiveUp, Replace, Retire
    <3>4. \A y \in {[x EXCEPT !.policy.active = Wanted.active],
                    [x EXCEPT !.policy.active = 0, !.retiring = TRUE],
                    [x EXCEPT !.retiring = TRUE]} :
              y.at = x.at /\ y.turn = x.turn /\ y.question = x.question /\ y.mail = x.mail
      BY DEF ChildRecord
    <3>5. PICK y : /\ child' = [child EXCEPT ![run.child] = y]
                   /\ y.at = x.at /\ SameTurn(y, x) /\ y.mail = x.mail
      BY <3>3, <3>4 DEF SameTurn
    <3> QED
      BY <1>0, <3>1, <3>2, <3>5, ChildMovesQuietly
  <2>5. CASE AtBoundary
    BY <2>1, <2>5 DEF AtBoundary
  <2> QED
    BY <1>3, <2>3, <2>4, <2>5
<1>9. OneState(frames, debounce) => OneState(frames, debounce)'
  BY <1>4 DEF OneState
<1> QED
  BY <1>4, <1>5, <1>6, <1>7, <1>8, <1>9, QuietMove

\* The child that is started has nothing to do, and nothing is shown of it.
LEMMA StartedReads ==
    ASSUME CardInv, HandoffInv', CardTypes', Next, status # "failed", Reads, Started
    PROVE  Reads'
<1>0. /\ HandoffInv /\ FreshChildren /\ pending \in Question /\ asked \in Nat
      /\ child \in [Children -> ChildRecord] /\ 0 \notin Children
      /\ run.child \in Children /\ child[run.child].at = "starting" /\ registered = 0
      /\ run \in RunRecord
  BY ChildNumbers DEF CardInv, CardTypes, HandoffInv, SessionTypes, Started, InHand, Handing
<1>1. /\ child' = [child EXCEPT ![run.child] =
                      [child[run.child] EXCEPT !.at = "live", !.policy = Verified]]
      /\ registered' = run.child /\ watched' = run.child /\ frames' = <<>>
      /\ pending' = pending /\ asked' = asked
      /\ status' \in {status, From({"starting"}, "idle")}
  BY DEF Started, counters
<1>2. Calm
  BY <1>0 DEF Reads
<1>3. OneState(frames, debounce)' /\ Numbers(frames, pending, asked)'
  BY <1>0, <1>1, <1>2 DEF OneState, Numbers, Calm, None
<1>4. run'.at # "changing"
  <2>1. \A s : [Between EXCEPT !.step = s].at = "ready"
    BY DEF Between
  <2> QED
    BY <1>0, <2>1 DEF Started, RunRecord
<1>5. PICK y : y = child'[registered'] /\ y.turn = "none" /\ y.mail = <<>>
  <2>1. \A x \in ChildRecord : LET y == [x EXCEPT !.at = "live", !.policy = Verified] IN
            y.turn = x.turn /\ y.mail = x.mail
    BY DEF ChildRecord
  <2>2. child[run.child].turn = "none" /\ child[run.child].mail = <<>>
    BY <1>0 DEF FreshChildren, Unstarted, Busy
  <2> QED
    BY <1>0, <1>1, <2>1, <2>2
<1>6. PICK gs : gs = frames' /\ gs = <<>>
  BY <1>1
<1>7. DOMAIN gs = {} /\ Loud(gs) = {} /\ ~Begins(gs)
  BY <1>6 DEF Loud, Begins
<1>8. pending' = None /\ status' \notin Waiting
  BY <1>1, <1>2 DEF Calm, From, Becomes, Waiting
<1>9. Card(gs, y)'
  <2>1. Chained(gs) /\ Ending(gs, y)
    BY <1>7 DEF Chained, Linked, Ending
  <2>2. Agrees(y)'
    BY <1>5, <1>8 DEF Agrees
  <2>3. Beginning(gs, y)'
    BY <1>7, <2>2 DEF Beginning
  <2> QED
    BY <2>1, <2>3 DEF Card
<1>10. (watched = registered /\ Card(frames, child[registered]))'
  BY <1>1, <1>5, <1>6, <1>9, CardIs
<1>11. registered' # 0
  BY <1>0, <1>1
<1> QED
  BY <1>3, <1>4, <1>10, <1>11 DEF Reads

\* After a restart no child is registered, and nothing is shown.
LEMMA RestartReads ==
    ASSUME HandoffInv, Restart
    PROVE  Reads'
<1>1. /\ registered' = 0 /\ pending' = None /\ frames' = <<>> /\ asked' = asked
      /\ status' \in {"none", "starting"} /\ asked \in Nat
  BY DEF Restart, HandoffInv, SessionTypes
<1>2. OneState(frames, debounce)' /\ Numbers(frames, pending, asked)' /\ (Loud(frames) = {})'
  BY <1>1 DEF OneState, Numbers, Loud, None
<1>3. \A d \in Children : ~Live(d)'
  BY RestartsFresh DEF Live
<1>4. Calm'
  BY <1>1, <1>2, <1>3 DEF Calm, Waiting
<1>5. ~Live(registered)'
  BY <1>1 DEF Live
<1> QED
  BY <1>2, <1>4, <1>5 DEF Reads

-----------------------------------------------------------------------------
(* The child at work, and the operator                                      *)

\* A child at work is the registered one, and it is not in hand.
LEMMA AtWork ==
    ASSUME CardInv, Reads, NEW c \in Children, Live(c), Busy(c)
    PROVE  /\ registered = c /\ watched = c /\ run.at # "changing"
           /\ Card(frames, child[c])
<1>0. HandoffInv /\ child[c].at = "live" /\ c # 0
  BY ChildNumbers DEF CardInv, Live
<1>1. registered # 0 /\ run.at # "changing"
  BY DEF Reads, Calm
<1>2. registered = c
  BY <1>0, <1>1 DEF HandoffInv, NoOrphan, InHand, BoundaryIsRuns, Handing, Live
<1> QED
  BY <1>1, <1>2 DEF Reads

\* What such a child does leaves the session as the invariant says, if it does
\* so with what was written and what the child is at now.
LEMMA WorkReads ==
    ASSUME HandoffInv', registered \in Children, run.at # "changing",
           UNCHANGED <<registered, watched, debounce>>, run'.at = run.at,
           watched = registered,
           NEW gs, gs = frames', NEW y, y = child'[registered],
           NEW d, d = debounce, OneState(gs, d),
           NEW q, q = pending', NEW m, m = asked', Numbers(gs, q, m), Card(gs, y)'
    PROVE  Reads'
<1>1. OneState(frames, debounce)' /\ Numbers(frames, pending, asked)'
  BY DEF OneState, Numbers
<1>2. Card(frames, child[registered])'
  BY CardIs
<1>3. registered' # 0 /\ run'.at # "changing"
  BY ChildNumbers
<1> QED
  BY <1>1, <1>2, <1>3 DEF Reads

\* The child writes one frame.
LEMMA Speaks ==
    ASSUME CardInv, HandoffInv', Reads, NEW c \in Children, Live(c), Busy(c),
           UNCHANGED <<registered, watched, status, pending, debounce>>, run'.at = run.at,
           NEW y \in ChildRecord, child' = [child EXCEPT ![c] = y],
           NEW f \in FrameRecord, ~Quiet(f), Writes(c, <<f>>),
           NEW m \in Nat, m = asked', asked <= m,
           f.type = "request" => asked < f.question.id /\ f.question.id <= m,
           f.type = "ask_end" => f.question.kind = "ask",
           \A i \in DOMAIN frames : Newest(frames, i) => MayFollow(frames[i], f),
           IF y.turn = "none"
           THEN /\ f.type = "agent_end"
                /\ \A k \in DOMAIN frames : Newest(frames, k) => frames[k].type # "request"
           ELSE IF y.question = None
           THEN f.type \in {"agent_start", "ask_end", "auto_retry_end"}
           ELSE f.type = "request" /\ f.question = y.question,
           f.type = "agent_start"
               \/ (child[c].turn # "none" /\ (Agrees(child[c]) => ReadyFor(f)))
    PROVE  Reads'
<1>0. /\ registered = c /\ watched = c /\ run.at # "changing" /\ Card(frames, child[c])
      /\ frames \in Seq(FrameRecord) /\ child \in [Children -> ChildRecord]
      /\ pending \in Question /\ asked \in Nat
  BY AtWork DEF CardInv, CardTypes, HandoffInv, SessionTypes
<1>1. PICK fs \in Seq(FrameRecord) : fs = frames
  BY <1>0
<1>2. PICK x \in ChildRecord : x = child[c]
  BY <1>0
<1>3. PICK gs : gs = frames'
  OBVIOUS
<1>04. PICK d : d = debounce
  OBVIOUS
<1>4. PICK p \in Question, n \in Nat : p = pending /\ d = debounce /\ n = asked
  BY <1>0, <1>04
<1>5. Card(fs, x) /\ OneState(fs, d) /\ Numbers(fs, p, n)
  BY <1>0, <1>1, <1>2, <1>4 DEF Reads
<1>6. Longer(fs, f, gs)
  <2>1. gs = fs \o <<f>>
    BY <1>0, <1>1, <1>3 DEF Writes
  <2> QED
    BY <2>1, AppendLonger
<1>7. gs \in Seq(FrameRecord)
  BY <1>6 DEF Longer
<1>8. Chained(gs) /\ Ending(gs, y)
  <2>1. Chained(fs) /\ \A i \in DOMAIN fs : Newest(fs, i) => MayFollow(fs[i], f)
    BY <1>1, <1>5 DEF Card
  <2>2. IF y.turn = "none"
        THEN /\ f.type = "agent_end"
             /\ y.mail = <<>> => \A k \in DOMAIN fs : Newest(fs, k) => fs[k].type # "request"
        ELSE IF y.question = None
        THEN f.type \in {"agent_start", "ask_end", "auto_retry_end"}
        ELSE f.type = "request" /\ f.question = y.question
    BY <1>1
  <2> QED
    BY <1>6, <2>1, <2>2, Written
<1>9. Beginning(gs, y)
  <2>1. f.type = "agent_start" \/ (x.turn # "none" /\ (Agrees(x) => ReadyFor(f)))
    BY <1>2
  <2>2. x.turn # "none" => (Loud(fs) = {} /\ ~Begins(fs) => Agrees(x))
    BY <1>5 DEF Card, Beginning
  <2>3. Beginning(fs, x)
    BY <1>5 DEF Card
  <2>4. \/ f.type = "agent_start"
        \/ /\ x.turn # "none" \/ x.mail = <<>>
           /\ Loud(fs) = {} /\ ~Begins(fs) => ReadyFor(f)
    BY <2>1, <2>2
  <2> QED
    BY <1>6, <2>3, <2>4, WrittenBegins
<1>10. Card(gs, y)'
  <2>1. Card(gs, y)
    BY <1>8, <1>9 DEF Card
  <2>2. SameTold(gs, gs) /\ Steady
    BY <1>7, QuietTells, SteadyWhen
  <2> QED
    BY <1>7, <2>1, <2>2, NothingNew
<1>11. OneState(gs, d)
  BY <1>5, <1>6, LongerStates DEF Quiet
<1>12. Numbers(gs, p, m)
  <2>1. p.id \in Nat
    BY DEF Question
  <2> QED
    BY <1>4, <1>5, <1>6, <2>1, LongerNumbers
<1>13. y = child'[registered] /\ p = pending'
  BY <1>0, <1>4
<1> QED
  BY <1>0, <1>3, <1>4, <1>10, <1>11, <1>12, <1>13, WorkReads

\* It writes two.
LEMMA Pair == ASSUME NEW f, NEW g PROVE <<f>> \o <<g>> = <<f, g>>
<1>1. PICK s : s = <<f>> \o <<g>>
  OBVIOUS
<1>2. PICK t : t = <<f, g>>
  OBVIOUS
<1>3. s \in Seq({f, g}) /\ Len(s) = 2 /\ s[1] = f /\ s[2] = g
  BY <1>1
<1>4. t \in Seq({f, g}) /\ Len(t) = 2 /\ t[1] = f /\ t[2] = g
  BY <1>2
<1>5. s = t
  BY <1>3, <1>4, SeqEqual
<1> QED
  BY <1>1, <1>2, <1>5

LEMMA TwoLonger ==
    ASSUME NEW fs \in Seq(FrameRecord), NEW f \in FrameRecord, NEW g \in FrameRecord,
           NEW gs, gs = fs \o <<f, g>>
    PROVE  \E hs \in Seq(FrameRecord) : Longer(fs, f, hs) /\ Longer(hs, g, gs)
<1>1. PICK hs \in Seq(FrameRecord) : hs = fs \o <<f>>
  <2>1. fs \o <<f>> \in Seq(FrameRecord)
    OBVIOUS
  <2> QED
    BY <2>1, Zenon
<1>2. Len(hs) = Len(fs) + 1 /\ hs[Len(fs) + 1] = f /\ \A i \in 1..Len(fs) : hs[i] = fs[i]
  BY <1>1
<1>3. /\ gs \in Seq(FrameRecord) /\ Len(gs) = Len(fs) + 2
      /\ gs[Len(fs) + 1] = f /\ gs[Len(fs) + 2] = g /\ \A i \in 1..Len(fs) : gs[i] = fs[i]
  OBVIOUS
<1>4. DOMAIN hs = 1..(Len(fs) + 1) /\ Len(fs) \in Nat
  BY <1>2
<1>5. \A i \in DOMAIN hs : i \in 1..Len(fs) \/ i = Len(fs) + 1
  BY <1>4
<1>6. Longer(hs, g, gs)
  BY <1>2, <1>3, <1>4, <1>5 DEF Longer
<1> QED
  BY <1>1, <1>6, AppendLonger

\* A call that is retried goes on, both of which are told at once.
LEMMA RetriesRead ==
    ASSUME CardInv, HandoffInv', Reads, NEW c \in Children, Retries(c)
    PROVE  Reads'
<1>0. /\ Live(c) /\ child[c].turn # "none" /\ child[c].question = None /\ HandoffInv
      /\ Writes(c, <<Frame("auto_retry_start"), Frame("auto_retry_end")>>)
      /\ UNCHANGED <<child, run, asked, registered, watched, status, pending, debounce>>
  BY DEF Retries, ChildSteps, timers, CardInv
<1>1. /\ registered = c /\ watched = c /\ run.at # "changing" /\ Card(frames, child[c])
      /\ frames \in Seq(FrameRecord) /\ child \in [Children -> ChildRecord]
      /\ pending \in Question /\ asked \in Nat
  BY <1>0, AtWork DEF CardInv, CardTypes, HandoffInv, SessionTypes, Busy
<1>2. PICK fs \in Seq(FrameRecord), x \in ChildRecord, p \in Question, n \in Nat :
          fs = frames /\ x = child[c] /\ p = pending /\ n = asked
  <2>1. PICK x \in ChildRecord : x = child[c]
    BY <1>1
  <2> QED
    BY <1>1, <2>1
<1>3. PICK d : d = debounce
  OBVIOUS
<1>4. PICK f \in FrameRecord, g \in FrameRecord :
          /\ f = Frame("auto_retry_start") /\ f.type = "auto_retry_start"
          /\ g = Frame("auto_retry_end") /\ g.type = "auto_retry_end"
  BY FrameType DEF FrameTypes
<1>6. PICK gs : gs = frames'
  OBVIOUS
<1>7. PICK hs \in Seq(FrameRecord) : Longer(fs, f, hs) /\ Longer(hs, g, gs)
  <2>1. gs = fs \o <<f, g>>
    BY <1>0, <1>1, <1>2, <1>4, <1>6 DEF Writes
  <2> QED
    BY <2>1, TwoLonger
<1>8. Card(fs, x) /\ OneState(fs, d) /\ Numbers(fs, p, n) /\ x.turn # "none" /\ x.question = None
  BY <1>0, <1>1, <1>2, <1>3 DEF Reads
<1>9. Chained(hs) /\ Beginning(hs, x)
  <2>1. \A i \in DOMAIN fs : Newest(fs, i) => MayFollow(fs[i], f)
    BY <1>4, <1>8 DEF Card, Ending, MayFollow
  <2>2. Chained(hs)
    BY <1>4, <1>7, <1>8, <2>1, LongerChains DEF Card, Quiet
  <2>3. Loud(fs) = {} /\ ~Begins(fs) => ReadyFor(f)
    BY <1>4, <1>8 DEF Card, Beginning, Agrees, ReadyFor
  <2>4. Beginning(fs, x) /\ ~Quiet(f)
    BY <1>4, <1>8 DEF Card, Quiet
  <2> QED
    BY <1>7, <1>8, <2>2, <2>3, <2>4, WrittenBegins
<1>10. Newest(hs, Len(hs)) /\ Loud(hs) # {} /\ \A i : Newest(hs, i) => hs[i] = f
  <2>1. /\ Loud(hs) = Loud(fs) \cup {Len(hs)} /\ \A i \in Loud(fs) : i < Len(hs)
        /\ \A i : Newest(hs, i) => i = Len(hs)
    BY <1>4, <1>7, LongerChains DEF Quiet
  <2>2. hs[Len(hs)] = f /\ Len(hs) \in Nat
    BY <1>7 DEF Longer
  <2>3. \A k \in Loud(hs) : k <= Len(hs)
    <3>1. \A k \in Loud(fs) : k \in Nat
      BY DEF Loud
    <3> QED
      BY <2>1, <2>2, <3>1
  <2>4. Len(hs) \in Loud(hs)
    BY <2>1
  <2>5. Newest(hs, Len(hs))
    BY <2>3, <2>4 DEF Newest
  <2> QED
    BY <2>1, <2>2, <2>4, <2>5
<1>11. Chained(gs) /\ Ending(gs, x)
  <2>1. \A i \in DOMAIN hs : Newest(hs, i) => MayFollow(hs[i], g)
    BY <1>4, <1>10 DEF MayFollow
  <2>2. ~Quiet(g) /\ g.type \in {"agent_start", "ask_end", "auto_retry_end"}
    BY <1>4 DEF Quiet
  <2> QED
    BY <1>7, <1>8, <1>9, <2>1, <2>2, Written
<1>12. Beginning(gs, x)
  <2>1. ~Quiet(g) /\ Loud(hs) # {}
    BY <1>4, <1>10 DEF Quiet
  <2> QED
    BY <1>7, <1>8, <1>9, <2>1, WrittenBegins
<1>13. Card(gs, x)'
  <2>1. Card(gs, x) /\ gs \in Seq(FrameRecord)
    BY <1>7, <1>11, <1>12 DEF Card, Longer
  <2>2. SameTold(gs, gs) /\ Steady
    BY <1>0, <2>1, QuietTells, SteadyWhen
  <2> QED
    BY <2>1, <2>2, NothingNew
<1>14. OneState(gs, d)
  <2>1. OneState(hs, d)
    BY <1>4, <1>7, <1>8, LongerStates
  <2> QED
    BY <1>4, <1>7, <2>1, LongerStates
<1>15. Numbers(gs, p, n)
  <2>0. p.id \in Nat
    BY DEF Question
  <2>1. Numbers(hs, p, n)
    BY <1>4, <1>7, <1>8, <2>0, LongerNumbers
  <2> QED
    BY <1>4, <1>7, <2>0, <2>1, LongerNumbers
<1>16. x = child'[registered] /\ p = pending' /\ n = asked' /\ registered \in Children
  BY <1>0, <1>1, <1>2
<1> QED
  BY <1>0, <1>1, <1>3, <1>6, <1>13, <1>14, <1>15, <1>16, WorkReads

\* A turn begins, asks, is told that its question is over, and ends.
LEMMA AgentReads ==
    ASSUME CardInv, HandoffInv', Reads, NEW c \in Children,
           Begin(c) \/ Asks(c, "ask") \/ Asks(c, "approval") \/ Withdraws(c) \/ Ends(c)
    PROVE  Reads'
<1>0. /\ Live(c) /\ HandoffInv /\ asked \in Nat
      /\ UNCHANGED <<registered, watched, status, pending, debounce>>
  BY DEF Begin, Asks, Withdraws, Ends, ChildSteps, timers, CardInv, HandoffInv, SessionTypes
<1>1. PICK x \in ChildRecord : /\ x = child[c] /\ (x.turn = "none" => x.question = None)
                               /\ x.question \in Question /\ x.mail \in Seq(Message)
                               /\ x.turn \in {"none"} \cup Message
  BY <1>0 DEF HandoffInv, SessionTypes, QuestionInTurn, ChildRecord
<1>2. Busy(c)
  <2>1. x.turn # "none" \/ x.mail # <<>>
    <3>1. CASE Withdraws(c)
      BY <1>1, <3>1 DEF Withdraws, None
    <3> QED
      BY <1>1, <3>1 DEF Begin, Asks, Ends
  <2> QED
    BY <1>1, <2>1 DEF Busy
<1>3. run'.at = run.at
  <2>1. run' = run \/ Over(c)
    BY DEF Begin, Asks, Withdraws, Ends
  <2> QED
    BY <1>0, <2>1, Notes DEF HandoffInv
<1>4. Card(frames, x)
  BY <1>0, <1>1, <1>2, AtWork
<1>5. ASSUME NEW i \in DOMAIN frames, Newest(frames, i)
      PROVE  IF x.turn = "none" THEN frames[i].type = "agent_end"
             ELSE IF x.question = None
             THEN frames[i].type \in {"agent_start", "ask_end", "auto_retry_end"}
             ELSE frames[i].type = "request" /\ frames[i].question = x.question
  BY <1>4, <1>5 DEF Card, Ending
<1>6. /\ x.turn # "none" /\ x.question = None => (Agrees(x) => Goes)
      /\ x.turn # "none" /\ x.question # None => (Agrees(x) => Shows(x.question))
  BY DEF Agrees
<1>7. CASE Begin(c)
  <2>1. /\ x.turn = "none" /\ x.mail # <<>> /\ asked' = asked
        /\ child' = [child EXCEPT ![c] = [x EXCEPT !.turn = Head(x.mail), !.mail = Tail(x.mail)]]
        /\ Writes(c, <<Frame("agent_start")>>)
    BY <1>1, <1>7 DEF Begin
  <2>2. Head(x.mail) \in Message /\ Tail(x.mail) \in Seq(Message)
    BY <1>1, <2>1
  <2>3. PICK y \in ChildRecord :
            /\ y = [x EXCEPT !.turn = Head(x.mail), !.mail = Tail(x.mail)]
            /\ y.turn # "none" /\ y.question = None
    <3>1. PICK t \in Message, mail \in Seq(Message) : t = Head(x.mail) /\ mail = Tail(x.mail)
      BY <2>2
    <3>2. [x EXCEPT !.turn = t, !.mail = mail] \in ChildRecord
          /\ [x EXCEPT !.turn = t, !.mail = mail].turn = t
          /\ [x EXCEPT !.turn = t, !.mail = mail].question = x.question
      BY DEF ChildRecord
    <3> QED
      BY <1>1, <2>1, <3>1, <3>2 DEF Message
  <2>4. PICK f \in FrameRecord : f = Frame("agent_start") /\ f.type = "agent_start"
    BY FrameType DEF FrameTypes
  <2>5. \A i \in DOMAIN frames : Newest(frames, i) => MayFollow(frames[i], f)
    BY <1>5, <2>1, <2>4 DEF MayFollow
  <2>6. child' = [child EXCEPT ![c] = y] /\ Writes(c, <<f>>)
    BY <2>1, <2>3, <2>4
  <2>7. asked = asked' /\ asked <= asked /\ ~Quiet(f)
    BY <1>0, <2>1, <2>4 DEF Quiet
  <2> QED
    BY <1>0, <1>2, <1>3, <2>3, <2>4, <2>5, <2>6, <2>7, Speaks
<1>8. ASSUME NEW kind \in {"ask", "approval"}, Asks(c, kind) PROVE Reads'
  <2>0. PICK m \in Nat : m = asked' /\ m = asked + 1
    BY <1>0, <1>8 DEF Asks
  <2>1. PICK q : q = [id |-> m, kind |-> kind]
    OBVIOUS
  <2>01. q \in Question /\ q # None /\ q.id = m
    <3>1. q.id = m /\ m # 0
      BY <1>0, <2>0, <2>1
    <3> QED
      BY <2>1, <3>1 DEF Question, None
  <2>2. /\ x.turn # "none" /\ x.question = None
        /\ child' = [child EXCEPT ![c] = [x EXCEPT !.question = q]]
        /\ Writes(c, <<[Frame("request") EXCEPT !.question = q]>>)
    BY <1>1, <1>8, <2>0, <2>1 DEF Asks
  <2>3. PICK y : y = [x EXCEPT !.question = q]
    OBVIOUS
  <2>03. y \in ChildRecord /\ y.turn # "none" /\ y.question = q
    BY <2>01, <2>2, <2>3, QuestionMoves
  <2>4. PICK f : f = [Frame("request") EXCEPT !.question = q]
    OBVIOUS
  <2>04. f \in FrameRecord /\ f.type = "request" /\ f.question = q /\ ~Quiet(f)
    BY <2>01, <2>4, FrameType DEF FrameTypes, Quiet
  <2>5. \A i \in DOMAIN frames : Newest(frames, i) => MayFollow(frames[i], f)
    BY <1>5, <2>2, <2>04 DEF MayFollow
  <2>6. child[c].turn # "none" /\ (Agrees(child[c]) => ReadyFor(f))
    BY <1>1, <1>6, <2>2, <2>04 DEF ReadyFor
  <2>7. asked <= m /\ asked < f.question.id /\ f.question.id <= m
    BY <1>0, <2>0, <2>01, <2>04
  <2>8. child' = [child EXCEPT ![c] = y] /\ Writes(c, <<f>>)
    BY <2>2, <2>3, <2>4
  <2> QED
    BY <1>0, <1>2, <1>3, <2>0, <2>01, <2>03, <2>04, <2>5, <2>6, <2>7, <2>8, Speaks
<1>9. CASE Withdraws(c)
  <2>1. /\ x.question.kind = "ask" /\ asked' = asked
        /\ child' = [child EXCEPT ![c] = [x EXCEPT !.question = None]]
        /\ Writes(c, <<[Frame("ask_end") EXCEPT !.question = x.question]>>)
    BY <1>1, <1>9 DEF Withdraws
  <2>2. x.turn # "none" /\ x.question # None
    BY <1>1, <2>1 DEF None
  <2>3. PICK y : y = [x EXCEPT !.question = None]
    OBVIOUS
  <2>03. y \in ChildRecord /\ y.turn # "none" /\ y.question = None
    BY <2>2, <2>3, QuestionMoves, NoChildType
  <2>4. PICK f : f = [Frame("ask_end") EXCEPT !.question = x.question]
    OBVIOUS
  <2>04. /\ f \in FrameRecord /\ f.type = "ask_end" /\ f.question = x.question
         /\ f.question.kind = "ask" /\ ~Quiet(f)
    BY <1>1, <2>1, <2>4, FrameType DEF FrameTypes, Quiet
  <2>5. \A i \in DOMAIN frames : Newest(frames, i) => MayFollow(frames[i], f)
    BY <1>5, <2>2, <2>04 DEF MayFollow
  <2>6. child[c].turn # "none" /\ (Agrees(child[c]) => ReadyFor(f))
    BY <1>1, <1>6, <2>2, <2>04 DEF ReadyFor
  <2>7. child' = [child EXCEPT ![c] = y] /\ Writes(c, <<f>>) /\ asked = asked' /\ asked <= asked
    BY <1>0, <2>1, <2>3, <2>4
  <2> QED
    BY <1>0, <1>2, <1>3, <2>03, <2>04, <2>5, <2>6, <2>7, Speaks
<1>10. CASE Ends(c)
  <2>1. /\ x.turn # "none" /\ x.question = None /\ asked' = asked
        /\ child' = [child EXCEPT ![c] = [x EXCEPT !.turn = "none"]]
        /\ Writes(c, <<Frame("agent_end")>>)
    BY <1>1, <1>10 DEF Ends
  <2>2. PICK y : y = [x EXCEPT !.turn = "none"]
    OBVIOUS
  <2>02. y \in ChildRecord /\ y.turn = "none"
    BY <2>2, TurnEnds
  <2>3. PICK f \in FrameRecord : f = Frame("agent_end") /\ f.type = "agent_end"
    BY FrameType DEF FrameTypes
  <2>4. \A i \in DOMAIN frames : Newest(frames, i) =>
            MayFollow(frames[i], f) /\ frames[i].type # "request"
    BY <1>5, <2>1, <2>3 DEF MayFollow
  <2>5. child[c].turn # "none" /\ (Agrees(child[c]) => ReadyFor(f)) /\ ~Quiet(f)
    BY <1>1, <1>6, <2>1, <2>3 DEF ReadyFor, Goes, Waiting, Quiet
  <2>6. child' = [child EXCEPT ![c] = y] /\ Writes(c, <<f>>) /\ asked = asked' /\ asked <= asked
    BY <1>0, <2>1, <2>2, <2>3
  <2> QED
    BY <1>0, <1>2, <1>3, <2>02, <2>3, <2>4, <2>5, <2>6, Speaks
<1> QED
  BY <1>7, <1>8, <1>9, <1>10

\* A question is answered while the tracker shows it: the child has told of
\* nothing since, or the tracker hears first what it has told.
LEMMA AnswerReads ==
    ASSUME CardInv, HandoffInv', Reads, Answer
    PROVE  Reads'
<1>0. /\ HandoffInv /\ ~lock /\ Live(registered) /\ pending # None /\ pending' = None
      /\ status' = Resumes /\ asked' = asked /\ run' = run
      /\ UNCHANGED <<registered, watched, debounce>>
  BY DEF Answer, Operates, Acquires, ClearPending, timers, CardInv
<1>1. /\ registered \in Children /\ watched = registered /\ run.at # "changing"
      /\ Card(frames, child[registered])
      /\ frames \in Seq(FrameRecord) /\ child \in [Children -> ChildRecord]
      /\ pending \in Question /\ asked \in Nat
  BY <1>0 DEF Live, Reads, CardInv, CardTypes, HandoffInv, SessionTypes, BoundaryIsRuns, Handing
<1>2. PICK c \in Children : c = registered
  BY <1>1
<1>3. PICK fs \in Seq(FrameRecord), p \in Question, n \in Nat :
          fs = frames /\ p = pending /\ n = asked
  BY <1>1
<1>4. PICK x \in ChildRecord : /\ x = child[c] /\ (x.turn = "none" => x.question = None)
                               /\ x.question \in Question
  BY <1>0, <1>1 DEF HandoffInv, QuestionInTurn, ChildRecord
<1>5. PICK d : d = debounce
  OBVIOUS
<1>6. PICK gs : gs = frames'
  OBVIOUS
<1>7. /\ Chained(fs) /\ Ending(fs, x) /\ Beginning(fs, x)
      /\ OneState(fs, d) /\ Numbers(fs, p, n)
  BY <1>1, <1>2, <1>3, <1>4, <1>5 DEF Reads, Card
<1>8. \A q : Shows(q) => Goes'
  BY <1>0, <1>5 DEF Shows, Goes, Resumes, From, Becomes, WaitingFor
<1>9. None \in Question /\ None.id = 0 /\ p.id \in Nat
  BY NoChildType DEF None, Question
<1>10. CASE x.question = p
  <2>1. x.turn # "none" /\ x.question # None
    BY <1>0, <1>3, <1>4, <1>10
  <2>2. Loud(fs) = {}
    <3>1. ASSUME NEW i \in DOMAIN fs, Newest(fs, i) PROVE FALSE
      <4>1. fs[i].type = "request" /\ fs[i].question = p
        BY <1>7, <1>10, <2>1, <3>1 DEF Ending
      <4>2. p.id < fs[i].question.id
        BY <1>7, <4>1 DEF Numbers
      <4> QED
        BY <1>9, <4>1, <4>2
    <3> QED
      BY <1>7, <3>1 DEF Chained
  <2>3. ~Begins(fs)
    BY <2>2 DEF Begins, Loud, Quiet
  <2>4. Goes'
    BY <1>7, <1>8, <2>1, <2>2, <2>3 DEF Beginning, Agrees
  <2>5. PICK y \in ChildRecord : /\ y = [x EXCEPT !.question = None]
                                 /\ y.turn # "none" /\ y.question = None
    <3>1. PICK y : y = [x EXCEPT !.question = None]
      OBVIOUS
    <3>2. y \in ChildRecord /\ y.turn # "none" /\ y.question = None
      BY <1>9, <2>1, <3>1, QuestionMoves
    <3> QED
      BY <3>1, <3>2
  <2>6. y = child'[registered]
    BY <1>0, <1>1, <1>2, <1>3, <1>4, <1>10, <2>5 DEF Answer
  <2>7. \A i \in DOMAIN fs : ~Newest(fs, i)
    BY <2>2 DEF Newest
  <2>8. CASE p.kind = "ask"
    <3>1. PICK f : f = [Frame("ask_end") EXCEPT !.question = p]
      OBVIOUS
    <3>2. f \in FrameRecord /\ f.type = "ask_end" /\ f.question = p /\ ~Quiet(f)
      BY <3>1, FrameType DEF FrameTypes, Quiet
    <3>3. gs = fs \o <<f>>
      BY <1>0, <1>1, <1>2, <1>3, <1>4, <1>6, <1>10, <2>8, <3>1 DEF Answer, Writes
    <3>4. Longer(fs, f, gs)
      BY <3>2, <3>3, AppendLonger
    <3>5. Chained(gs) /\ Ending(gs, y)
      BY <1>7, <2>5, <2>7, <3>2, <3>4, Written
    <3>6. Beginning(gs, y)'
      <4>1. Loud(gs) # {} /\ \A i : Oldest(gs, i) => i = Len(gs)
        <5>1. /\ Loud(gs) = Loud(fs) \cup {Len(gs)}
              /\ \A i : Oldest(gs, i) => Oldest(fs, i) \/ (Loud(fs) = {} /\ i = Len(gs))
          BY <3>2, <3>4, LongerChains
        <5> QED
          BY <2>2, <5>1 DEF Oldest
      <4>2. gs[Len(gs)] = f
        BY <3>4 DEF Longer
      <4>3. ReadyFor(f)'
        BY <2>4, <3>2 DEF ReadyFor
      <4> QED
        BY <4>1, <4>2, <4>3 DEF Beginning
    <3>7. Card(gs, y)'
      BY <3>5, <3>6 DEF Card
    <3>8. OneState(gs, d)
      BY <1>7, <3>2, <3>4, LongerStates
    <3>9. Numbers(gs, None, n)
      BY <1>7, <1>9, <2>8, <3>2, <3>4, LongerNumbers
    <3> QED
      BY <1>0, <1>1, <1>3, <1>5, <1>6, <2>6, <3>7, <3>8, <3>9, WorkReads
  <2>9. CASE p.kind # "ask"
    <3>1. gs = fs
      BY <1>0, <1>1, <1>2, <1>3, <1>4, <1>6, <1>10, <2>9 DEF Answer, Writes
    <3>2. Chained(gs) /\ Ending(gs, y)
      BY <1>7, <2>7, <3>1 DEF Ending
    <3>3. Beginning(gs, y)'
      <4>1. Agrees(y)'
        BY <2>4, <2>5 DEF Agrees
      <4>2. \A i \in DOMAIN gs : ~Oldest(gs, i)
        BY <2>2, <3>1 DEF Oldest
      <4> QED
        BY <4>1, <4>2 DEF Beginning
    <3>4. Card(gs, y)'
      BY <3>2, <3>3 DEF Card
    <3>5. OneState(gs, d)
      BY <1>7, <3>1
    <3>6. Numbers(gs, None, n)
      <4>1. \A i \in DOMAIN fs : fs[i].question.id \in Nat
        BY FrameQuestions
      <4> QED
        BY <1>7, <1>9, <3>1, <4>1 DEF Numbers
    <3> QED
      BY <1>0, <1>1, <1>3, <1>5, <1>6, <2>6, <3>4, <3>5, <3>6, WorkReads
  <2> QED
    BY <2>8, <2>9
<1>11. CASE x.question # p
  <2>1. gs = fs /\ x = child'[registered]
    BY <1>0, <1>1, <1>2, <1>3, <1>4, <1>6, <1>11 DEF Answer
  <2>2. ~Goes /\ ~Repeats /\ ~Agrees(x)
    BY <1>0, <1>3, <1>11 DEF Goes, Repeats, Agrees, Shows
  <2>3. Beginning(gs, x)'
    <3>1. ASSUME ~Begins(fs), x.turn # "none" \/ x.mail = <<>>
          PROVE  /\ Loud(fs) # {}
                 /\ \A i \in DOMAIN fs : Oldest(fs, i) => ReadyFor(fs[i])
      BY <1>7, <2>2, <3>1 DEF Beginning
    <3>2. ASSUME NEW f, ReadyFor(f) PROVE ReadyFor(f)'
      <4>1. f.type \notin {"request", "auto_retry_start", "auto_retry_end"}
        BY <2>2, <3>2 DEF ReadyFor
      <4>2. f.type = "ask_end" => Goes'
        BY <1>8, <2>2, <3>2 DEF ReadyFor
      <4>3. f.type = "agent_end" => status' \notin Waiting
        BY <1>0, <3>2 DEF ReadyFor, Resumes, From, Waiting
      <4> QED
        BY <4>1, <4>2, <4>3 DEF ReadyFor
    <3> QED
      BY <2>1, <3>1, <3>2 DEF Beginning
  <2>4. Card(gs, x)'
    BY <1>7, <2>1, <2>3 DEF Card
  <2>5. OneState(gs, d)
    BY <1>7, <2>1
  <2>6. Numbers(gs, None, n)
    <3>1. \A i \in DOMAIN fs : fs[i].question.id \in Nat
      BY FrameQuestions
    <3> QED
      BY <1>7, <1>9, <2>1, <3>1 DEF Numbers
  <2> QED
    BY <1>0, <1>1, <1>3, <1>5, <1>6, <2>1, <2>4, <2>5, <2>6, WorkReads
<1> QED
  BY <1>10, <1>11

\* An interrupted turn ends, and with it the question asked in it; the tracker
\* is told so before it hears of the operator's turn.
LEMMA InterruptReads ==
    ASSUME CardInv, HandoffInv', Reads, Interrupt
    PROVE  Reads'
<1>0. /\ HandoffInv /\ ~lock /\ Live(registered) /\ pending' = None /\ asked' = asked
      /\ UNCHANGED <<registered, watched, debounce>>
  BY DEF Interrupt, Operates, Acquires, ClearPending, timers, CardInv
<1>1. /\ registered \in Children /\ watched = registered /\ run.at # "changing"
      /\ Card(frames, child[registered])
      /\ frames \in Seq(FrameRecord) /\ child \in [Children -> ChildRecord]
      /\ pending \in Question /\ asked \in Nat
  BY <1>0 DEF Live, Reads, CardInv, CardTypes, HandoffInv, SessionTypes, BoundaryIsRuns, Handing
<1>2. PICK c \in Children : c = registered
  BY <1>1
<1>3. PICK fs \in Seq(FrameRecord), p \in Question, n \in Nat :
          fs = frames /\ p = pending /\ n = asked
  BY <1>1
<1>4. PICK x \in ChildRecord : /\ x = child[c] /\ (x.turn = "none" => x.question = None)
                               /\ x.question \in Question /\ x.mail \in Seq(Message)
  BY <1>0, <1>1 DEF HandoffInv, QuestionInTurn, ChildRecord
<1>5. PICK d : d = debounce
  OBVIOUS
<1>6. PICK gs : gs = frames'
  OBVIOUS
<1>7. /\ Chained(fs) /\ Ending(fs, x) /\ OneState(fs, d) /\ Numbers(fs, p, n)
  BY <1>1, <1>2, <1>3, <1>4, <1>5 DEF Reads, Card
<1>8. run'.at = run.at
  BY <1>0, <1>2, Notes DEF Interrupt, HandoffInv
<1>9. None \in Question /\ None.id = 0 /\ p.id \in Nat /\ None.kind = "none" /\ None.id <= None.id
  BY NoChildType DEF None, Question
<1>10. PICK y \in ChildRecord : y = child'[registered] /\ y.turn = "none" /\ y.mail # <<>>
  <2>1. PICK mail : mail = <<"operator">> \o x.mail
    OBVIOUS
  <2>2. mail \in Seq(Message) /\ mail # <<>>
    BY <1>4, <2>1 DEF Message
  <2>3. PICK y : y = [x EXCEPT !.turn = "none", !.question = None, !.mail = mail]
    OBVIOUS
  <2>4. y \in ChildRecord /\ y.turn = "none" /\ y.mail = mail
    BY <1>9, <2>2, <2>3 DEF ChildRecord
  <2>5. child' = [child EXCEPT ![c] = y]
    BY <1>0, <1>1, <1>2, <1>4, <2>1, <2>3 DEF Interrupt
  <2>6. y = child'[registered]
    BY <1>0, <1>1, <1>2, <2>5
  <2> QED
    BY <2>2, <2>4, <2>6
<1>11. /\ x.turn = "none" => gs = fs \o (<<>> \o <<>>)
       /\ x.turn # "none" /\ x.question.kind # "ask" => gs = fs \o (<<>> \o <<Frame("agent_end")>>)
       /\ x.question.kind = "ask" => x.turn # "none" /\
              gs = fs \o (<<[Frame("ask_end") EXCEPT !.question = x.question]>>
                              \o <<Frame("agent_end")>>)
  BY <1>1, <1>2, <1>3, <1>4, <1>6, <1>9 DEF Interrupt, Writes
<1>12. PICK g \in FrameRecord : g = Frame("agent_end") /\ g.type = "agent_end"
  BY FrameType DEF FrameTypes
<1>13. ~Quiet(g)
  BY <1>12 DEF Quiet
<1>14. Chained(gs) /\ Ending(gs, y) /\ OneState(gs, d) /\ Numbers(gs, None, n)
  <2>1. CASE x.turn = "none"
    <3>1. gs = fs
      BY <1>11, <2>1
    <3>2. Ending(gs, y)
      BY <1>7, <1>10, <2>1, <3>1 DEF Ending
    <3>3. Numbers(gs, None, n)
      <4>1. \A i \in DOMAIN fs : fs[i].question.id \in Nat
        BY FrameQuestions
      <4> QED
        BY <1>7, <1>9, <3>1, <4>1 DEF Numbers
    <3> QED
      BY <1>7, <3>1, <3>2, <3>3
  <2>2. CASE x.turn # "none" /\ x.question.kind # "ask"
    <3>1. gs = fs \o <<g>>
      BY <1>11, <1>12, <2>2
    <3>2. Longer(fs, g, gs)
      BY <3>1, AppendLonger
    <3>3. \A i \in DOMAIN fs : Newest(fs, i) => MayFollow(fs[i], g)
      BY <1>7, <1>12, <2>2 DEF Ending, MayFollow
    <3>4. Chained(gs) /\ Ending(gs, y)
      BY <1>7, <1>10, <1>12, <1>13, <3>2, <3>3, Written
    <3>5. OneState(gs, d)
      BY <1>7, <1>12, <3>2, LongerStates
    <3>6. Numbers(gs, None, n)
      BY <1>7, <1>9, <1>12, <3>2, LongerNumbers
    <3> QED
      BY <3>4, <3>5, <3>6
  <2>3. CASE x.question.kind = "ask"
    <3>1. PICK f : f = [Frame("ask_end") EXCEPT !.question = x.question]
      OBVIOUS
    <3>2. f \in FrameRecord /\ f.type = "ask_end" /\ f.question = x.question /\ ~Quiet(f)
      BY <1>4, <3>1, FrameType DEF FrameTypes, Quiet
    <3>3. gs = fs \o <<f, g>>
      BY <1>11, <1>12, <2>3, <3>1, Pair
    <3>4. PICK hs \in Seq(FrameRecord) : Longer(fs, f, hs) /\ Longer(hs, g, gs)
      BY <3>2, <3>3, TwoLonger
    <3>5. x.turn # "none" /\ x.question # None
      BY <1>9, <1>11, <2>3
    <3>6. \A i \in DOMAIN fs : Newest(fs, i) => MayFollow(fs[i], f)
      BY <1>7, <3>2, <3>5 DEF Ending, MayFollow
    <3>7. Chained(hs) /\ \A i : Newest(hs, i) => i = Len(hs)
      BY <1>7, <3>2, <3>4, <3>6, LongerChains
    <3>8. hs[Len(hs)] = f
      BY <3>4 DEF Longer
    <3>9. \A i \in DOMAIN hs : Newest(hs, i) => MayFollow(hs[i], g)
      BY <1>12, <3>2, <3>7, <3>8 DEF MayFollow
    <3>10. Chained(gs) /\ Ending(gs, y)
      BY <1>10, <1>12, <1>13, <3>4, <3>7, <3>9, Written
    <3>11. OneState(gs, d)
      <4>1. OneState(hs, d)
        BY <1>7, <3>2, <3>4, LongerStates
      <4> QED
        BY <1>12, <3>4, <4>1, LongerStates
    <3>12. Numbers(gs, None, n)
      <4>1. Numbers(hs, None, n)
        BY <1>7, <1>9, <2>3, <3>2, <3>4, LongerNumbers
      <4> QED
        BY <1>9, <1>12, <3>4, <4>1, LongerNumbers
    <3> QED
      BY <3>10, <3>11, <3>12
  <2> QED
    BY <2>1, <2>2, <2>3
<1>15. Card(gs, y)'
  BY <1>10, <1>14 DEF Card, Beginning
<1> QED
  BY <1>0, <1>1, <1>3, <1>5, <1>6, <1>8, <1>10, <1>14, <1>15, WorkReads

-----------------------------------------------------------------------------
(* The card                                                                 *)

LEMMA CardInit == Init => CardInv
<1> SUFFICES ASSUME Init PROVE CardInv
  OBVIOUS
<1>1. /\ registered = 0 /\ frames = <<>> /\ pending = None /\ status = "none"
      /\ run = Between /\ asked = 0 /\ debounce = "none"
      /\ \A c \in Children : child[c].at = "none"
  BY NoChildType DEF Init
<1>2. HandoffInv /\ FreshChildren
  BY HandoffInit, FreshInit
<1>3. CardTypes /\ Tracked
  BY <1>1, NoChildType DEF CardTypes, Tracked, Between, Handing
<1>4. OneState(frames, debounce) /\ Numbers(frames, pending, asked) /\ Loud(frames) = {}
  BY <1>1 DEF OneState, Numbers, Loud, None
<1>5. Reads
  BY <1>1, <1>4 DEF Reads, Calm, Live, Waiting, Between
<1> QED
  BY <1>2, <1>3, <1>5 DEF CardInv

LEMMA CardKept == CardInv /\ [Next]_vars => CardInv'
<1> SUFFICES ASSUME CardInv, [Next]_vars PROVE CardInv'
  OBVIOUS
<1>1. HandoffInv' /\ FreshChildren' /\ CardTypes' /\ Tracked'
  BY HandoffKept, FreshKept, CardTypesKept, TrackedKept DEF CardInv
<1>2. ASSUME status' # "failed" PROVE Reads'
  <2>1. CASE UNCHANGED vars
    BY <1>2, <2>1 DEF vars, CardInv, Reads, OneState, Numbers, Live, Card, Chained, Linked, Ending,
                      Beginning, Begins, Newest, Oldest, Adjacent, Loud, Agrees, ReadyFor, Goes,
                      Shows, Repeats, Calm, Busy, timers, counters, durable
  <2>2. CASE Restart
    BY <2>2, RestartReads DEF CardInv
  <2>3. CASE Next /\ ~Restart
    <3>1. status # "failed" /\ Reads /\ Next /\ ~Restart
      BY <1>2, <2>3, BeforeStep
    <3>2. CASE HandleFrame
      BY <1>1, <1>2, <3>1, <3>2, QuietFrames, LoudFrame
    <3>3. CASE Acked \/ DebounceAsks \/ DebounceHears \/ StepHears \/ Stalls
      BY <1>1, <1>2, <3>1, <3>3, QuietFrames
    <3>4. CASE \E c \in Children : ExitSeen(c)
      BY <1>1, <1>2, <3>1, <3>4, QuietExit
    <3>5. CASE Started
      BY <1>1, <3>1, <3>5, StartedReads
    <3>6. CASE Entering /\ ~Started
      BY <1>1, <1>2, <3>1, <3>6, QuietHandoff
    <3>7. CASE Driving \/ FollowUp \/ Stop \/ \E c \in Children : Dies(c)
      BY <1>1, <1>2, <3>1, <3>7, QuietChild
    <3>8. CASE \E c \in Children : \/ Begin(c) \/ Asks(c, "ask") \/ Asks(c, "approval")
                                   \/ Withdraws(c) \/ Ends(c)
      BY <1>1, <3>1, <3>8, AgentReads
    <3>9. CASE \E c \in Children : Retries(c)
      BY <1>1, <3>1, <3>9, RetriesRead
    <3>10. CASE Interrupt
      BY <1>1, <3>1, <3>10, InterruptReads
    <3>11. CASE Answer
      BY <1>1, <3>1, <3>11, AnswerReads
    <3> QED
      BY <3>1, <3>2, <3>3, <3>4, <3>5, <3>6, <3>7, <3>8, <3>9, <3>10, <3>11
         DEF Next, Daemon, Agent, Operator
  <2> QED
    BY <2>1, <2>2, <2>3
<1> QED
  BY <1>1, <1>2 DEF CardInv

LEMMA CardShows == CardInv => StatusAgrees
<1> SUFFICES ASSUME CardInv, frames = <<>>, debounce = "none", Live(registered),
                    status # "failed", child[registered].mail = <<>>
             PROVE  LET c == child[registered] IN
                    /\ pending = c.question
                    /\ pending # None <=> status \in {"waiting-input", "waiting-approval"}
                    /\ c.turn # "none" => status \notin {"idle", "starting"}
  BY DEF StatusAgrees
<1>1. registered \in Children /\ HandoffInv /\ Card(frames, child[registered])
  BY DEF CardInv, Reads, HandoffInv, SessionTypes, Live
<1>2. PICK x : x = child[registered] /\ (x.turn = "none" => x.question = None)
  BY <1>1 DEF HandoffInv, QuestionInTurn
<1>3. Loud(frames) = {} /\ ~Begins(frames)
  BY DEF Loud, Begins
<1>4. Agrees(x)
  BY <1>1, <1>2, <1>3 DEF Card, Beginning
<1>5. WaitingFor(x.question) \in {"waiting-input", "waiting-approval"}
  BY DEF WaitingFor
<1> QED
  BY <1>2, <1>4, <1>5 DEF Agrees, Goes, Shows, Waiting

\* The card tells the truth: whatever order the child's frames, the quiet
\* period's timer, the operator's answers and the handoffs come in, once all
\* the child wrote has been handled the tracker shows a question exactly while
\* the child waits for its answer, and a running turn never reads idle
\* (rpc.py's dispatch, sessions.py's tracker).  Replies fit the pipe.
THEOREM CardTellsTheTruth == Spec => []StatusAgrees
<1>1. Init => CardInv
  BY CardInit
<1>2. CardInv /\ [Next]_vars => CardInv'
  BY CardKept
<1>3. CardInv => StatusAgrees
  BY CardShows
<1> QED
  BY <1>1, <1>2, <1>3, PTL DEF Spec
=============================================================================
