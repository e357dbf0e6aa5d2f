------------------------ MODULE DeliveryJournalProofs ------------------------
(***************************************************************************)
(* What is proved of DeliveryJournal for every chain, any number of        *)
(* attempts and restarts: where calls are certain, an attempt recorded as  *)
(* failed did not happen and will not, and the journal implements          *)
(* Publication; and, calls certain or not, an attempt whose outcome is     *)
(* unknown blocks the workspace, up to the first restart.  The last two    *)
(* are about one reconcile request at a time.                              *)
(*                                                                         *)
(* The argument: what a failed attempt may rely on is spread over the      *)
(* coroutine (Performing), the outstanding call (Calling), the requests in *)
(* flight (Asking) and startup (Restoring); together with what is on       *)
(* record of landed and of succeeded attempts they are inductive.  That    *)
(* an open attempt blocks (Guarded) is kept by knowing who is at work on   *)
(* it: the coroutine, the request or startup (Watched).                    *)
(***************************************************************************)
EXTENDS DeliveryJournal, TLAPS

Phases    == {"prepared", "succeeded", "failed"} \cup Open
Rows      == [kind : {"commit", "push", "pr"}, step : Nat, phase : Phases]
Runs      == [pos : Nat, seq : Nat, status : {"running", "paused", "complete"}]
Questions ==
    [decision : {"none", "recheck", "adopt", "retry", "abandon"}, action : Nat,
     seen : {"none", "unknown", "completed", "not-executed"}]

TypeOK ==
    /\ actions \in Seq(Rows)
    /\ landed \subseteq DOMAIN actions /\ calls \subseteq DOMAIN actions
    /\ todo \subseteq DOMAIN actions
    /\ run \in Runs
    /\ cur \in Nat /\ asked \in [Requests -> Questions]
    /\ recover \in BOOLEAN
    /\ may \in Conditions

\* Every attempt is at an effect the operator authorized.
Authorized == \A i \in DOMAIN actions : \E n \in DOMAIN Chain : Chain[n] = Kind(i)

\* A paused run, a run to be recovered and a starting daemon have no coroutine.
Driven ==
    /\ run.status = "paused" => at = "none"
    /\ recover => at = "none" /\ run.status = "running"
    /\ phase = "restoring" => at = "none"

\* What the coroutine may rely on, wherever it is suspended.
Performing ==
    /\ at \in {"checking", "prepared"} => run.pos \in DOMAIN Chain
    /\ at \in {"prepared", "calling", "verifying", "classifying", "landing"} =>
           cur \in DOMAIN actions
    /\ at = "prepared" => actions[cur].phase = "prepared"
    /\ at \in {"calling", "verifying", "classifying"} => actions[cur].phase = "executing"
    /\ at = "landing" => actions[cur].phase \in {"prepared", "executing"}
    /\ at = "prepared" => Kind(cur) = Chain[run.pos]
    /\ at \in {"verifying", "landing"} => Happened(cur)

\* A call is outstanding only while the coroutine waits for it.
Calling ==
    /\ calls \cap landed = {}
    /\ \A i \in calls : at = "calling" /\ i = cur

\* What happened is on record as open or as succeeded, and what succeeded
\* happened.
Landing == \A i \in landed : actions[i].phase \in Open \cup {"succeeded"}
Proven  == \A i \in DOMAIN actions : actions[i].phase = "succeeded" => Happened(i)

\* What a request saw stays true until it is decided: its attempt is not the one
\* being performed.
Asking ==
    \A r \in Requests : asked[r] # Idle =>
        /\ phase = "serving"
        /\ asked[r].action \in DOMAIN actions /\ asked[r].action # cur
        /\ actions[asked[r].action].phase # "prepared"
        /\ asked[r].decision \in may.decisions
        /\ asked[r].seen = "completed" => Happened(asked[r].action)
        /\ asked[r].seen = "not-executed" => asked[r].action \notin landed

\* Startup has only open attempts to classify.
Restoring == phase = "restoring" => \A i \in todo : actions[i].phase \in Open

Inductive ==
    /\ TypeOK /\ Authorized /\ Driven /\ Performing /\ Calling
    /\ Landing /\ Proven /\ Asking /\ Restoring

Inv == Certain => Inductive

-----------------------------------------------------------------------------
\* One request at a time, and what the refinement needs besides: it is about an
\* open attempt still, and the coroutine prepares an effect only when those
\* before it succeeded.
Lone == \A r, s \in Requests : r = s

Pending ==
    \A r \in Requests : asked[r] # Idle => actions[asked[r].action].phase \in Open

Ordered ==
    at \in {"checking", "prepared"} =>
        \A n \in DOMAIN Chain : n < run.pos => Succeeded(Chain[n])

OneAtATime == Certain => Pending /\ Ordered
-----------------------------------------------------------------------------
(* The operators the proofs keep needing.                                   *)

\* Recording a phase changes nothing else of the journal.
LEMMA Rephase ==
    ASSUME TypeOK, NEW i \in DOMAIN actions, NEW p \in Phases,
           actions' = WithPhase(i, p)
    PROVE  /\ actions' \in Seq(Rows)
           /\ DOMAIN actions' = DOMAIN actions
           /\ \A j \in DOMAIN actions :
                  /\ actions'[j].kind = actions[j].kind
                  /\ actions'[j].phase = IF j = i THEN p ELSE actions[j].phase
<1>1. actions \in Seq(Rows) /\ DOMAIN actions = 1 .. Len(actions)
  BY DEF TypeOK
<1>2. \A j \in DOMAIN actions : actions[j] \in Rows
  BY <1>1
<1>3. [actions[i] EXCEPT !.phase = p] \in Rows
  BY <1>2 DEF Rows
<1> QED
  BY <1>1, <1>2, <1>3 DEF WithPhase, Rows

\* What happened stays so, as long as attempts keep their kinds.
LEMMA HappenedStays ==
    ASSUME NEW i \in DOMAIN actions, Happened(i), landed \subseteq DOMAIN actions,
           DOMAIN actions \subseteq DOMAIN actions', landed \subseteq landed',
           \A j \in DOMAIN actions : actions'[j].kind = actions[j].kind
    PROVE  Happened(i)'
BY DEF Happened, Signed, Published, Kind

\* The coroutine, an operator or startup moves without touching the journal,
\* the world or a request: only where the coroutine is has to be looked at.
LEMMA Quiet ==
    ASSUME Inductive,
           UNCHANGED <<actions, landed, calls, asked, todo, may>>,
           TypeOK', Driven', Performing',
           phase' = phase \/ phase' = "serving",
           calls # {} => at' = at /\ cur' = cur,
           cur' = cur \/ cur' = 0 \/ cur' \in {i \in DOMAIN actions : actions[i].phase = "prepared"}
    PROVE  Inductive'
<1>1. \A i : Happened(i)' <=> Happened(i)
  BY DEF Happened, Signed, Published, Kind
<1>2. Authorized' /\ Landing' /\ Proven' /\ Restoring'
  BY <1>1 DEF Inductive, Authorized, Kind, Landing, Proven, Restoring, Asking
<1>3. Calling'
  BY DEF Inductive, Calling
<1>4. Asking'
  <2> SUFFICES ASSUME NEW r \in Requests, asked[r] # Idle
               PROVE  /\ phase' = "serving"
                      /\ asked[r].action \in DOMAIN actions /\ asked[r].action # cur'
                      /\ actions[asked[r].action].phase # "prepared"
                      /\ asked[r].decision \in may.decisions
                      /\ asked[r].seen = "completed" => Happened(asked[r].action)
                      /\ asked[r].seen = "not-executed" => asked[r].action \notin landed
    BY <1>1 DEF Asking
  <2> QED
    BY DEF Inductive, Asking, TypeOK
<1> QED
  BY <1>2, <1>3, <1>4 DEF Inductive

\* An attempt is recorded: executing, unresolved, failed when it did not happen,
\* succeeded when it did.
LEMMA Recorded ==
    ASSUME Inductive, NEW i \in DOMAIN actions, NEW p \in Phases \ {"prepared"},
           actions' = WithPhase(i, p), UNCHANGED <<landed, cur, may>>,
           p = "failed" => i \notin landed,
           p = "succeeded" => Happened(i),
           \A r \in Requests : asked'[r] \in {asked[r], Idle},
           phase' = phase, phase = "restoring" => todo' \subseteq todo \ {i},
           TypeOK', Driven', Performing', Calling'
    PROVE  Inductive'
<1> DEFINE After(j) == IF j = i THEN p ELSE actions[j].phase
<1>1. /\ DOMAIN actions' = DOMAIN actions
      /\ \A j \in DOMAIN actions : actions'[j].kind = actions[j].kind
      /\ \A j \in DOMAIN actions : actions'[j].phase = After(j)
  BY Rephase DEF Inductive
<1>2. \A j \in DOMAIN actions : Happened(j) => Happened(j)'
  BY <1>1, HappenedStays DEF Inductive, TypeOK
<1> HIDE DEF After
<1>3. Authorized'
  BY <1>1 DEF Inductive, Authorized, Kind
<1>4. Landing'
  BY <1>1 DEF Inductive, Landing, TypeOK, Phases, After
<1>5. Proven'
  BY <1>1, <1>2 DEF Inductive, Proven, After
<1>6. Asking'
  <2> SUFFICES ASSUME NEW r \in Requests, asked'[r] # Idle
               PROVE  (/\ phase = "serving"
                       /\ asked[r].action \in DOMAIN actions /\ asked[r].action # cur
                       /\ actions[asked[r].action].phase # "prepared"
                       /\ asked[r].decision \in may.decisions
                       /\ asked[r].seen = "completed" => Happened(asked[r].action)
                       /\ asked[r].seen = "not-executed" => asked[r].action \notin landed)'
    BY DEF Asking
  <2>1. asked'[r] = asked[r] /\ asked[r] # Idle
    OBVIOUS
  <2>2. /\ phase = "serving"
        /\ asked[r].action \in DOMAIN actions /\ asked[r].action # cur
        /\ actions[asked[r].action].phase # "prepared"
        /\ asked[r].decision \in may.decisions
        /\ asked[r].seen = "completed" => Happened(asked[r].action)
        /\ asked[r].seen = "not-executed" => asked[r].action \notin landed
    BY <2>1 DEF Inductive, Asking
  <2>3. (asked[r].seen = "completed" => Happened(asked[r].action))'
    BY <1>2, <2>1, <2>2 DEF Happened, Signed, Published, Kind
  <2> QED
    BY <1>1, <2>1, <2>2, <2>3 DEF After
<1>7. Restoring'
  BY <1>1 DEF Inductive, Restoring, TypeOK, After
<1> QED
  BY <1>3, <1>4, <1>5, <1>6, <1>7 DEF Inductive

\* Under Certain there is nothing the conditions leave open about a call.
LEMMA CertainFacts ==
    ASSUME Certain
    PROVE  /\ "late" \notin may.happens /\ "overlap" \notin may.happens
           /\ "abandon" \notin may.decisions
BY DEF Certain

\* What becomes of the run: it moves on, pauses or starts again.
LEMMA RunSteps ==
    ASSUME run \in Runs
    PROVE  /\ RunMovesOn => run' \in Runs /\ run'.status # "paused"
           /\ [run EXCEPT !.status = "paused"] \in Runs
           /\ \A n \in {run.seq, run.seq + 1} :
                  LET q == [run EXCEPT !.seq = n, !.status = "running"]
                  IN  q \in Runs /\ q.status = "running"
<1>1. RunMovesOn => run' \in Runs /\ run'.status # "paused"
  BY DEF Runs, RunMovesOn
<1>2. [run EXCEPT !.status = "paused"] \in Runs
  BY DEF Runs
<1>3. ASSUME NEW n \in {run.seq, run.seq + 1}
      PROVE  LET q == [run EXCEPT !.seq = n, !.status = "running"]
             IN  q \in Runs /\ q.status = "running"
  <2>1. n \in Nat
    BY DEF Runs
  <2> QED
    BY <2>1 DEF Runs
<1> QED
  BY <1>1, <1>2, <1>3

-----------------------------------------------------------------------------
(* The invariant is inductive.                                              *)

LEMMA InitInv == Init => Inv
<1> SUFFICES ASSUME Init PROVE Inductive
  BY DEF Inv
<1>1. TypeOK
  <2>1. actions \in Seq(Rows) /\ DOMAIN actions = {}
    BY DEF Init
  <2>2. Idle \in Questions
    BY DEF Questions, Idle
  <2> QED
    BY <2>1, <2>2 DEF Init, TypeOK, Runs
<1> QED
  BY <1>1 DEF Init, Inductive, Authorized, Driven, Performing, Calling,
              Landing, Proven, Asking, Restoring

\* The coroutine's steps that leave the journal's rows alone.
CoroutineReads ==
    \/ StepRefused \/ StepAdmitted
    \/ CommitCheckFails \/ PushCheckFails \/ PrCheckFails
    \/ PrepareReuses \/ PrepareConflicts \/ AdoptAtHead
    \/ SignatureVerified \/ PushAnswered \/ PrCreated
    \/ PushVerified \/ PushUnreadable \/ Uninstalled \/ Close \/ Leave

LEMMA CoroutineReadsInv ==
    ASSUME Certain, Inductive, CoroutineReads
    PROVE  Inductive'
<1> USE DEF Moves, world, startup, journal
<1>1. /\ TypeOK /\ Driven /\ Performing /\ Calling
  BY DEF Inductive
<1>2. /\ at # "none"
      /\ UNCHANGED <<actions, landed, calls, asked, todo, may, phase, recover>>
  BY DEF CoroutineReads, StepRefused, StepAdmitted, CheckStops, CommitCheckFails,
         PushCheckFails, PrCheckFails, PrepareReuses, PrepareConflicts, AdoptAtHead,
         SignatureVerified, PushAnswered, PrCreated, Answered, PushVerified,
         PushUnreadable, Uninstalled, Close, Leave
<1>3. CASE Leave
  <2>1. /\ at = "leaving" /\ at' \in {"entering", "none"} /\ cur' = 0
        /\ run' = run \/ (run' = [run EXCEPT !.status = "paused"] /\ at' = "none")
    BY <1>3, <1>1 DEF Leave, TypeOK, Driven
  <2>2. TypeOK'
    BY <1>1, <1>2, <2>1, RunSteps DEF TypeOK
  <2>3. Driven' /\ Performing'
    BY <1>1, <1>2, <2>1 DEF Driven, Performing, TypeOK, Runs
  <2>4. calls = {}
    BY <1>1, <2>1 DEF Calling
  <2> QED
    BY <1>2, <2>1, <2>2, <2>3, <2>4, Quiet
<1>4. CASE PrepareReuses
  <2>1. /\ at = "checking" /\ at' = "prepared" /\ run' = run
        /\ cur' \in DOMAIN actions /\ actions[cur'].phase = "prepared"
        /\ Kind(cur') = Chain[run.pos]
    BY <1>4 DEF PrepareReuses, Prepared, OfStep
  <2>2. TypeOK'
    BY <1>1, <1>2, <2>1 DEF TypeOK
  <2>3. Driven' /\ Performing'
    BY <1>1, <1>2, <2>1 DEF Driven, Performing, Kind
  <2>4. calls = {}
    BY <1>1, <2>1 DEF Calling
  <2> QED
    BY <1>2, <2>1, <2>2, <2>3, <2>4, Quiet
<1>5. CASE ~Leave /\ ~PrepareReuses
  <2>1. UNCHANGED <<run, cur>>
    BY <1>5
    DEF CoroutineReads, StepRefused, StepAdmitted, CheckStops, CommitCheckFails,
        PushCheckFails, PrCheckFails, PrepareConflicts, AdoptAtHead,
        SignatureVerified, PushAnswered, PrCreated, Answered, PushVerified,
        PushUnreadable, Uninstalled, Close
  <2>2. /\ at' # "none" /\ (calls # {} => at' = at)
        /\ \/ at' \in {"leaving", "closing"}
           \/ at' = "checking" /\ run.pos \in DOMAIN Chain
           \/ /\ at' \in {"verifying", "landing"} /\ Happened(cur)
              /\ at \in {"prepared", "calling", "verifying"}
              /\ at' = "verifying" => at = "calling"
    BY <1>1, <1>5
    DEF CoroutineReads, StepRefused, StepAdmitted, CheckStops, CommitCheckFails,
        PushCheckFails, PrCheckFails, PrepareConflicts, AdoptAtHead,
        SignatureVerified, PushAnswered, PrCreated, Answered, PushVerified,
        PushUnreadable, Uninstalled, Close, Remaining, Performing, Calling
  <2>3. Driven' /\ TypeOK'
    BY <1>1, <1>2, <2>1, <2>2 DEF Driven, TypeOK
  <2>4. Happened(cur) <=> Happened(cur)'
    BY <1>2, <2>1 DEF Happened, Signed, Published, Kind
  <2>5. Performing'
    BY <1>1, <1>2, <2>1, <2>2, <2>4 DEF Performing
  <2> QED
    BY <1>2, <2>1, <2>2, <2>3, <2>5, Quiet
<1> QED
  BY <1>3, <1>4, <1>5

LEMMA PrepareAppendsInv ==
    ASSUME Inductive, PrepareAppends
    PROVE  Inductive'
<1> USE DEF Moves, world, startup
<1> DEFINE k == Len(actions) + 1
           row == [kind |-> Chain[run.pos], step |-> run.seq, phase |-> "prepared"]
<1>1. TypeOK /\ run.pos \in DOMAIN Chain /\ calls = {} /\ at = "checking"
  BY DEF Inductive, PrepareAppends, Performing, Calling
<1>2. /\ actions' = Append(actions, row) /\ cur' = k /\ at' = "prepared"
      /\ UNCHANGED <<landed, calls, run, asked, phase, todo, recover, may>>
  BY DEF PrepareAppends
<1>3. row \in Rows
  BY <1>1, ConstantsAssumption DEF Rows, TypeOK, Runs, Phases
<1>4. /\ actions' \in Seq(Rows) /\ DOMAIN actions' = DOMAIN actions \cup {k}
      /\ k \notin DOMAIN actions /\ k \in Nat /\ actions'[k] = row
      /\ \A j \in DOMAIN actions : actions'[j] = actions[j]
  BY <1>1, <1>2, <1>3 DEF TypeOK
<1> HIDE DEF k
<1>5. TypeOK'
  BY <1>1, <1>2, <1>4 DEF TypeOK
<1>6. \A j \in DOMAIN actions : Happened(j) => Happened(j)'
  BY <1>1, <1>2, <1>4, HappenedStays DEF TypeOK
<1>7. Authorized'
  BY <1>1, <1>4 DEF Inductive, Authorized, Kind
<1>8. Driven' /\ Performing' /\ Calling'
  BY <1>1, <1>2, <1>4 DEF Inductive, Driven, Performing, Calling, Kind
<1>9. Landing' /\ Proven' /\ Restoring'
  BY <1>1, <1>2, <1>4, <1>6 DEF Inductive, Landing, Proven, Restoring, TypeOK
<1>10. Asking'
  <2> SUFFICES ASSUME NEW r \in Requests, asked[r] # Idle
               PROVE  (/\ phase = "serving"
                       /\ asked[r].action \in DOMAIN actions /\ asked[r].action # cur
                       /\ actions[asked[r].action].phase # "prepared"
                       /\ asked[r].decision \in may.decisions
                       /\ asked[r].seen = "completed" => Happened(asked[r].action)
                       /\ asked[r].seen = "not-executed" => asked[r].action \notin landed)'
    BY <1>2 DEF Asking
  <2>1. asked[r].action \in DOMAIN actions
    BY DEF Inductive, Asking
  <2>2. (asked[r].seen = "completed" => Happened(asked[r].action))'
    BY <1>2, <1>6, <2>1 DEF Inductive, Asking, Happened, Signed, Published, Kind
  <2> QED
    BY <1>2, <1>4, <2>1, <2>2 DEF Inductive, Asking
<1> QED
  BY <1>5, <1>7, <1>8, <1>9, <1>10 DEF Inductive

\* An effect takes place only while the coroutine waits for it, and then its
\* attempt is on record as executing.
LEMMA EffectLandsInv ==
    ASSUME Inductive, NEW i \in calls, EffectLands(i)
    PROVE  Inductive'
<1> USE DEF journal, process, startup
<1>1. /\ TypeOK /\ at = "calling" /\ i = cur /\ cur \in DOMAIN actions
      /\ actions[cur].phase = "executing"
  BY DEF Inductive, Calling, Performing
<1>2. /\ calls' = calls \ {i} /\ landed' \in {landed, landed \cup {i}}
      /\ UNCHANGED <<actions, run, at, cur, asked, phase, todo, recover, may>>
  BY DEF EffectLands
<1>3. TypeOK'
  BY <1>1, <1>2 DEF TypeOK
<1>4. \A j \in DOMAIN actions : Happened(j) => Happened(j)'
  BY <1>1, <1>2, HappenedStays DEF TypeOK
<1>5. Authorized' /\ Driven' /\ Performing' /\ Calling'
  BY <1>1, <1>2 DEF Inductive, Authorized, Driven, Performing, Calling, Kind
<1>6. Landing' /\ Proven' /\ Restoring'
  BY <1>1, <1>2, <1>4 DEF Inductive, Landing, Proven, Restoring, Open, TypeOK
<1>7. Asking'
  <2> SUFFICES ASSUME NEW r \in Requests, asked[r] # Idle
               PROVE  (/\ phase = "serving"
                       /\ asked[r].action \in DOMAIN actions /\ asked[r].action # cur
                       /\ actions[asked[r].action].phase # "prepared"
                       /\ asked[r].decision \in may.decisions
                       /\ asked[r].seen = "completed" => Happened(asked[r].action)
                       /\ asked[r].seen = "not-executed" => asked[r].action \notin landed)'
    BY <1>2 DEF Asking
  <2>1. asked[r].action \in DOMAIN actions /\ asked[r].action # cur
    BY DEF Inductive, Asking
  <2>2. (asked[r].seen = "completed" => Happened(asked[r].action))'
    BY <1>2, <1>4, <2>1 DEF Inductive, Asking, Happened, Signed, Published, Kind
  <2> QED
    BY <1>1, <1>2, <2>1, <2>2 DEF Inductive, Asking
<1> QED
  BY <1>3, <1>5, <1>6, <1>7 DEF Inductive

LEMMA RecordedTypes ==
    ASSUME TypeOK, NEW i \in DOMAIN actions, NEW p \in Phases,
           actions' = WithPhase(i, p), UNCHANGED <<landed, cur, recover, may>>,
           calls' \subseteq calls \cup {i}, todo' \subseteq todo,
           run' \in Runs,
           asked' \in [Requests -> Questions]
    PROVE  TypeOK'
<1>1. actions' \in Seq(Rows) /\ DOMAIN actions' = DOMAIN actions
  BY Rephase
<1> QED
  BY <1>1 DEF TypeOK

\* The coroutine records what became of its own attempt, and moves on.
LEMMA CoroutineRecords ==
    ASSUME Inductive,
           at \in {"prepared", "calling", "verifying", "classifying", "landing"},
           NEW p \in {"succeeded", "failed", "needs_reconciliation"},
           actions' = WithPhase(cur, p), at' \in {"leaving", "closing"},
           UNCHANGED <<landed, cur, asked, phase, todo, recover, may>>,
           calls' = {}, run' = run \/ RunMovesOn,
           p = "failed" => cur \notin landed,
           p = "succeeded" => Happened(cur)
    PROVE  Inductive'
<1>1. /\ TypeOK /\ cur \in DOMAIN actions /\ at # "none" /\ phase # "restoring"
      /\ p \in Phases \ {"prepared"}
  BY DEF Inductive, Performing, Driven, Phases, Open
<1>2. TypeOK'
  <2>1. run' \in Runs
    BY <1>1, RunSteps DEF TypeOK
  <2> QED
    BY <1>1, <2>1, RecordedTypes DEF TypeOK
<1>3. Driven' /\ Performing' /\ Calling'
  BY <1>1, RunSteps DEF Inductive, Driven, Performing, Calling, TypeOK
<1> QED
  BY <1>1, <1>2, <1>3, Recorded

CoroutineWrites ==
    \/ MarkExecuting \/ AnswerError \/ PushConflict \/ PushMismatch
    \/ Land \/ ClassifyFailed \/ ClassifyUnknown \/ ClassifyCompleted

\* What each conclusion of the coroutine is drawn from.
LEMMA CoroutineWritesInv ==
    ASSUME Certain, Inductive, CoroutineWrites
    PROVE  Inductive'
<1> USE DEF Moves, world, startup, journal
<1>1. /\ TypeOK /\ Performing /\ Calling
  BY DEF Inductive
<1>2. CASE MarkExecuting
  <2>1. /\ at = "prepared" /\ at' = "calling" /\ cur \in DOMAIN actions
        /\ actions' = WithPhase(cur, "executing") /\ "executing" \in Phases \ {"prepared"}
        /\ actions[cur].phase = "prepared" /\ calls = {} /\ calls' = {cur}
        /\ phase # "restoring"
        /\ UNCHANGED <<landed, run, cur, asked, phase, todo, recover, may>>
    BY <1>1, <1>2 DEF MarkExecuting, Inductive, Driven, Performing, Calling, Phases, Open
  <2>2. TypeOK'
    BY <1>1, <2>1, RecordedTypes DEF TypeOK
  <2>3. cur \notin landed
    BY <2>1 DEF Inductive, Landing, Open
  <2>4. actions'[cur].phase = "executing" /\ DOMAIN actions' = DOMAIN actions
    BY <1>1, <2>1, Rephase
  <2>5. Driven' /\ Performing' /\ Calling'
    BY <1>1, <2>1, <2>3, <2>4 DEF Inductive, Driven, Performing, Calling
  <2> QED
    BY <2>1, <2>2, <2>5, Recorded
<1>3. CASE AnswerError
  <2>1. /\ at = "calling" /\ at' = "classifying" /\ calls' = {}
        /\ UNCHANGED <<actions, landed, run, cur, asked, phase, todo, recover, may>>
    BY <1>1, <1>3, CertainFacts DEF AnswerError, GivesUp, Calling
  <2>2. \A j : Happened(j)' <=> Happened(j)
    BY <2>1 DEF Happened, Signed, Published, Kind
  <2>3. TypeOK' /\ Driven' /\ Performing' /\ Calling'
    BY <1>1, <2>1 DEF Inductive, TypeOK, Driven, Performing, Calling
  <2>4. Authorized' /\ Landing' /\ Proven' /\ Restoring'
    BY <2>1, <2>2 DEF Inductive, Authorized, Kind, Landing, Proven, Restoring
  <2>5. Asking'
    BY <2>1 DEF Inductive, Asking, Happened, Signed, Published, Kind
  <2> QED
    BY <2>3, <2>4, <2>5 DEF Inductive
<1>4. CASE PushConflict
  BY <1>1, <1>4, CoroutineRecords DEF PushConflict, Fail, Calling
<1>5. CASE PushMismatch
  BY <1>1, <1>5, CoroutineRecords DEF PushMismatch, Flag, Calling
<1>6. CASE Land
  BY <1>1, <1>6, CoroutineRecords DEF Land, Performing, Calling
<1>7. CASE ClassifyFailed
  <2>1. cur \notin landed
    BY <1>1, <1>7 DEF ClassifyFailed, Outcomes, Observations, Happened, Signed,
                      Published, Performing
  <2> QED
    BY <1>1, <1>7, <2>1, CoroutineRecords DEF ClassifyFailed, Fail, Calling
<1>8. CASE ClassifyUnknown
  BY <1>1, <1>8, CoroutineRecords DEF ClassifyUnknown, Flag, Calling
<1>9. CASE ClassifyCompleted
  <2>1. Happened(cur)
    BY <1>9 DEF ClassifyCompleted, Outcomes, Observations
  <2> QED
    BY <1>1, <1>9, <2>1, CoroutineRecords DEF ClassifyCompleted, Calling
<1> QED
  BY <1>2, <1>3, <1>4, <1>5, <1>6, <1>7, <1>8, <1>9 DEF CoroutineWrites

\* Confirmations and the run's retry start the coroutine at most.
LEMMA StartsInv ==
    ASSUME Inductive, Confirm \/ Retry
    PROVE  Inductive'
<1> USE DEF world, startup, journal, process
<1>1. /\ phase = "serving"
      /\ UNCHANGED <<actions, landed, calls, asked, phase, todo, recover, may, cur>>
      /\ \/ UNCHANGED <<run, at>>
         \/ /\ run.status = "paused" /\ at' = "entering"
            /\ \E n \in {run.seq, run.seq + 1} : run' = [run EXCEPT !.seq = n, !.status = "running"]
  BY DEF Confirm, Reauthorize, Resume, Previewed, Authorizes, ContinuesIfPaused, Starts, Retry
<1>2. TypeOK'
  <2>1. run' \in Runs
    BY <1>1, RunSteps DEF Inductive, TypeOK
  <2> QED
    BY <1>1, <2>1 DEF Inductive, TypeOK
<1>3. CASE UNCHANGED <<run, at>>
  <2>1. Driven' /\ Performing'
    BY <1>1, <1>3 DEF Inductive, Driven, Performing, Happened, Signed, Published, Kind
  <2> QED
    BY <1>1, <1>2, <1>3, <2>1, Quiet
<1>4. CASE /\ run.status = "paused" /\ at' = "entering"
           /\ \E n \in {run.seq, run.seq + 1} : run' = [run EXCEPT !.seq = n, !.status = "running"]
  <2>1. at = "none" /\ ~recover /\ calls = {}
    BY <1>4 DEF Inductive, Driven, Calling, TypeOK
  <2>2. run'.status = "running"
    BY <1>4, RunSteps DEF Inductive, TypeOK
  <2>3. Driven' /\ Performing'
    BY <1>1, <1>4, <2>1, <2>2 DEF Driven, Performing
  <2> QED
    BY <1>1, <1>2, <2>1, <2>3, Quiet
<1> QED
  BY <1>1, <1>3, <1>4

\* A request is made, observes, or is left as it was: only its own record moves.
LEMMA RequestInv ==
    ASSUME Certain, Inductive, NEW r \in Requests,
           \/ \E d \in may.decisions, i \in DOMAIN actions : Ask(r, d, i)
           \/ Observe(r) \/ Leaves(r)
    PROVE  Inductive'
<1> USE DEF world, startup, journal, process
<1>1. TypeOK /\ may.decisions \subseteq {"recheck", "adopt", "retry", "abandon"}
  BY ConstantsAssumption DEF Inductive, TypeOK
<1>2. UNCHANGED <<actions, landed, calls, run, at, cur, phase, todo, recover, may>>
  BY DEF Ask, Observe, Leaves, Decided
<1>3. \A j : Happened(j)' <=> Happened(j)
  BY <1>2 DEF Happened, Signed, Published, Kind
<1>4. /\ Authorized' /\ Driven' /\ Performing' /\ Calling'
      /\ Landing' /\ Proven' /\ Restoring'
  BY <1>2, <1>3 DEF Inductive, Authorized, Driven, Performing, Calling, Kind,
                    Landing, Proven, Restoring
<1> DEFINE Sound(q) ==
      /\ phase = "serving" /\ q.action \in DOMAIN actions /\ q.action # cur
      /\ actions[q.action].phase # "prepared" /\ q.decision \in may.decisions
      /\ q.seen = "completed" => Happened(q.action)
      /\ q.seen = "not-executed" => q.action \notin landed
<1>5. ASSUME NEW q \in Questions, asked' = [asked EXCEPT ![r] = q], q = Idle \/ Sound(q)
      PROVE  TypeOK' /\ Asking'
  <2>1. TypeOK'
    BY <1>1, <1>2, <1>5 DEF TypeOK
  <2>2. \A s \in Requests : asked'[s] = IF s = r THEN q ELSE asked[s]
    BY <1>1, <1>5 DEF TypeOK
  <2>3. \A s \in Requests : asked[s] # Idle => Sound(asked[s])
    BY DEF Inductive, Asking
  <2> QED
    BY <1>2, <1>5, <2>1, <2>2, <2>3 DEF Asking, Happened, Signed, Published, Kind
<1>6. Idle \in Questions
  BY DEF Idle, Questions
<1>7. CASE Leaves(r)
  BY <1>4, <1>5, <1>6, <1>7 DEF Leaves, Decided, Inductive
<1>8. CASE \E d \in may.decisions, i \in DOMAIN actions : Ask(r, d, i)
  <2>1. PICK d \in may.decisions, i \in DOMAIN actions : Ask(r, d, i)
    BY <1>8
  <2> DEFINE q == [decision |-> d, action |-> i, seen |-> "none"]
  <2>2. q \in Questions
    BY <1>1 DEF Questions, TypeOK
  <2>3. Sound(q)
    BY <2>1, CertainFacts DEF Ask, Open
  <2>4. asked' = [asked EXCEPT ![r] = q]
    BY <2>1 DEF Ask
  <2> HIDE DEF q, Sound
  <2> QED
    BY <1>4, <1>5, <2>2, <2>3, <2>4 DEF Inductive
<1>9. CASE Observe(r)
  <2>1. PICK o \in Observations(asked[r].action) : asked' = [asked EXCEPT ![r].seen = o]
    BY <1>9 DEF Observe
  <2> DEFINE q == [asked[r] EXCEPT !.seen = o]
  <2>2. asked[r] # Idle /\ asked[r] \in Questions
    BY <1>1, <1>9 DEF Observe, TypeOK
  <2>3. o \in {"unknown", "completed", "not-executed"}
    BY <2>1 DEF Observations
  <2>4. q \in Questions /\ q.action = asked[r].action /\ q.decision = asked[r].decision /\ q.seen = o
    BY <2>2, <2>3 DEF Questions
  <2>5. o = "completed" => Happened(asked[r].action)
    BY <2>1 DEF Observations
  <2>6. o = "not-executed" => asked[r].action \notin landed
    BY <2>1 DEF Observations, Happened, Signed, Published
  <2>7. Sound(q)
    BY <2>2, <2>4, <2>5, <2>6 DEF Inductive, Asking
  <2>8. asked' = [asked EXCEPT ![r] = q]
    BY <1>1, <2>1 DEF TypeOK
  <2> HIDE DEF q, Sound
  <2> QED
    BY <1>4, <1>5, <2>4, <2>7, <2>8 DEF Inductive
<1> QED
  BY <1>7, <1>8, <1>9

\* A request that concludes acts on what it saw, which still holds.
LEMMA DecisionInv ==
    ASSUME Certain, Inductive, NEW r \in Requests,
           Adopts(r) \/ AllowsRetry(r) \/ Abandons(r) \/ AbandonsUnknown(r)
    PROVE  Inductive'
<1> USE DEF world, startup, journal, process
<1> DEFINE i == asked[r].action
<1>1. /\ asked[r] # Idle /\ phase = "serving"
      /\ asked' = [asked EXCEPT ![r] = Idle]
      /\ UNCHANGED <<landed, calls, run, at, cur, phase, todo, recover, may>>
  BY DEF Adopts, AllowsRetry, Abandons, AbandonsUnknown, Decided, Idle, Inductive, Asking
<1>2. /\ i \in DOMAIN actions /\ i # cur /\ asked[r].decision # "abandon"
      /\ asked[r].seen = "completed" => Happened(i)
      /\ asked[r].seen = "not-executed" => i \notin landed
  BY <1>1, CertainFacts DEF Inductive, Asking
<1>3. \E p \in {"succeeded", "failed"} :
         /\ actions' = WithPhase(i, p)
         /\ p = "failed" => i \notin landed
         /\ p = "succeeded" => Happened(i)
  BY <1>2 DEF Adopts, AllowsRetry, Abandons, AbandonsUnknown, Decided, Fail
<1>4. PICK p \in {"succeeded", "failed"} :
         /\ actions' = WithPhase(i, p)
         /\ p = "failed" => i \notin landed
         /\ p = "succeeded" => Happened(i)
  BY <1>3
<1> HIDE DEF i
<1>5. p \in Phases \ {"prepared"} /\ TypeOK
  BY DEF Phases, Inductive
<1>6. asked' \in [Requests -> Questions] /\ \A s \in Requests : asked'[s] \in {asked[s], Idle}
  BY <1>1, <1>5 DEF TypeOK, Questions, Idle
<1>7. TypeOK'
  <2>1. run' \in Runs
    BY <1>1, <1>5 DEF TypeOK
  <2> QED
    BY <1>1, <1>2, <1>4, <1>5, <1>6, <2>1, RecordedTypes
<1>8. /\ DOMAIN actions' = DOMAIN actions
      /\ \A j \in DOMAIN actions : j # i =>
            actions'[j].kind = actions[j].kind /\ actions'[j].phase = actions[j].phase
      /\ \A j \in DOMAIN actions : Happened(j) => Happened(j)'
  BY <1>1, <1>2, <1>4, <1>5, Rephase, HappenedStays DEF TypeOK
<1>9. Performing'
  <2>1. Happened(cur) /\ cur \in DOMAIN actions => Happened(cur)'
    BY <1>1, <1>8 DEF Happened, Signed, Published, Kind
  <2> QED
    BY <1>1, <1>2, <1>8, <2>1 DEF Inductive, Performing, Kind
<1>10. Driven' /\ Calling'
  BY <1>1 DEF Inductive, Driven, Calling
<1> QED
  BY <1>1, <1>2, <1>4, <1>5, <1>6, <1>7, <1>9, <1>10, Recorded

\* Startup classifies by what is there; no call is outstanding any more.
LEMMA RestoreRecordsInv ==
    ASSUME Inductive, NEW i \in todo,
           RestoreCompleted(i) \/ RestoreFailed(i) \/ RestoreUnknown(i)
    PROVE  Inductive'
<1> USE DEF world, process
<1>1. /\ i \in DOMAIN actions /\ TypeOK /\ phase = "restoring" /\ at = "none"
      /\ todo' = todo \ {i}
      /\ UNCHANGED <<landed, calls, run, at, cur, asked, phase, recover, may>>
  BY DEF RestoreCompleted, RestoreFailed, RestoreUnknown, RestoreNext, Inductive, TypeOK, Driven
<1>2. \E p \in {"succeeded", "failed", "needs_reconciliation"} :
         /\ actions' = WithPhase(i, p)
         /\ p = "failed" => i \notin landed
         /\ p = "succeeded" => Happened(i)
  BY DEF RestoreCompleted, RestoreFailed, RestoreUnknown, Fail, Flag, Observations,
         Happened, Signed, Published
<1>3. PICK p \in {"succeeded", "failed", "needs_reconciliation"} :
         /\ actions' = WithPhase(i, p)
         /\ p = "failed" => i \notin landed
         /\ p = "succeeded" => Happened(i)
  BY <1>2
<1>4. p \in Phases \ {"prepared"}
  BY DEF Phases, Open
<1>5. TypeOK'
  <2>1. /\ run' \in Runs
        /\ asked' \in [Requests -> Questions]
    BY <1>1 DEF TypeOK
  <2> QED
    BY <1>1, <1>3, <1>4, <2>1, RecordedTypes
<1>6. Driven' /\ Performing' /\ Calling'
  BY <1>1 DEF Inductive, Driven, Performing, Calling
<1> QED
  BY <1>1, <1>3, <1>4, <1>5, <1>6, Recorded

\* The end of startup, and the run's own recovery.
LEMMA RecoveryInv ==
    ASSUME Inductive, RestoreEnds \/ RecoverAdopts \/ RecoverPauses
    PROVE  Inductive'
<1> USE DEF world, process, journal
<1>1. TypeOK /\ UNCHANGED <<actions, landed, calls, asked, todo, may, cur>>
  BY DEF Inductive, RestoreEnds, RecoverAdopts, RecoverPauses, Recovers
<1>2. CASE RestoreEnds
  <2>1. phase' = "serving" /\ UNCHANGED <<run, at, recover>>
    BY <1>2 DEF RestoreEnds
  <2>2. TypeOK' /\ Driven' /\ Performing'
    BY <1>1, <2>1 DEF Inductive, TypeOK, Driven, Performing, Happened, Signed, Published, Kind
  <2> QED
    BY <1>1, <2>1, <2>2, Quiet
<1>3. CASE RecoverAdopts \/ RecoverPauses
  <2>1. /\ phase = "serving" /\ phase' = phase /\ recover' = FALSE
        /\ at = "none" /\ calls = {} /\ at' \in {"none", "entering"}
        /\ \/ RunMovesOn
           \/ run' = [run EXCEPT !.status = "paused"] /\ at' = at
    BY <1>3 DEF RecoverAdopts, RecoverPauses, Recovers, Inductive, Driven, Calling
  <2>2. /\ TypeOK'
        /\ run'.status = "paused" => at' = "none"
    BY <1>1, <2>1, RunSteps DEF TypeOK
  <2>3. Driven' /\ Performing'
    BY <2>1, <2>2 DEF Driven, Performing
  <2> QED
    BY <1>1, <2>1, <2>2, <2>3, Quiet
<1> QED
  BY <1>2, <1>3

\* A restart: calls end with their clients.
LEMMA CrashInv ==
    ASSUME Certain, Inductive, Crash
    PROVE  Inductive'
<1> USE DEF journal
<1>1. TypeOK
  BY DEF Inductive
<1>2. /\ calls' = {} /\ at' = "none" /\ cur' = 0 /\ phase' = "restoring"
      /\ asked' = [r \in Requests |-> Idle]
      /\ todo' \subseteq {i \in DOMAIN actions : actions[i].phase \in Open}
      /\ recover' = (run.status = "running")
      /\ UNCHANGED <<actions, landed, run, may>>
  BY CertainFacts DEF Crash
<1>3. TypeOK'
  <2>1. Idle \in Questions
    BY DEF Idle, Questions
  <2> QED
    BY <1>1, <1>2, <2>1 DEF TypeOK
<1>4. \A j : Happened(j)' <=> Happened(j)
  BY <1>2 DEF Happened, Signed, Published, Kind
<1>5. Driven' /\ Performing' /\ Calling' /\ Asking' /\ Restoring'
  BY <1>2 DEF Driven, Performing, Calling, Asking, Restoring
<1>6. Authorized' /\ Landing' /\ Proven'
  BY <1>2, <1>4 DEF Inductive, Authorized, Landing, Proven, Kind
<1> QED
  BY <1>3, <1>5, <1>6 DEF Inductive

\* The condition a behaviour is under is settled at its beginning.
LEMMA MayStays == [Next]_vars => may' = may
BY DEF Next, vars, journal, world, process, startup, Coroutine, StepRefused,
       StepAdmitted, CheckStops, CommitCheckFails, PushCheckFails, PrCheckFails,
       PrepareReuses, PrepareAppends, PrepareConflicts, AdoptAtHead, MarkExecuting,
       SignatureVerified, PushAnswered, PrCreated, Answered, AnswerError,
       PushConflict, PushVerified, PushMismatch, PushUnreadable, Land, Uninstalled,
       Close, ClassifyFailed, ClassifyUnknown, ClassifyCompleted, Leave,
       Operator, Confirm, Reauthorize, Resume, Authorizes, Retry, Ask, Observe,
       Adopts, Leaves, AllowsRetry, Abandons, AbandonsUnknown, Decided,
       Restore, RestoreCompleted, RestoreFailed, RestoreUnknown, RestoreNext,
       RestoreEnds, RecoverAdopts, RecoverPauses, Recovers, Crash, EffectLands

LEMMA StutterInv ==
    ASSUME Inductive, UNCHANGED vars
    PROVE  Inductive'
<1>1. UNCHANGED <<actions, landed, calls, run, at, cur, asked, phase, todo, recover, may>>
  BY DEF vars, journal, world, process, startup
<1>2. TypeOK' /\ Driven' /\ Performing'
  BY <1>1 DEF Inductive, TypeOK, Driven, Performing, Happened, Signed, Published, Kind
<1> QED
  BY <1>1, <1>2, Quiet

LEMMA NextInductive ==
    ASSUME Certain, Inductive, [Next]_vars
    PROVE  Inductive'
<1>1. CASE Coroutine
  <2>1. CoroutineReads \/ CoroutineWrites \/ PrepareAppends
    BY <1>1 DEF Coroutine, CoroutineReads, CoroutineWrites
  <2> QED
    BY <2>1, CoroutineReadsInv, CoroutineWritesInv, PrepareAppendsInv
<1>2. CASE Operator
  <2>1. CASE Confirm \/ Retry
    BY <2>1, StartsInv
  <2>2. ASSUME NEW r \in Requests,
               \/ \E d \in may.decisions, i \in DOMAIN actions : Ask(r, d, i)
               \/ Observe(r) \/ Leaves(r)
        PROVE  Inductive'
    BY <2>2, RequestInv
  <2>3. ASSUME NEW r \in Requests,
               Adopts(r) \/ AllowsRetry(r) \/ Abandons(r) \/ AbandonsUnknown(r)
        PROVE  Inductive'
    BY <2>3, DecisionInv
  <2> QED
    BY <1>2, <2>1, <2>2, <2>3 DEF Operator
<1>3. CASE Restore
  BY <1>3, RestoreRecordsInv, RecoveryInv DEF Restore
<1>4. CASE Crash
  BY <1>4, CrashInv
<1>5. CASE \E i \in calls : EffectLands(i)
  BY <1>5, EffectLandsInv
<1>6. CASE UNCHANGED vars
  BY <1>6, StutterInv
<1> QED
  BY <1>1, <1>2, <1>3, <1>4, <1>5, <1>6 DEF Next

LEMMA NextInv == Inv /\ [Next]_vars => Inv'
<1> SUFFICES ASSUME Inv, [Next]_vars, Certain'
             PROVE  Inductive'
  BY DEF Inv
<1>1. Certain
  BY MayStays DEF Certain
<1> QED
  BY <1>1, NextInductive DEF Inv

LEMMA Invariance == Spec => []Inv
BY InitInv, NextInv, PTL DEF Spec

\* "An attempt is only recorded as failed when its non-execution was
\* established", for every chain, every number of concurrent requests and every
\* interleaving: where calls are certain, a failed attempt's effect did not take
\* place, and no call is outstanding that still could.
THEOREM FailuresAreAbsences == Spec => []FailedMeansAbsent
<1>1. Inv => FailedMeansAbsent
  <2> SUFFICES ASSUME Inductive, NEW i \in DOMAIN actions, actions[i].phase = "failed"
               PROVE  i \notin landed \cup calls
    BY DEF Inv, FailedMeansAbsent
  <2>1. i \notin landed
    BY DEF Inductive, Landing, Open
  <2>2. i \notin calls
    BY DEF Inductive, Calling, Performing
  <2> QED
    BY <2>1, <2>2
<1> QED
  BY <1>1, Invariance, PTL

-----------------------------------------------------------------------------
(* The journal implements Publication: every step of it is a step of the    *)
(* publication or leaves the publication alone.                             *)

Trying(k) == Having(k, Open) # {}
Taken(k)  == \E j \in landed : Kind(j) = k

\* What succeeded was taken, and what was taken is being tried or succeeded:
\* the publication never shows an effect as due that has happened.
LEMMA TakenIsOnRecord ==
    ASSUME Inductive, NEW k
    PROVE  /\ Succeeded(k) => Taken(k)
           /\ Taken(k) => Succeeded(k) \/ Trying(k)
           /\ \A i \in DOMAIN actions : Happened(i) => Taken(Kind(i))
<1>1. \A i \in DOMAIN actions : Happened(i) => Taken(Kind(i))
  BY DEF Happened, Signed, Published, Taken
<1>2. Succeeded(k) => Taken(k)
  BY <1>1 DEF Inductive, Proven, Succeeded, Having
<1>3. Taken(k) => Succeeded(k) \/ Trying(k)
  BY DEF Inductive, Landing, Taken, TypeOK, Succeeded, Trying, Having
<1> QED
  BY <1>1, <1>2, <1>3

\* A successor state in which the attempt i changed its phase to p and nothing
\* else changed: how each effect appears.
LEMMA Appearance ==
    ASSUME TypeOK, NEW i \in DOMAIN actions, NEW p \in Phases,
           actions' = WithPhase(i, p), landed' = landed,
           actions[i].phase # "succeeded" \/ p = "succeeded", NEW k
    PROVE  /\ Succeeded(k)' <=> Succeeded(k) \/ (k = Kind(i) /\ p = "succeeded")
           /\ k # Kind(i) => (Trying(k)' <=> Trying(k))
           /\ p \in Open /\ k = Kind(i) => Trying(k)'
           /\ (\E j \in DOMAIN actions : j # i /\ Kind(j) = k /\ actions[j].phase \in Open)
                => Trying(k)'
           /\ Taken(k)' <=> Taken(k)
<1>1. /\ DOMAIN actions' = DOMAIN actions
      /\ \A j \in DOMAIN actions :
            /\ actions'[j].kind = actions[j].kind
            /\ actions'[j].phase = IF j = i THEN p ELSE actions[j].phase
  BY Rephase
<1>2. Succeeded(k)' <=> \E j \in DOMAIN actions : actions'[j].kind = k /\ actions'[j].phase = "succeeded"
  BY <1>1 DEF Succeeded, Having, Kind
<1>3. Succeeded(k) <=> \E j \in DOMAIN actions : actions[j].kind = k /\ actions[j].phase = "succeeded"
  BY DEF Succeeded, Having, Kind
<1>4. Trying(k)' <=> \E j \in DOMAIN actions : actions'[j].kind = k /\ actions'[j].phase \in Open
  BY <1>1 DEF Trying, Having, Kind
<1>5. Trying(k) <=> \E j \in DOMAIN actions : actions[j].kind = k /\ actions[j].phase \in Open
  BY DEF Trying, Having, Kind
<1>6. Taken(k)' <=> Taken(k)
  BY <1>1 DEF Taken, Kind, TypeOK
<1> QED
  BY <1>1, <1>2, <1>3, <1>4, <1>5, <1>6 DEF Kind

LEMMA SucceededStays ==
    ASSUME NEW k, Succeeded(k), DOMAIN actions \subseteq DOMAIN actions',
           \A j \in DOMAIN actions :
               /\ actions'[j].kind = actions[j].kind
               /\ actions[j].phase = "succeeded" => actions'[j].phase = "succeeded"
    PROVE  Succeeded(k)'
BY DEF Succeeded, Having, Kind

\* An attempt's outcome is recorded: a failure of what did not happen, a success
\* of what did, and nothing that was concluded before is concluded again.
Records(i, p) ==
    /\ i \in DOMAIN actions /\ p \in {"succeeded", "failed", "needs_reconciliation"}
    /\ actions' = WithPhase(i, p) /\ landed' = landed
    /\ p = "failed" => i \notin landed
    /\ p = "succeeded" => Happened(i)
    /\ actions[i].phase \in Open \/ (p = "succeeded" /\ actions[i].phase # "succeeded")

Appends ==
    /\ landed' = landed
    /\ \E row \in Rows : row.phase = "prepared" /\ actions' = Append(actions, row)

\* Everything a step may do to the rows and to the world.
LEMMA StepsOfTheJournal ==
    ASSUME Certain, Inductive, Pending, [Next]_vars
    PROVE  \/ UNCHANGED <<actions, landed>>
           \/ Appends
           \/ MarkExecuting
           \/ at = "calling" /\ EffectLands(cur)
           \/ \E i, p : Records(i, p)
<1> USE DEF world, startup, journal, process
<1>1. TypeOK /\ Performing
  BY DEF Inductive
<1>2. CASE UNCHANGED vars
  BY <1>2 DEF vars
<1>3. CASE CoroutineReads \/ AnswerError
  BY <1>3 DEF CoroutineReads, StepRefused, StepAdmitted, CheckStops, CommitCheckFails,
         PushCheckFails, PrCheckFails, PrepareReuses, PrepareConflicts, AdoptAtHead,
         SignatureVerified, PushAnswered, PrCreated, Answered, PushVerified,
         PushUnreadable, Uninstalled, Close, Leave, AnswerError
<1>4. CASE PrepareAppends
  <2> DEFINE row == [kind |-> Chain[run.pos], step |-> run.seq, phase |-> "prepared"]
  <2>1. row \in Rows
    BY <1>1, <1>4, ConstantsAssumption
    DEF PrepareAppends, Moves, Performing, Rows, TypeOK, Runs, Phases
  <2> QED
    BY <1>4, <2>1 DEF PrepareAppends, Appends
<1>5. CASE PushConflict \/ ClassifyFailed
  <2>1. /\ cur \in DOMAIN actions /\ actions[cur].phase \in Open
        /\ actions' = WithPhase(cur, "failed") /\ landed' = landed
    BY <1>1, <1>5 DEF PushConflict, ClassifyFailed, Moves, Performing, Fail, Open
  <2>2. cur \notin landed
    BY <1>5, <2>1 DEF PushConflict, ClassifyFailed, Inductive, Calling, Outcomes,
                      Observations, Happened, Signed, Published
  <2>3. Records(cur, "failed")
    BY <2>1, <2>2 DEF Records
  <2> QED
    BY <2>3
<1>6. CASE PushMismatch \/ ClassifyUnknown
  <2>1. Records(cur, "needs_reconciliation")
    BY <1>1, <1>6 DEF PushMismatch, ClassifyUnknown, Moves, Performing, Flag, Open, Records
  <2> QED
    BY <2>1
<1>7. CASE Land \/ ClassifyCompleted
  <2>1. Records(cur, "succeeded")
    BY <1>1, <1>7 DEF Land, ClassifyCompleted, Moves, Performing, Outcomes,
                      Observations, Records
  <2> QED
    BY <2>1
<1>8. CASE Operator
  <2>1. CASE Confirm \/ Retry
    BY <2>1 DEF Confirm, Reauthorize, Resume, Authorizes, Retry
  <2>2. ASSUME NEW r \in Requests,
               \/ \E d \in may.decisions, i \in DOMAIN actions : Ask(r, d, i)
               \/ Observe(r) \/ Leaves(r)
        PROVE  UNCHANGED <<actions, landed>>
    BY <2>2 DEF Ask, Observe, Leaves, Decided
  <2>3. ASSUME NEW r \in Requests,
               Adopts(r) \/ AllowsRetry(r) \/ Abandons(r) \/ AbandonsUnknown(r)
        PROVE  \E i, p : Records(i, p)
    <3> DEFINE i == asked[r].action
    <3>1. asked[r] # Idle /\ landed' = landed
      BY <2>3 DEF Adopts, AllowsRetry, Abandons, AbandonsUnknown, Decided, Idle
    <3>2. /\ i \in DOMAIN actions /\ actions[i].phase \in Open /\ asked[r].decision # "abandon"
          /\ asked[r].seen = "completed" => Happened(i)
          /\ asked[r].seen = "not-executed" => i \notin landed
      BY <3>1, CertainFacts DEF Inductive, Asking, Pending
    <3>3. Records(i, "succeeded") \/ Records(i, "failed")
      BY <2>3, <3>1, <3>2 DEF Adopts, AllowsRetry, Abandons, AbandonsUnknown, Decided, Fail, Records
    <3> QED
      BY <3>3
  <2> QED
    BY <1>8, <2>1, <2>2, <2>3 DEF Operator
<1>9. CASE Restore
  <2>1. CASE RestoreEnds \/ RecoverAdopts \/ RecoverPauses
    BY <2>1 DEF RestoreEnds, RecoverAdopts, RecoverPauses, Recovers
  <2>2. ASSUME NEW i \in todo,
               RestoreCompleted(i) \/ RestoreFailed(i) \/ RestoreUnknown(i)
        PROVE  \E p : Records(i, p)
    <3>1. i \in DOMAIN actions /\ actions[i].phase \in Open /\ landed' = landed
      BY <1>1, <2>2 DEF RestoreCompleted, RestoreFailed, RestoreUnknown, RestoreNext,
                        Inductive, Restoring, TypeOK
    <3>2. \/ Records(i, "succeeded") \/ Records(i, "failed")
          \/ Records(i, "needs_reconciliation")
      BY <2>2, <3>1 DEF RestoreCompleted, RestoreFailed, RestoreUnknown, Fail, Flag,
                        Observations, Happened, Signed, Published, Records
    <3> QED
      BY <3>2
  <2> QED
    BY <1>9, <2>1, <2>2 DEF Restore
<1>10. CASE Crash
  BY <1>10 DEF Crash
<1>11. CASE \E i \in calls : EffectLands(i)
  BY <1>11 DEF Inductive, Calling
<1> QED
  BY <1>2, <1>3, <1>4, <1>5, <1>6, <1>7, <1>8, <1>9, <1>10, <1>11
  DEF Next, Coroutine, CoroutineReads

\* Attempts keep their kinds, and one request at a time settles no attempt twice:
\* what succeeded stays so.
LEMMA SuccessIsFinal ==
    ASSUME Certain, Inductive, Pending, [Next]_vars
    PROVE  /\ DOMAIN actions \subseteq DOMAIN actions'
           /\ \A j \in DOMAIN actions :
                  /\ actions'[j].kind = actions[j].kind
                  /\ actions[j].phase = "succeeded" => actions'[j].phase = "succeeded"
<1>1. TypeOK
  BY DEF Inductive
<1>2. CASE UNCHANGED <<actions, landed>> \/ (at = "calling" /\ EffectLands(cur))
  BY <1>2 DEF EffectLands, journal
<1>3. CASE Appends
  BY <1>1, <1>3 DEF Appends, TypeOK
<1>4. CASE MarkExecuting
  <2>1. /\ cur \in DOMAIN actions /\ actions[cur].phase = "prepared"
        /\ actions' = WithPhase(cur, "executing") /\ "executing" \in Phases
    BY <1>4 DEF MarkExecuting, Moves, Inductive, Performing, Phases, Open
  <2> QED
    BY <1>1, <2>1, Rephase
<1>5. ASSUME NEW i, NEW p, Records(i, p)
      PROVE  /\ DOMAIN actions \subseteq DOMAIN actions'
             /\ \A j \in DOMAIN actions :
                    /\ actions'[j].kind = actions[j].kind
                    /\ actions[j].phase = "succeeded" => actions'[j].phase = "succeeded"
  <2>1. p \in Phases
    BY <1>5 DEF Records, Phases, Open
  <2> QED
    BY <1>1, <1>5, <2>1, Rephase DEF Records, Open
<1> QED
  BY <1>2, <1>3, <1>4, <1>5, StepsOfTheJournal

\* Nobody but its own request settles the attempt a request is about: the
\* coroutine is at another one, and startup finds no request.
LEMMA NextPending ==
    ASSUME Lone, Certain, Inductive, Pending, [Next]_vars
    PROVE  Pending'
<1> USE DEF world, startup, journal, process
<1> SUFFICES ASSUME NEW r \in Requests, asked'[r] # Idle
             PROVE  actions'[asked'[r].action].phase \in Open
  BY DEF Pending
<1>1. TypeOK
  BY DEF Inductive
<1>2. asked[r] # Idle =>
        /\ asked[r].action \in DOMAIN actions /\ asked[r].action # cur
        /\ actions[asked[r].action].phase \in Open /\ phase = "serving"
  BY DEF Inductive, Asking, Pending
<1>3. ASSUME asked' = asked, UNCHANGED actions \/ Appends
      PROVE  actions'[asked'[r].action].phase \in Open
  BY <1>1, <1>2, <1>3 DEF Appends, TypeOK
<1>4. ASSUME asked' = asked, cur \in DOMAIN actions, NEW p \in Phases, actions' = WithPhase(cur, p)
      PROVE  actions'[asked'[r].action].phase \in Open
  BY <1>1, <1>2, <1>4, Rephase
<1>5. CASE CoroutineReads \/ AnswerError
  BY <1>3, <1>5 DEF CoroutineReads, StepRefused, StepAdmitted, CheckStops, CommitCheckFails,
         PushCheckFails, PrCheckFails, PrepareReuses, PrepareConflicts, AdoptAtHead,
         SignatureVerified, PushAnswered, PrCreated, Answered, PushVerified,
         PushUnreadable, Uninstalled, Close, Leave, AnswerError
<1>6. CASE PrepareAppends
  <2>1. UNCHANGED <<asked, landed>> /\ (UNCHANGED actions \/ Appends)
    <3> DEFINE row == [kind |-> Chain[run.pos], step |-> run.seq, phase |-> "prepared"]
    <3>1. row \in Rows
      BY <1>1, <1>6, ConstantsAssumption
      DEF PrepareAppends, Moves, Inductive, Performing, Rows, TypeOK, Runs, Phases
    <3> QED
      BY <1>6, <3>1 DEF PrepareAppends, Appends
  <2> QED
    BY <1>3, <2>1
<1>7. CASE CoroutineWrites /\ ~AnswerError
  <2>1. /\ asked' = asked /\ cur \in DOMAIN actions
        /\ \E p \in Phases : actions' = WithPhase(cur, p)
    BY <1>7 DEF CoroutineWrites, MarkExecuting, PushConflict, PushMismatch, Land,
                ClassifyFailed, ClassifyUnknown, ClassifyCompleted, Fail, Flag, Moves,
                Inductive, Performing, Phases, Open
  <2> QED
    BY <1>4, <2>1
<1>8. CASE Operator
  <2>1. CASE Confirm \/ Retry
    BY <1>3, <2>1 DEF Confirm, Reauthorize, Resume, Authorizes, Retry
  <2>2. ASSUME NEW s \in Requests, NEW d \in may.decisions, NEW i \in DOMAIN actions, Ask(s, d, i)
        PROVE  actions'[asked'[r].action].phase \in Open
    BY <1>1, <2>2 DEF Ask, TypeOK, Lone
  <2>3. ASSUME NEW s \in Requests, Observe(s) \/ Leaves(s)
        PROVE  actions'[asked'[r].action].phase \in Open
    <3>1. s = r
      BY DEF Lone
    <3>2. CASE Leaves(s)
      BY <1>1, <3>1, <3>2 DEF Leaves, Decided, TypeOK
    <3>3. CASE Observe(s)
      <4>1. /\ UNCHANGED actions /\ asked[r] # Idle
            /\ \E o : asked' = [asked EXCEPT ![r].seen = o]
        BY <3>1, <3>3 DEF Observe
      <4>2. asked'[r].action = asked[r].action
        BY <1>1, <4>1 DEF TypeOK, Questions
      <4> QED
        BY <1>2, <4>1, <4>2
    <3> QED
      BY <2>3, <3>2, <3>3
  <2>4. ASSUME NEW s \in Requests,
               Adopts(s) \/ AllowsRetry(s) \/ Abandons(s) \/ AbandonsUnknown(s)
        PROVE  FALSE
    <3>1. s = r
      BY DEF Lone
    <3> QED
      BY <1>1, <2>4, <3>1 DEF Adopts, AllowsRetry, Abandons, AbandonsUnknown, Decided, TypeOK
  <2> QED
    BY <1>8, <2>1, <2>2, <2>3, <2>4 DEF Operator
<1>9. CASE Restore
  <2>1. CASE RestoreEnds \/ RecoverAdopts \/ RecoverPauses
    BY <1>3, <2>1 DEF RestoreEnds, RecoverAdopts, RecoverPauses, Recovers
  <2>2. ASSUME NEW i \in todo,
               RestoreCompleted(i) \/ RestoreFailed(i) \/ RestoreUnknown(i)
        PROVE  FALSE
    BY <1>2, <2>2 DEF RestoreCompleted, RestoreFailed, RestoreUnknown, RestoreNext
  <2> QED
    BY <1>9, <2>1, <2>2 DEF Restore
<1>10. CASE Crash
  BY <1>10 DEF Crash
<1>11. CASE \E i \in calls : EffectLands(i)
  BY <1>3, <1>11 DEF EffectLands
<1>12. CASE UNCHANGED vars
  BY <1>3, <1>12 DEF vars
<1> QED
  BY <1>5, <1>6, <1>7, <1>8, <1>9, <1>10, <1>11, <1>12
  DEF Next, Coroutine, CoroutineReads, CoroutineWrites

\* The coroutine is admitted to an effect only when those before it succeeded,
\* and they stay so.
LEMMA NextOrdered ==
    ASSUME Certain, Inductive, Pending, Ordered, [Next]_vars
    PROVE  Ordered'
<1> USE DEF world, startup, journal, process, Moves
<1>1. \A k : Succeeded(k) => Succeeded(k)'
  BY SuccessIsFinal, SucceededStays
<1>2. \/ at' \notin {"checking", "prepared"}
      \/ at \in {"checking", "prepared"} /\ run' = run
      \/ StepAdmitted
  BY DEF Next, vars, Coroutine, StepRefused,
         CheckStops, CommitCheckFails, PushCheckFails, PrCheckFails,
         PrepareReuses, PrepareAppends, PrepareConflicts, AdoptAtHead, MarkExecuting,
         SignatureVerified, PushAnswered, PrCreated, Answered, AnswerError,
         PushConflict, PushVerified, PushMismatch, PushUnreadable, Land, Uninstalled,
         Close, ClassifyFailed, ClassifyUnknown, ClassifyCompleted, Leave,
         Operator, Confirm, Reauthorize, Resume, Authorizes, ContinuesIfPaused, Starts,
         Retry, Ask, Observe,
         Adopts, Leaves, AllowsRetry, Abandons, AbandonsUnknown, Decided,
         Restore, RestoreCompleted, RestoreFailed, RestoreUnknown, RestoreNext,
         RestoreEnds, RecoverAdopts, RecoverPauses, Recovers, Crash, EffectLands,
         Inductive, Driven
<1>3. CASE StepAdmitted
  <2>1. UNCHANGED run /\ \A n \in DOMAIN Chain : n < run.pos => n \notin Remaining
    BY <1>3, ConstantsAssumption DEF StepAdmitted, Remaining
  <2>2. \A n \in DOMAIN Chain : n < run.pos => Succeeded(Chain[n])
    BY <2>1 DEF Remaining
  <2> QED
    BY <1>1, <2>1, <2>2 DEF Ordered
<1>4. CASE at \in {"checking", "prepared"} /\ run' = run
  BY <1>1, <1>4 DEF Ordered
<1> QED
  BY <1>2, <1>3, <1>4 DEF Ordered

LEMMA OneAtATimeInvariance ==
    ASSUME Lone
    PROVE  Spec => [](Inv /\ OneAtATime)
<1>1. Init => OneAtATime
  BY DEF Init, OneAtATime, Pending, Ordered
<1>2. Inv /\ OneAtATime /\ [Next]_vars => OneAtATime'
  <2> SUFFICES ASSUME Inv, OneAtATime, [Next]_vars, Certain'
               PROVE  Pending' /\ Ordered'
    BY DEF OneAtATime
  <2>1. Certain
    BY MayStays DEF Certain
  <2> QED
    BY <2>1, NextPending, NextOrdered DEF Inv, OneAtATime
<1> QED
  BY <1>1, <1>2, InitInv, NextInv, PTL DEF Spec

-----------------------------------------------------------------------------
StatusMap == [n \in DOMAIN Chain |-> Status(Chain[n])]
TakenMap  == [n \in DOMAIN Chain |-> Certain /\ \E j \in landed : Kind(j) = Chain[n]]

Appears(k) ==
    IF Succeeded(k) THEN "done" ELSE IF Trying(k) THEN "trying" ELSE "due"

LEMMA MapsWhenCertain ==
    ASSUME Certain
    PROVE  /\ StatusMap = [n \in DOMAIN Chain |-> Appears(Chain[n])]
           /\ TakenMap = [n \in DOMAIN Chain |-> Taken(Chain[n])]
BY DEF StatusMap, TakenMap, Status, Appears, Trying, Taken

\* One effect appears otherwise than before, and the others as before.
LEMMA OneEffectMoves ==
    ASSUME Certain, Certain', NEW n \in DOMAIN Chain, NEW to,
           Appears(Chain[n])' = to,
           \A m \in DOMAIN Chain \ {n} : Appears(Chain[m])' = Appears(Chain[m])
    PROVE  StatusMap' = [StatusMap EXCEPT ![n] = to]
BY MapsWhenCertain DEF StatusMap, Status, Appears, Trying

\* An outcome that is recorded confirms its effect, drops it, or is about an
\* effect another attempt already decided.
LEMMA RecordsRefines ==
    ASSUME Certain, Certain', Inductive, NEW i, NEW p, Records(i, p)
    PROVE  Ledger!Next \/ UNCHANGED Ledger!vars
<1>1. TypeOK /\ i \in DOMAIN actions /\ p \in Phases
  BY DEF Inductive, Records, Phases, Open
<1>2. PICK n \in DOMAIN Chain : Chain[n] = Kind(i)
  BY <1>1 DEF Inductive, Authorized
<1> DEFINE k == Chain[n]
<1>3. \A m \in DOMAIN Chain : m # n => Chain[m] # Kind(i)
  BY <1>2, ConstantsAssumption
<1>4. /\ actions' = WithPhase(i, p) /\ landed' = landed
      /\ actions[i].phase # "succeeded"
  BY DEF Records, Open
<1>5. \A m \in DOMAIN Chain \ {n} : Appears(Chain[m])' = Appears(Chain[m])
  BY <1>1, <1>2, <1>3, <1>4, Appearance DEF Appears
<1>6. TakenMap' = TakenMap
  <2>1. \A m \in DOMAIN Chain : Taken(Chain[m])' <=> Taken(Chain[m])
    BY <1>1, <1>4, Appearance
  <2> QED
    BY <2>1 DEF TakenMap, Taken
<1>7. /\ StatusMap \in [DOMAIN Chain -> {"due", "trying", "done"}]
      /\ StatusMap[n] = Appears(k) /\ TakenMap[n] = Taken(k)
  BY MapsWhenCertain DEF Appears
<1>8. /\ Succeeded(k)' <=> Succeeded(k) \/ p = "succeeded"
      /\ p = "needs_reconciliation" => Trying(k)'
      /\ (\E j \in DOMAIN actions : j # i /\ Kind(j) = k /\ actions[j].phase \in Open) => Trying(k)'
  BY <1>1, <1>2, <1>4, Appearance DEF Open
<1>9. ASSUME Appears(k)' = Appears(k)
      PROVE  UNCHANGED Ledger!vars
  <2>1. StatusMap' = StatusMap
    BY <1>5, <1>7, <1>9, OneEffectMoves
  <2> QED
    BY <1>6, <2>1 DEF Ledger!vars, StatusMap, TakenMap
<1>10. CASE p = "succeeded"
  <2>1. Taken(k) /\ Appears(k) \in {"trying", "done"} /\ Appears(k)' = "done"
    BY <1>1, <1>2, <1>8, <1>10, TakenIsOnRecord DEF Records, Appears
  <2>2. ASSUME Appears(k) = "trying"
        PROVE  Ledger!Confirm(n)
    BY <1>5, <1>6, <1>7, <2>1, <2>2, OneEffectMoves
    DEF Ledger!Confirm, Ledger!Step, StatusMap, TakenMap
  <2> QED
    BY <1>9, <2>1, <2>2 DEF Ledger!Next
<1>11. CASE p # "succeeded"
  <2>1. Appears(k) \in {"trying", "done"}
    BY <1>1, <1>2, <1>11 DEF Records, Appears, Trying, Having
  <2>2. CASE Appears(k)' = Appears(k)
    BY <1>9, <2>2
  <2>3. CASE Appears(k)' # Appears(k)
    <3>1. /\ Appears(k) = "trying" /\ Appears(k)' = "due" /\ p = "failed"
          /\ ~Succeeded(k) /\ ~Trying(k)'
      BY <1>8, <1>11, <2>1, <2>3 DEF Records, Appears
    <3>2. ~Taken(k)
      BY <1>2, <1>8, <3>1 DEF Records, Taken, Inductive, Landing, TypeOK, Succeeded, Having
    <3>3. Ledger!Drop(n)
      BY <1>5, <1>6, <1>7, <3>1, <3>2, OneEffectMoves
      DEF Ledger!Drop, Ledger!Step, StatusMap, TakenMap
    <3> QED
      BY <3>3 DEF Ledger!Next
  <2> QED
    BY <2>2, <2>3
<1> QED
  BY <1>10, <1>11

\* An attempt that begins tries its effect, which is due and has not happened,
\* and those it builds on are done.
LEMMA MarkExecutingRefines ==
    ASSUME Certain, Certain', Inductive, Ordered, MarkExecuting
    PROVE  Ledger!Next \/ UNCHANGED Ledger!vars
<1>1. /\ TypeOK /\ cur \in DOMAIN actions /\ at = "prepared"
      /\ "executing" \in Phases \cap Open
      /\ actions[cur].phase = "prepared"
      /\ actions' = WithPhase(cur, "executing") /\ landed' = landed
  BY DEF MarkExecuting, Moves, Inductive, Performing, Phases, Open
<1>2. PICK n \in DOMAIN Chain : n = run.pos /\ Chain[n] = Kind(cur)
  BY <1>1 DEF Inductive, Performing
<1> DEFINE k == Chain[n]
<1>3. \A m \in DOMAIN Chain : m # n => Chain[m] # Kind(cur)
  BY <1>2, ConstantsAssumption
<1>4. \A m \in DOMAIN Chain \ {n} : Appears(Chain[m])' = Appears(Chain[m])
  BY <1>1, <1>3, Appearance DEF Appears
<1>5. TakenMap' = TakenMap
  <2>1. \A m \in DOMAIN Chain : Taken(Chain[m])' <=> Taken(Chain[m])
    BY <1>1, Appearance
  <2> QED
    BY <2>1 DEF TakenMap, Taken
<1>6. (Succeeded(k)' <=> Succeeded(k)) /\ Trying(k)'
  BY <1>1, <1>2, Appearance
<1>7. StatusMap = [m \in DOMAIN Chain |-> Appears(Chain[m])] /\ TakenMap[n] = Taken(k)
  BY MapsWhenCertain
<1>8. CASE Appears(k) # "due"
  <2>1. Appears(k)' = Appears(k)
    BY <1>6, <1>8 DEF Appears
  <2>2. StatusMap' = StatusMap
    BY <1>4, <1>7, <2>1, OneEffectMoves
  <2> QED
    BY <1>5, <2>2 DEF Ledger!vars, StatusMap, TakenMap
<1>9. CASE Appears(k) = "due"
  <2>1. Appears(k)' = "trying" /\ ~Taken(k)
    BY <1>6, <1>9, TakenIsOnRecord DEF Appears
  <2>2. \A m \in DOMAIN Chain : m < n => StatusMap[m] = "done"
    BY <1>1, <1>2, <1>7 DEF Ordered, Appears
  <2>3. StatusMap' = [StatusMap EXCEPT ![n] = "trying"]
    BY <1>4, <2>1, OneEffectMoves
  <2>4. Ledger!Try(n)
    BY <1>5, <1>7, <1>9, <2>1, <2>2, <2>3
    DEF Ledger!Try, Ledger!Step, StatusMap, TakenMap
  <2> QED
    BY <2>4 DEF Ledger!Next
<1> QED
  BY <1>8, <1>9

\* An effect that takes place is being tried, and takes place once.
LEMMA EffectLandsRefines ==
    ASSUME Certain, Certain', Inductive, at = "calling", EffectLands(cur)
    PROVE  Ledger!Next \/ UNCHANGED Ledger!vars
<1>1. /\ TypeOK /\ cur \in DOMAIN actions /\ actions[cur].phase = "executing"
      /\ actions' = actions
      /\ landed' = IF Happened(cur) THEN landed ELSE landed \cup {cur}
  BY DEF EffectLands, journal, Inductive, Performing
<1>2. PICK n \in DOMAIN Chain : Chain[n] = Kind(cur)
  BY <1>1 DEF Inductive, Authorized
<1> DEFINE k == Chain[n]
<1>3. \A m \in DOMAIN Chain : m # n => Chain[m] # Kind(cur)
  BY <1>2, ConstantsAssumption
<1>4. StatusMap' = StatusMap
  BY <1>1 DEF StatusMap, Status, Succeeded, Having, Kind
<1>5. /\ \A m \in DOMAIN Chain \ {n} : Taken(Chain[m])' <=> Taken(Chain[m])
      /\ Taken(k)' <=> TRUE
  <2>1. \A j : Kind(j)' = Kind(j)
    BY <1>1 DEF Kind
  <2> QED
    BY <1>1, <1>2, <1>3, <2>1, TakenIsOnRecord DEF Taken
<1>6. CASE Taken(k)
  <2>1. TakenMap' = TakenMap
    BY <1>5, <1>6 DEF TakenMap, Taken
  <2> QED
    BY <1>4, <2>1 DEF Ledger!vars, StatusMap, TakenMap
<1>7. CASE ~Taken(k)
  <2>1. StatusMap[n] = "trying" /\ TakenMap[n] = FALSE
    <3>1. ~Succeeded(k) /\ Trying(k)
      BY <1>1, <1>2, <1>7, TakenIsOnRecord DEF Trying, Having, Open
    <3> QED
      BY <1>7, <3>1, MapsWhenCertain DEF Appears
  <2>2. TakenMap' = [TakenMap EXCEPT ![n] = TRUE]
    BY <1>5 DEF TakenMap, Taken
  <2>3. Ledger!Take(n)
    BY <1>4, <2>1, <2>2 DEF Ledger!Take, StatusMap, TakenMap
  <2> QED
    BY <2>3 DEF Ledger!Next
<1> QED
  BY <1>6, <1>7

\* A prepared attempt is not shown.
LEMMA AppendsRefines ==
    ASSUME Certain, Certain', Inductive, Appends
    PROVE  UNCHANGED Ledger!vars
<1>1. /\ actions \in Seq(Rows) /\ landed \subseteq DOMAIN actions /\ landed' = landed
      /\ \E row \in Rows : row.phase = "prepared" /\ actions' = Append(actions, row)
  BY DEF Inductive, TypeOK, Appends
<1>2. /\ DOMAIN actions' = DOMAIN actions \cup {Len(actions) + 1}
      /\ \A j \in DOMAIN actions : actions'[j] = actions[j]
      /\ actions'[Len(actions) + 1].phase = "prepared"
  BY <1>1
<1>3. \A n \in DOMAIN Chain :
         /\ Having(Chain[n], {"succeeded"})' = Having(Chain[n], {"succeeded"})
         /\ Having(Chain[n], Open)' = Having(Chain[n], Open)
  BY <1>2 DEF Having, Kind, Open
<1>4. \A n \in DOMAIN Chain : Taken(Chain[n])' <=> Taken(Chain[n])
  BY <1>1, <1>2 DEF Taken, Kind
<1>5. StatusMap' = StatusMap
  BY <1>3 DEF StatusMap, Status, Succeeded
<1>6. TakenMap' = TakenMap
  BY <1>4 DEF TakenMap, Taken
<1> QED
  BY <1>5, <1>6 DEF Ledger!vars, StatusMap, TakenMap

LEMMA InitRefines == Init => Ledger!Init
<1> SUFFICES ASSUME Init PROVE Ledger!Init
  OBVIOUS
<1>1. actions = <<>> /\ landed = {}
  BY DEF Init
<1>2. \A n \in DOMAIN Chain : Status(Chain[n]) = "due"
  BY <1>1 DEF Status, Succeeded, Having
<1> QED
  BY <1>1, <1>2 DEF Ledger!Init

LEMMA NextRefines ==
    ASSUME Inv, OneAtATime, [Next]_vars
    PROVE  Ledger!Next \/ UNCHANGED Ledger!vars
<1>1. Certain' <=> Certain
  BY MayStays DEF Certain
<1>2. CASE ~Certain
  \* Nothing is promised: the observer is shown a publication that stands still.
  BY <1>1, <1>2 DEF Ledger!vars, Status
<1>3. CASE Certain
  <2>1. Inductive /\ Pending /\ Ordered
    BY <1>3 DEF Inv, OneAtATime
  <2>2. CASE UNCHANGED <<actions, landed>>
    <3>1. StatusMap' = StatusMap /\ TakenMap' = TakenMap
      BY <1>1, <2>2 DEF StatusMap, Status, Succeeded, Having, TakenMap, Kind
    <3> QED
      BY <3>1 DEF Ledger!vars, StatusMap, TakenMap
  <2>3. CASE Appends
    BY <1>1, <1>3, <2>1, <2>3, AppendsRefines
  <2>4. CASE MarkExecuting
    BY <1>1, <1>3, <2>1, <2>4, MarkExecutingRefines
  <2>5. CASE at = "calling" /\ EffectLands(cur)
    BY <1>1, <1>3, <2>1, <2>5, EffectLandsRefines
  <2>6. CASE \E i, p : Records(i, p)
    BY <1>1, <1>3, <2>1, <2>6, RecordsRefines
  <2> QED
    BY <1>3, <2>1, <2>2, <2>3, <2>4, <2>5, <2>6, StepsOfTheJournal
<1> QED
  BY <1>2, <1>3

\* Where calls are certain and operators decide one request at a time, the
\* journal implements Publication for every chain: each effect happens at most
\* once, none begins before the one it builds on is proven, whatever restarts,
\* retries and unreadable remotes come between, and an effect is given up only
\* when it did not happen.
THEOREM JournalImplementsPublication ==
    ASSUME Lone
    PROVE  Spec => ImplementsPublication
<1>1. Inv /\ OneAtATime /\ [Next]_vars => [Ledger!Next]_(Ledger!vars)
  BY NextRefines
<1> QED
  BY <1>1, InitRefines, OneAtATimeInvariance, PTL
  DEF Spec, ImplementsPublication, Ledger!Spec
-----------------------------------------------------------------------------
(* What is left open blocks the workspace, up to and including the first    *)
(* restart.  At most one attempt is open, and somebody answers for it: the  *)
(* coroutine that performs it, startup that has it still to classify, or    *)
(* the block.                                                               *)

Opened == {i \in DOMAIN actions : actions[i].phase \in Open}
AtWork == {"calling", "verifying", "classifying", "landing"}

WatchTypes ==
    /\ actions \in Seq(Rows) /\ run \in Runs /\ asked \in [Requests -> Questions]
    /\ cur \in Nat /\ crashes \in Nat /\ settled \in BOOLEAN /\ blocked \in BOOLEAN
    /\ todo \subseteq DOMAIN actions /\ phase \in {"serving", "restoring"}

OneOpen == \A i, j \in Opened : i = j

\* What the coroutine has in hand, wherever it is suspended.
Posts ==
    /\ at \in {"none", "entering", "checking"} => cur = 0
    /\ at = "checking" => run.pos \in DOMAIN Chain
    /\ at \in {"checking", "prepared"} => Opened = {}
    /\ at = "prepared" => cur \in DOMAIN actions /\ actions[cur].phase = "prepared"
    /\ at \in AtWork \ {"landing"} => cur \in Opened
    /\ at = "landing" => cur \in DOMAIN actions /\ Opened \subseteq {cur}
    /\ settled => at \in {"closing", "leaving"}

\* Somebody answers for an open attempt.
Guarded ==
    \A i \in Opened :
        \/ blocked
        \/ at \in AtWork /\ i = cur
        \/ phase = "restoring" /\ i \in todo

\* A request is about the open attempt, and not the one being performed.
AskingOpen ==
    \A r \in Requests : asked[r] # Idle =>
        /\ phase = "serving" /\ asked[r].action \in Opened /\ asked[r].action # cur

\* Until the first restart the disposition tells startup about what is open.
Told ==
    /\ phase = "serving" /\ ~recover
    /\ \A i \in Opened : disposition = "unresolved" \/ (at \in AtWork /\ i = cur)
    /\ at \in {"checking", "prepared", "closing"} \cup AtWork => disposition = "authorized"
    /\ at = "entering" \/ settled => disposition = "authorized" \/ Remaining = {}
    /\ at \in {"entering", "closing"} \/ settled => Opened = {}

Watched ==
    /\ WatchTypes /\ OneOpen /\ Posts /\ Guarded /\ AskingOpen /\ Driven
    /\ Restoring
    /\ crashes = 0 => Told

Watch == Attended /\ crashes <= 1 => Watched

\* Recording a phase opens or closes that attempt and no other.
LEMMA OpenedAfter ==
    ASSUME actions \in Seq(Rows), NEW i \in DOMAIN actions, NEW p \in Phases,
           actions' = WithPhase(i, p)
    PROVE  /\ actions' \in Seq(Rows) /\ DOMAIN actions' = DOMAIN actions
           /\ \A j \in DOMAIN actions :
                  actions'[j].phase = IF j = i THEN p ELSE actions[j].phase
           /\ Opened' = IF p \in Open THEN Opened \cup {i} ELSE Opened \ {i}
<1>1. \A j \in DOMAIN actions : actions[j] \in Rows
  OBVIOUS
<1>2. [actions[i] EXCEPT !.phase = p] \in Rows
  BY <1>1 DEF Rows
<1>3. /\ actions' \in Seq(Rows) /\ DOMAIN actions' = DOMAIN actions
      /\ \A j \in DOMAIN actions :
             actions'[j].phase = IF j = i THEN p ELSE actions[j].phase
  BY <1>1, <1>2 DEF WithPhase, Rows
<1> QED
  BY <1>3 DEF Opened

LEMMA JournalStill ==
    ASSUME UNCHANGED actions
    PROVE  Opened' = Opened /\ Remaining' = Remaining
  BY DEF Opened, Remaining, Succeeded, Having, Kind

\* The coroutine is suspended somewhere: the daemon serves, the run is running.
LEMMA CoroutineIsUp ==
    ASSUME Watched, at # "none"
    PROVE  phase = "serving" /\ ~recover /\ run.status # "paused"
  BY DEF Watched, Driven, WatchTypes

\* The steps of the coroutine that leave the journal's rows alone.
LEMMA CoroutineReadsWatch ==
    ASSUME Attended, Watched, CoroutineReads
    PROVE  Watched'
<1> USE DEF Moves, world, startup, journal
<1>1. /\ at # "none"
      /\ UNCHANGED <<actions, asked, todo, phase, recover, crashes, blocked>>
  BY DEF CoroutineReads, StepRefused, StepAdmitted, CheckStops, CommitCheckFails,
         PushCheckFails, PrCheckFails, PrepareReuses, PrepareConflicts, AdoptAtHead,
         SignatureVerified, PushAnswered, PrCreated, Answered, PushVerified,
         PushUnreadable, Uninstalled, Close, Leave
<1>2. Opened' = Opened /\ Remaining' = Remaining
  BY <1>1, JournalStill
<1>3. phase = "serving" /\ ~recover /\ run.status # "paused"
  BY <1>1, CoroutineIsUp
<1>4. /\ WatchTypes /\ OneOpen /\ Posts /\ Guarded /\ AskingOpen /\ Driven
      /\ crashes = 0 => Told
  BY DEF Watched
<1>5. OneOpen'
  BY <1>2, <1>4 DEF OneOpen
<1>6. ~PushUnreadable /\ ~Uninstalled
  BY DEF Attended, PushUnreadable, Uninstalled
<1>7. CASE StepRefused \/ CommitCheckFails \/ PushCheckFails \/ PrCheckFails \/ PrepareConflicts
  <2>1. /\ at \in {"entering", "checking"} /\ at' = "leaving" /\ UNCHANGED <<run, cur, settled>>
        /\ at = "entering" => disposition' = disposition
    BY <1>7 DEF StepRefused, CheckStops, CommitCheckFails, PushCheckFails, PrCheckFails,
                PrepareConflicts
  <2>2. ~settled /\ cur = 0
    BY <1>4, <2>1 DEF Posts
  <2>3. WatchTypes' /\ Posts' /\ Driven'
    BY <1>1, <1>2, <1>3, <1>4, <2>1, <2>2 DEF WatchTypes, Posts, Driven, AtWork
  <2>4. Guarded' /\ AskingOpen'
    BY <1>1, <1>2, <1>4, <2>1 DEF Guarded, AskingOpen, AtWork
  <2>5. crashes = 0 => Told'
    BY <1>1, <1>2, <1>3, <1>4, <2>1, <2>2 DEF Told, AtWork, Posts
  <2> QED
    BY <1>1, <1>3, <1>5, <2>3, <2>4, <2>5 DEF Watched, Restoring
<1>8. CASE StepAdmitted
  <2>1. /\ at = "entering" /\ at' = "checking" /\ UNCHANGED <<run, cur, settled, disposition>>
        /\ ~blocked /\ run.pos \in Remaining
    BY <1>8 DEF StepAdmitted
  <2>2. Opened = {} /\ cur = 0 /\ ~settled
    BY <1>3, <1>4, <2>1 DEF Guarded, Posts, AtWork
  <2>3. WatchTypes' /\ Posts' /\ Driven'
    BY <1>1, <1>2, <1>3, <1>4, <2>1, <2>2 DEF WatchTypes, Posts, Driven, AtWork, Remaining
  <2>4. Guarded' /\ AskingOpen'
    BY <1>1, <1>2, <1>4, <2>1, <2>2 DEF Guarded, AskingOpen
  <2>5. crashes = 0 => Told'
    BY <1>1, <1>2, <1>3, <1>4, <2>1, <2>2 DEF Told, AtWork
  <2> QED
    BY <1>1, <1>3, <1>5, <2>3, <2>4, <2>5 DEF Watched, Restoring
<1>9. CASE PrepareReuses
  <2>1. /\ at = "checking" /\ at' = "prepared" /\ UNCHANGED <<run, settled, disposition>>
        /\ cur' \in DOMAIN actions /\ actions[cur'].phase = "prepared"
    BY <1>9 DEF PrepareReuses, Prepared, OfStep
  <2>2. Opened = {} /\ ~settled
    BY <1>4, <2>1 DEF Posts
  <2>3. WatchTypes' /\ Posts' /\ Driven'
    BY <1>1, <1>2, <1>3, <1>4, <2>1, <2>2 DEF WatchTypes, Posts, Driven, AtWork
  <2>4. Guarded' /\ AskingOpen'
    BY <1>1, <1>2, <1>4, <2>1, <2>2 DEF Guarded, AskingOpen
  <2>5. crashes = 0 => Told'
    BY <1>1, <1>2, <1>3, <1>4, <2>1, <2>2 DEF Told, AtWork
  <2> QED
    BY <1>1, <1>3, <1>5, <2>3, <2>4, <2>5 DEF Watched, Restoring
<1>10. CASE AdoptAtHead \/ SignatureVerified \/ PushAnswered \/ PrCreated \/ PushVerified
  <2>1. /\ at \in {"prepared", "calling", "verifying"} /\ at' \in {"verifying", "landing"}
        /\ at' = "verifying" => at = "calling"
        /\ UNCHANGED <<run, cur, settled, disposition>>
    BY <1>10 DEF AdoptAtHead, SignatureVerified, PushAnswered, PrCreated, Answered, PushVerified
  <2>2. /\ ~settled /\ cur \in DOMAIN actions /\ Opened \subseteq {cur}
        /\ at \in {"calling", "verifying"} => cur \in Opened
    BY <1>4, <2>1 DEF Posts, AtWork, OneOpen, Opened
  <2>3. WatchTypes' /\ Posts' /\ Driven'
    BY <1>1, <1>2, <1>3, <1>4, <2>1, <2>2 DEF WatchTypes, Posts, Driven, AtWork
  <2>4. Guarded' /\ AskingOpen'
    BY <1>1, <1>2, <1>4, <2>1, <2>2 DEF Guarded, AskingOpen, AtWork
  <2>5. crashes = 0 => Told'
    BY <1>1, <1>2, <1>3, <1>4, <2>1, <2>2 DEF Told, AtWork
  <2> QED
    BY <1>1, <1>3, <1>5, <2>3, <2>4, <2>5 DEF Watched, Restoring
<1>11. CASE Close
  <2>1. /\ at = "closing" /\ at' = "leaving" /\ UNCHANGED <<run, cur, settled>>
        /\ disposition' = IF Remaining = {} THEN "completed" ELSE disposition
    BY <1>11 DEF Close
  <2>2. WatchTypes' /\ Posts' /\ Driven'
    BY <1>1, <1>2, <1>3, <1>4, <2>1 DEF WatchTypes, Posts, Driven, AtWork
  <2>3. Guarded' /\ AskingOpen'
    BY <1>1, <1>2, <1>4, <2>1 DEF Guarded, AskingOpen, AtWork
  <2>4. crashes = 0 => Told'
    BY <1>1, <1>2, <1>3, <1>4, <2>1 DEF Told, AtWork
  <2> QED
    BY <1>1, <1>3, <1>5, <2>2, <2>3, <2>4 DEF Watched, Restoring
<1>12. CASE Leave
  <2>1. /\ at = "leaving" /\ cur' = 0 /\ settled' = FALSE /\ UNCHANGED disposition
        /\ at' = IF settled /\ run.status = "running" THEN "entering" ELSE "none"
        /\ run' = IF settled THEN run ELSE [run EXCEPT !.status = "paused"]
    BY <1>12 DEF Leave
  <2>2. run' \in Runs /\ (run' = run \/ at' = "none")
    BY <1>4, <2>1, RunSteps DEF WatchTypes
  <2>3. 0 \notin Opened
    BY <1>4 DEF Opened, WatchTypes
  <2>4. WatchTypes' /\ Posts' /\ Driven'
    BY <1>1, <1>2, <1>3, <1>4, <2>1, <2>2 DEF WatchTypes, Posts, Driven, AtWork
  <2>5. Guarded' /\ AskingOpen'
    BY <1>1, <1>2, <1>3, <1>4, <2>1, <2>3 DEF Guarded, AskingOpen, AtWork
  <2>6. crashes = 0 => Told'
    BY <1>1, <1>2, <1>3, <1>4, <2>1 DEF Told, AtWork, WatchTypes
  <2> QED
    BY <1>1, <1>3, <1>5, <2>4, <2>5, <2>6 DEF Watched, Restoring
<1> QED
  BY <1>6, <1>7, <1>8, <1>9, <1>10, <1>11, <1>12 DEF CoroutineReads

\* The steps of the coroutine that append or record an attempt.
LEMMA CoroutineWritesWatch ==
    ASSUME Attended, Watched, Coroutine, ~CoroutineReads
    PROVE  Watched'
<1> USE DEF Moves, world, startup, journal
<1>0. /\ WatchTypes /\ OneOpen /\ Posts /\ Guarded /\ AskingOpen /\ Driven
      /\ crashes = 0 => Told
  BY DEF Watched
<1>1. CASE PrepareAppends
  <2> DEFINE row == [kind |-> Chain[run.pos], step |-> run.seq, phase |-> "prepared"]
  <2>1. /\ at = "checking" /\ at' = "prepared" /\ actions' = Append(actions, row)
        /\ cur' = Len(actions) + 1
        /\ UNCHANGED <<run, settled, disposition, blocked, asked, todo, phase, recover, crashes>>
    BY <1>1 DEF PrepareAppends
  <2>2. Chain[run.pos] \in {"commit", "push", "pr"} /\ run.seq \in Nat
    BY <1>0, <2>1, ConstantsAssumption DEF Posts, WatchTypes, Runs
  <2>3. row \in Rows
    BY <2>2 DEF Rows, Phases
  <2>4. /\ actions \in Seq(Rows) /\ actions' \in Seq(Rows)
        /\ DOMAIN actions' = DOMAIN actions \cup {cur'} /\ cur' \in Nat
        /\ \A i \in DOMAIN actions : actions'[i] = actions[i]
        /\ actions'[cur'] = row /\ cur' \notin DOMAIN actions
    BY <1>0, <2>1, <2>3 DEF WatchTypes
  <2>5. Opened = {}
    BY <1>0, <2>1 DEF Posts
  <2>6. actions'[cur'].phase = "prepared"
    BY <2>4
  <2>7. Opened' = {}
    BY <2>4, <2>5, <2>6 DEF Opened, Open
  <2> HIDE DEF row
  <2>8. phase = "serving" /\ ~recover /\ run.status # "paused" /\ ~settled
    BY <1>0, <2>1, CoroutineIsUp DEF Posts
  <2>9. WatchTypes' /\ Posts' /\ Driven'
    BY <1>0, <2>1, <2>4, <2>6, <2>7, <2>8 DEF WatchTypes, Posts, Driven, AtWork
  <2>10. OneOpen' /\ Guarded' /\ AskingOpen'
    BY <1>0, <2>1, <2>5, <2>7 DEF OneOpen, Guarded, AskingOpen
  <2>11. crashes = 0 => Told'
    BY <1>0, <2>1, <2>7, <2>8 DEF Told, AtWork
  <2> QED
    BY <2>1, <2>8, <2>9, <2>10, <2>11 DEF Watched, Restoring
<1>2. CASE AnswerError
  <2>1. /\ at = "calling" /\ at' = "classifying"
        /\ UNCHANGED <<actions, disposition, run, cur, settled, blocked, asked, phase, todo,
                       recover, crashes>>
    BY <1>2 DEF AnswerError
  <2>2. Opened' = Opened /\ Remaining' = Remaining
    BY <2>1, JournalStill
  <2>3. phase = "serving" /\ ~recover /\ run.status # "paused" /\ ~settled
    BY <1>0, <2>1, CoroutineIsUp DEF Posts
  <2>4. WatchTypes' /\ Posts' /\ Driven'
    BY <1>0, <2>1, <2>2, <2>3 DEF WatchTypes, Posts, Driven, AtWork
  <2>5. OneOpen' /\ Guarded' /\ AskingOpen'
    BY <1>0, <2>1, <2>2 DEF OneOpen, Guarded, AskingOpen, AtWork
  <2>6. crashes = 0 => Told'
    BY <1>0, <2>1, <2>2, <2>3 DEF Told, AtWork
  <2> QED
    BY <2>1, <2>3, <2>4, <2>5, <2>6 DEF Watched, Restoring
<1>3. CASE MarkExecuting \/ PushConflict \/ PushMismatch \/ Land \/ ClassifyFailed
           \/ ClassifyUnknown \/ ClassifyCompleted
  <2>1. PICK p \in Phases :
        /\ at \in {"prepared", "calling", "verifying", "classifying", "landing"}
        /\ actions' = WithPhase(cur, p)
        /\ UNCHANGED <<cur, asked, phase, todo, recover, crashes>>
        /\ \/ /\ p = "executing" /\ at = "prepared" /\ at' = "calling"
              /\ UNCHANGED <<run, settled, disposition, blocked>>
           \/ /\ p = "failed" /\ at' = "leaving" /\ at \in {"calling", "classifying"}
              /\ UNCHANGED <<run, settled, blocked>>
           \/ /\ p = "needs_reconciliation" /\ at' = "leaving" /\ blocked' = TRUE
              /\ at \in {"verifying", "classifying"}
              /\ disposition' = "unresolved" /\ UNCHANGED <<run, settled>>
           \/ /\ p = "succeeded" /\ at' = "closing" /\ UNCHANGED <<disposition, blocked>>
              /\ at \in {"classifying", "landing"}
              /\ \/ RunMovesOn /\ settled' = TRUE
                 \/ UNCHANGED <<run, settled>>
    <3>1. {"executing", "failed", "needs_reconciliation", "succeeded"} \subseteq Phases
      BY DEF Phases, Open
    <3>2. CASE MarkExecuting
      BY <3>1, <3>2 DEF MarkExecuting
    <3>3. CASE PushConflict \/ ClassifyFailed
      BY <3>1, <3>3 DEF PushConflict, ClassifyFailed, Fail
    <3>4. CASE PushMismatch \/ ClassifyUnknown
      BY <3>1, <3>4 DEF PushMismatch, ClassifyUnknown, Flag
    <3>5. CASE Land \/ ClassifyCompleted
      BY <3>1, <3>5 DEF Land, ClassifyCompleted
    <3> QED
      BY <1>3, <3>2, <3>3, <3>4, <3>5
  <2>2. /\ cur \in DOMAIN actions /\ Opened \subseteq {cur} /\ ~settled
        /\ at \in {"calling", "verifying", "classifying"} => cur \in Opened
    BY <1>0, <2>1 DEF Posts, AtWork, OneOpen, Opened
  <2>3. /\ actions' \in Seq(Rows) /\ DOMAIN actions' = DOMAIN actions
        /\ Opened' = IF p \in Open THEN Opened \cup {cur} ELSE Opened \ {cur}
    BY <1>0, <2>1, <2>2, OpenedAfter DEF WatchTypes
  <2>4. Opened' = IF p \in {"executing", "needs_reconciliation"} THEN {cur} ELSE {}
    BY <2>1, <2>2, <2>3 DEF Open, Phases
  <2>5. phase = "serving" /\ ~recover /\ run.status # "paused"
    BY <2>1, CoroutineIsUp
  <2>6. run' \in Runs /\ run'.status # "paused"
    BY <1>0, <2>1, <2>5, RunSteps DEF WatchTypes
  <2>7. \A r \in Requests : asked[r] = Idle
    BY <1>0, <2>2 DEF AskingOpen
  <2>8. WatchTypes'
    BY <1>0, <2>1, <2>3, <2>6 DEF WatchTypes
  <2>9. Posts'
    BY <1>0, <2>1, <2>2, <2>3, <2>4 DEF Posts, AtWork
  <2>10. Driven' /\ AskingOpen'
    BY <2>1, <2>5, <2>6, <2>7 DEF Driven, AskingOpen
  <2>11. OneOpen'
    BY <2>4 DEF OneOpen
  <2>12. Guarded'
    BY <2>1, <2>4 DEF Guarded, AtWork
  <2>13. crashes = 0 => Told'
    BY <1>0, <2>1, <2>2, <2>4, <2>5 DEF Told, AtWork
  <2> QED
    BY <2>1, <2>5, <2>8, <2>9, <2>10, <2>11, <2>12, <2>13 DEF Watched, Restoring
<1> QED
  BY <1>1, <1>2, <1>3 DEF Coroutine, CoroutineReads

\* A remote performs what was asked of it: nothing the daemon keeps changes.
LEMMA EffectLandsWatch ==
    ASSUME Watched, NEW i, EffectLands(i)
    PROVE  Watched'
<1>1. UNCHANGED <<journal, run, process, blocked, asked, startup>>
  BY DEF EffectLands
<1>2. Opened' = Opened /\ Remaining' = Remaining
  BY <1>1, JournalStill DEF journal
<1> QED
  BY <1>1, <1>2 DEF journal, process, startup, Watched, WatchTypes, OneOpen, Posts, Guarded,
                    AskingOpen, Driven, Restoring, Told

\* One request at a time: an operator's step is about an attempt nobody performs.
LEMMA OperatorWatch ==
    ASSUME Lone, Attended, may \in Conditions, Watched, Operator
    PROVE  Watched'
<1> USE DEF world, startup, journal, process
<1>0. /\ WatchTypes /\ OneOpen /\ Posts /\ Guarded /\ AskingOpen /\ Driven
      /\ crashes = 0 => Told
  BY DEF Watched
<1>1. CASE Confirm
  <2>1. /\ phase = "serving" /\ at = "none" /\ ~blocked /\ disposition' = "authorized"
        /\ UNCHANGED <<actions, blocked, asked, cur, settled, todo, phase, recover, crashes>>
        /\ \/ run.status # "paused" /\ UNCHANGED <<run, at>>
           \/ /\ run.status = "paused" /\ at' = "entering"
              /\ run' = [run EXCEPT !.seq = run.seq, !.status = "running"]
    BY <1>1 DEF Confirm, Reauthorize, Resume, Previewed, Authorizes, ContinuesIfPaused, Starts
  <2>2. Opened = {} /\ cur = 0 /\ ~settled
    BY <1>0, <2>1 DEF Guarded, Posts, AtWork
  <2>3. Opened' = {}
    BY <2>1, <2>2, JournalStill
  <2>4. run' \in Runs /\ (run.status = "paused" => run'.status = "running")
    BY <1>0, <2>1, RunSteps DEF WatchTypes
  <2>5. WatchTypes' /\ Posts' /\ Driven'
    BY <1>0, <2>1, <2>2, <2>3, <2>4 DEF WatchTypes, Posts, Driven, AtWork
  <2>6. OneOpen' /\ Guarded' /\ AskingOpen'
    BY <1>0, <2>1, <2>2, <2>3 DEF OneOpen, Guarded, AskingOpen
  <2>7. crashes = 0 => Told'
    BY <1>0, <2>1, <2>2, <2>3 DEF Told, AtWork
  <2> QED
    BY <2>1, <2>5, <2>6, <2>7 DEF Watched, Restoring
<1>2. ~Retry
  BY DEF Attended, Retry
<1>3. ASSUME NEW r \in Requests,
             \/ \E d \in may.decisions, i \in DOMAIN actions : Ask(r, d, i)
             \/ Observe(r) \/ Leaves(r)
      PROVE  Watched'
  <2>1. /\ UNCHANGED <<actions, disposition, run, at, cur, settled, blocked, todo, phase,
                       recover, crashes>>
    BY <1>3 DEF Ask, Observe, Leaves, Decided
  <2>2. Opened' = Opened /\ Remaining' = Remaining
    BY <2>1, JournalStill
  <2>3. AskingOpen' /\ asked' \in [Requests -> Questions]
    <3>1. ASSUME NEW d \in may.decisions, NEW i \in DOMAIN actions, Ask(r, d, i)
          PROVE  AskingOpen' /\ asked' \in [Requests -> Questions]
      <4>1. i \in Opened /\ i # cur /\ phase = "serving"
        BY <3>1 DEF Ask, Attended, Opened
      <4>2. asked' = [asked EXCEPT ![r] = [decision |-> d, action |-> i, seen |-> "none"]]
        BY <3>1 DEF Ask
      <4>3. AskingOpen'
        BY <1>0, <2>1, <2>2, <4>1, <4>2 DEF AskingOpen, WatchTypes
      <4>4. [decision |-> d, action |-> i, seen |-> "none"] \in Questions
        BY <1>0, ConstantsAssumption DEF WatchTypes, Questions
      <4> QED
        BY <1>0, <4>2, <4>3, <4>4 DEF WatchTypes
    <3>2. CASE Observe(r)
      <4>1. PICK o \in Observations(asked[r].action) :
                /\ asked[r] # Idle /\ asked' = [asked EXCEPT ![r].seen = o]
        BY <3>2 DEF Observe
      <4>2. o \in {"unknown", "completed", "not-executed"}
        BY <4>1 DEF Observations
      <4>3. asked' \in [Requests -> Questions]
        BY <1>0, <4>1, <4>2 DEF WatchTypes, Questions
      <4>4. \A q \in Requests : /\ asked'[q].action = asked[q].action
                                /\ q # r => asked'[q] = asked[q]
        BY <1>0, <4>1 DEF WatchTypes, Questions
      <4> QED
        BY <1>0, <2>1, <2>2, <4>1, <4>3, <4>4 DEF AskingOpen
    <3>3. CASE Leaves(r)
      <4>1. asked' = [asked EXCEPT ![r] = Idle]
        BY <3>3 DEF Leaves, Decided
      <4>2. Idle \in Questions
        BY DEF Idle, Questions
      <4> QED
        BY <1>0, <2>1, <2>2, <4>1, <4>2 DEF AskingOpen, WatchTypes
    <3> QED
      BY <1>3, <3>1, <3>2, <3>3
  <2>4. WatchTypes' /\ Posts' /\ Driven' /\ OneOpen' /\ Guarded'
    BY <1>0, <2>1, <2>2, <2>3 DEF WatchTypes, Posts, Driven, OneOpen, Guarded
  <2>5. crashes = 0 => Told'
    BY <1>0, <2>1, <2>2 DEF Told
  <2> QED
    BY <2>1, <2>3, <2>4, <2>5 DEF Watched, Restoring
<1>4. ASSUME NEW r \in Requests,
             Adopts(r) \/ AllowsRetry(r) \/ Abandons(r) \/ AbandonsUnknown(r)
      PROVE  Watched'
  <2> DEFINE i == asked[r].action
  <2>1. /\ UNCHANGED <<run, at, cur, settled, todo, phase, recover, crashes>>
        /\ asked' = [asked EXCEPT ![r] = Idle] /\ asked[r] # Idle
    BY <1>4 DEF Adopts, AllowsRetry, Abandons, AbandonsUnknown, Decided, Idle
  <2>2. PICK p \in {"succeeded", "failed", "needs_reconciliation"} :
            /\ actions' = WithPhase(i, p)
            /\ p = "needs_reconciliation" => disposition' = "unresolved" /\ UNCHANGED blocked
            /\ p # "needs_reconciliation" => blocked' = FALSE
    BY <1>4 DEF Adopts, AllowsRetry, Abandons, AbandonsUnknown, Fail
  <2>3. phase = "serving" /\ i \in Opened /\ i # cur /\ i \in DOMAIN actions
    BY <1>0, <2>1 DEF AskingOpen, Opened
  <2> HIDE DEF i
  <2>4. Opened = {i}
    BY <1>0, <2>3 DEF OneOpen
  <2>5. /\ blocked /\ at \notin AtWork \cup {"checking", "prepared"}
        /\ crashes = 0 => at \notin {"entering", "closing"} /\ ~settled
    BY <1>0, <2>3, <2>4 DEF Guarded, Posts, AtWork, Told
  <2>6. /\ actions' \in Seq(Rows) /\ DOMAIN actions' = DOMAIN actions
        /\ Opened' = IF p \in Open THEN Opened \cup {i} ELSE Opened \ {i}
    <3>1. p \in Phases
      BY DEF Phases, Open
    <3> QED
      BY <1>0, <2>2, <2>3, <3>1, OpenedAfter DEF WatchTypes
  <2>7. Opened' = IF p = "needs_reconciliation" THEN {i} ELSE {}
    BY <2>4, <2>6 DEF Open
  <2>8. asked' \in [Requests -> Questions] /\ \A q \in Requests : asked'[q] = Idle
    <3>1. Idle \in Questions
      BY DEF Idle, Questions
    <3> QED
      BY <1>0, <2>1, <3>1 DEF WatchTypes, Lone
  <2>9. blocked' \in BOOLEAN /\ (p = "needs_reconciliation" => blocked')
    BY <2>2, <2>5
  <2>10. WatchTypes' /\ Posts' /\ Driven'
    BY <1>0, <2>1, <2>5, <2>6, <2>8, <2>9 DEF WatchTypes, Posts, Driven, AtWork
  <2>11. OneOpen' /\ Guarded' /\ AskingOpen'
    BY <2>7, <2>8, <2>9 DEF OneOpen, Guarded, AskingOpen
  <2>12. crashes = 0 => Told'
    BY <1>0, <2>1, <2>2, <2>3, <2>5, <2>7 DEF Told, AtWork
  <2> QED
    BY <2>1, <2>3, <2>10, <2>11, <2>12 DEF Watched, Restoring
<1> QED
  BY <1>1, <1>2, <1>3, <1>4 DEF Operator

\* Startup closes the attempt it has to classify, or flags it and blocks; and a
\* run is recovered, or paused.
LEMMA RestoreWatch ==
    ASSUME Watched, Restore
    PROVE  Watched'
<1> USE DEF world, startup, journal, process
<1>0. /\ WatchTypes /\ OneOpen /\ Posts /\ Guarded /\ AskingOpen /\ Driven /\ Restoring
      /\ crashes = 0 => Told
  BY DEF Watched
<1>1. ASSUME NEW i \in todo, RestoreCompleted(i) \/ RestoreFailed(i) \/ RestoreUnknown(i)
      PROVE  Watched'
  <2>1. /\ phase = "restoring" /\ todo' = todo \ {i}
        /\ UNCHANGED <<run, at, cur, settled, asked, phase, recover, crashes>>
    BY <1>1 DEF RestoreCompleted, RestoreFailed, RestoreUnknown, RestoreNext
  <2>2. PICK p \in {"succeeded", "failed", "needs_reconciliation"} :
            /\ actions' = WithPhase(i, p)
            /\ IF p = "needs_reconciliation" THEN blocked' = TRUE ELSE UNCHANGED blocked
    BY <1>1 DEF RestoreCompleted, RestoreFailed, RestoreUnknown, Fail, Flag
  <2>3. i \in DOMAIN actions /\ i \in Opened /\ todo \subseteq Opened
    BY <1>0, <2>1 DEF Restoring, Opened, WatchTypes
  <2>4. /\ actions' \in Seq(Rows) /\ DOMAIN actions' = DOMAIN actions
        /\ Opened' = IF p \in Open THEN Opened \cup {i} ELSE Opened \ {i}
    <3>1. p \in Phases
      BY DEF Phases, Open
    <3> QED
      BY <1>0, <2>2, <2>3, <3>1, OpenedAfter DEF WatchTypes
  <2>5. Opened = {i} /\ Opened' = IF p = "needs_reconciliation" THEN {i} ELSE {}
    BY <1>0, <2>3, <2>4 DEF Open, OneOpen
  <2>6. at = "none" /\ cur = 0 /\ ~settled /\ crashes # 0
    BY <1>0, <2>1 DEF Driven, Posts, Told
  <2>7. blocked' \in BOOLEAN /\ (p = "needs_reconciliation" => blocked')
    BY <1>0, <2>2 DEF WatchTypes
  <2>8. WatchTypes' /\ Posts' /\ Driven'
    BY <1>0, <2>1, <2>3, <2>4, <2>6, <2>7 DEF WatchTypes, Posts, Driven, AtWork
  <2>9. Restoring'
    BY <2>1, <2>3, <2>5 DEF Restoring, Opened
  <2>10. OneOpen' /\ Guarded' /\ AskingOpen'
    BY <1>0, <2>1, <2>5, <2>7 DEF OneOpen, Guarded, AskingOpen
  <2> QED
    BY <2>1, <2>6, <2>8, <2>9, <2>10 DEF Watched
<1>2. CASE RestoreEnds
  <2>1. /\ phase = "restoring" /\ phase' = "serving" /\ todo = {}
        /\ UNCHANGED <<actions, run, at, cur, settled, blocked, asked, todo, recover, crashes>>
    BY <1>2 DEF RestoreEnds
  <2>2. Opened' = Opened /\ crashes # 0 /\ at = "none"
    BY <1>0, <2>1, JournalStill DEF Told, Driven
  <2>3. WatchTypes' /\ Posts' /\ Driven' /\ OneOpen'
    BY <1>0, <2>1, <2>2 DEF WatchTypes, Posts, Driven, AtWork, OneOpen
  <2>4. Guarded' /\ AskingOpen' /\ Restoring'
    BY <1>0, <2>1, <2>2 DEF Guarded, AskingOpen, Restoring
  <2> QED
    BY <2>1, <2>2, <2>3, <2>4 DEF Watched
<1>3. CASE RecoverAdopts \/ RecoverPauses
  <2>1. /\ phase = "serving" /\ recover /\ recover' = FALSE
        /\ UNCHANGED <<actions, cur, settled, blocked, asked, phase, todo, crashes>>
        /\ \/ RunMovesOn /\ at' \in {"none", "entering"}
           \/ run' = [run EXCEPT !.status = "paused"] /\ UNCHANGED at
    BY <1>3 DEF RecoverAdopts, RecoverPauses, Recovers
  <2>2. Opened' = Opened /\ crashes # 0 /\ at = "none" /\ cur = 0 /\ ~settled
    BY <1>0, <2>1, JournalStill DEF Told, Driven, Posts
  <2>3. run' \in Runs /\ (run'.status = "paused" => at' = "none")
    BY <1>0, <2>1, <2>2, RunSteps DEF WatchTypes
  <2>4. WatchTypes' /\ Posts' /\ Driven' /\ OneOpen'
    BY <1>0, <2>1, <2>2, <2>3 DEF WatchTypes, Posts, Driven, AtWork, OneOpen
  <2>5. Guarded' /\ AskingOpen' /\ Restoring'
    BY <1>0, <2>1, <2>2 DEF Guarded, AskingOpen, Restoring, AtWork
  <2> QED
    BY <2>1, <2>2, <2>4, <2>5 DEF Watched
<1> QED
  BY <1>1, <1>2, <1>3 DEF Restore

\* The first restart finds what is open under a disposition startup looks into.
LEMMA CrashWatch ==
    ASSUME Watched, Crash, crashes = 0
    PROVE  Watched'
<1>0. /\ WatchTypes /\ OneOpen /\ Posts /\ Guarded /\ AskingOpen /\ Driven /\ Told
  BY DEF Watched
<1>1. /\ phase' = "restoring" /\ at' = "none" /\ cur' = 0 /\ settled' = FALSE
      /\ blocked' = FALSE /\ asked' = [r \in Requests |-> Idle] /\ crashes' = 1
      /\ todo' = IF Unfinished THEN Opened ELSE {}
      /\ recover' = (run.status = "running")
      /\ UNCHANGED <<actions, run>>
  BY DEF Crash, Opened, journal
<1>2. Opened' = Opened
  BY <1>1, JournalStill
<1>3. Opened # {} => Unfinished
  BY <1>0 DEF Told, Unfinished, AtWork
<1>4. asked' \in [Requests -> Questions] /\ \A r \in Requests : asked'[r] = Idle
  <2>1. Idle \in Questions
    BY DEF Idle, Questions
  <2> QED
    BY <1>1, <2>1
<1>5. todo' = Opened
  BY <1>1, <1>3
<1>6. WatchTypes'
  BY <1>0, <1>1, <1>4, <1>5 DEF WatchTypes, Opened
<1>7. Posts' /\ OneOpen' /\ AskingOpen'
  BY <1>0, <1>1, <1>2, <1>4 DEF Posts, OneOpen, AskingOpen, AtWork
<1>8. Driven'
  BY <1>1 DEF Driven
<1>9. Guarded' /\ Restoring'
  BY <1>1, <1>2, <1>5 DEF Guarded, Restoring, Opened
<1> QED
  BY <1>1, <1>6, <1>7, <1>8, <1>9 DEF Watched

\* Only a restart counts as one.
LEMMA CrashesStay == Next /\ ~Crash => crashes' = crashes
BY DEF Next, vars, journal, world, process, startup, Coroutine, StepRefused,
       StepAdmitted, CheckStops, CommitCheckFails, PushCheckFails, PrCheckFails,
       PrepareReuses, PrepareAppends, PrepareConflicts, AdoptAtHead, MarkExecuting,
       SignatureVerified, PushAnswered, PrCreated, Answered, AnswerError,
       PushConflict, PushVerified, PushMismatch, PushUnreadable, Land, Uninstalled,
       Close, ClassifyFailed, ClassifyUnknown, ClassifyCompleted, Leave,
       Operator, Confirm, Reauthorize, Resume, Authorizes, Retry, Ask, Observe,
       Adopts, Leaves, AllowsRetry, Abandons, AbandonsUnknown, Decided,
       Restore, RestoreCompleted, RestoreFailed, RestoreUnknown, RestoreNext,
       RestoreEnds, RecoverAdopts, RecoverPauses, Recovers, EffectLands

\* The steps before the first restart and after it.
LEMMA NextWatch ==
    ASSUME Lone, may \in Conditions, crashes \in Nat, Watch, [Next]_vars
    PROVE  (may \in Conditions /\ crashes \in Nat /\ Watch)'
<1> USE DEF world, startup, journal, process
<1>1. may' = may
  BY MayStays
<1>2. crashes' \in Nat /\ crashes <= crashes'
      /\ (Crash => crashes' = crashes + 1)
  <2>1. CASE Crash
    BY <2>1 DEF Crash
  <2>2. CASE Next /\ ~Crash
    BY <2>2, CrashesStay
  <2>3. CASE UNCHANGED vars /\ ~Crash
    BY <2>3 DEF vars
  <2> QED
    BY <2>1, <2>2, <2>3
<1>3. Attended' = Attended
  BY <1>1 DEF Attended
<1>4. ASSUME Attended, crashes' <= 1
      PROVE  Watched'
  <2>1. Watched
    BY <1>2, <1>4 DEF Watch
  <2>2. CASE Coroutine
    BY <1>4, <2>1, <2>2, CoroutineReadsWatch, CoroutineWritesWatch
  <2>3. CASE Operator
    BY <1>4, <2>1, <2>3, OperatorWatch
  <2>4. CASE Restore
    BY <2>1, <2>4, RestoreWatch
  <2>5. CASE Crash
    BY <1>2, <1>4, <2>1, <2>5, CrashWatch
  <2>6. CASE \E i \in calls : EffectLands(i)
    BY <2>1, <2>6, EffectLandsWatch
  <2>7. CASE UNCHANGED vars
    <3>1. Opened' = Opened /\ Remaining' = Remaining
      BY <2>7, JournalStill DEF vars
    <3> QED
      BY <2>1, <2>7, <3>1 DEF vars, Watched, WatchTypes, OneOpen, Posts, Guarded, AskingOpen,
                              Driven, Told, Restoring
  <2> QED
    BY <2>2, <2>3, <2>4, <2>5, <2>6, <2>7 DEF Next
<1> QED
  BY <1>1, <1>2, <1>3, <1>4 DEF Watch

LEMMA InitWatch == Init => may \in Conditions /\ crashes \in Nat /\ Watch
<1> SUFFICES ASSUME Init
             PROVE  may \in Conditions /\ crashes \in Nat /\ Watched
  BY DEF Watch
<1>1. Opened = {} /\ actions \in Seq(Rows)
  BY DEF Init, Opened
<1>2. asked \in [Requests -> Questions] /\ \A r \in Requests : asked[r] = Idle
  <2>1. Idle \in Questions
    BY DEF Idle, Questions
  <2> QED
    BY <2>1 DEF Init
<1>3. run \in Runs
  BY DEF Init, Runs
<1>4. WatchTypes
  BY <1>1, <1>2, <1>3 DEF Init, WatchTypes
<1>5. OneOpen /\ Posts /\ Guarded /\ AskingOpen /\ Driven /\ Restoring /\ Told
  BY <1>1, <1>2 DEF Init, OneOpen, Posts, Guarded, AskingOpen, Driven, Restoring, Told, AtWork
<1> QED
  BY <1>4, <1>5 DEF Init, Watched

\* Up to and including the first restart, with one reconcile request at a time
\* and every attempt run to its classification, an attempt whose outcome nobody
\* is establishing blocks the workspace: whatever reconciliation finds or decides
\* (ship.py, reconcile and restore), and however late the remote performs a call.
THEOREM UnknownAttemptsBlock ==
    ASSUME Lone
    PROVE  Spec => [](crashes <= 1 => UnknownBlocks)
<1> DEFINE W == may \in Conditions /\ crashes \in Nat /\ Watch
<1>1. Init => W
  BY InitWatch
<1>2. W /\ [Next]_vars => W'
  BY NextWatch
<1>3. W => (crashes <= 1 => UnknownBlocks)
  <2> SUFFICES ASSUME W, crashes <= 1, Attended, phase = "serving",
                      NEW i \in DOMAIN actions, actions[i].phase \in Open, i # cur
               PROVE  blocked
    BY DEF UnknownBlocks
  <2>1. Guarded /\ i \in Opened
    BY DEF Watch, Watched, Opened
  <2> QED
    BY <2>1 DEF Guarded
<1> QED
  BY <1>1, <1>2, <1>3, PTL DEF Spec
=============================================================================
