----------------------------- MODULE ReviewProofs -----------------------------
(***************************************************************************)
(* The workspace guard, and the reviews under it, for any number of host   *)
(* operations, reviews, turns, attempts and stops.                         *)
(*                                                                         *)
(* First the guard by itself, with comments handed back or not and with    *)
(* teardowns that fail.  A hold is given back by name, so exclusion rests  *)
(* on the reviews, which share one name, never overlapping.  The guard     *)
(* assumes that; the second part proves it of the reviews: what keeps a    *)
(* review from starting inside another one's loop-back is the session of   *)
(* an older run, and that a run with a review step has no loop-back.  The  *)
(* third part follows a verdict from the attempt it is asked for to the    *)
(* row, the iterations and the run.                                        *)
(***************************************************************************)
EXTENDS Review, TLAPS

InHost == {"capturing", "working", "exiting"}

\* At most one review is anywhere but idle, and reviews stay on their path.
OneReview ==
    /\ \A r \in Reviews : at[r] \in InHost \cup {"idle", "loopback"}
    /\ \A r, q \in Reviews : at[r] # "idle" /\ at[q] # "idle" => r = q

Inv == TypeOK /\ HostOwns /\ OneReview

LEMMA InitInv == Init => Inv
  BY CallersAssumption
  DEF Init, Inv, TypeOK, HostOwns, HostWork, OneReview, Places, Owners, Callers

\* Owner names tell callers apart, but for the reviews.
LEMMA Names ==
    ASSUME NEW c \in Callers, NEW d \in Callers, Name(c) = Name(d)
    PROVE  c = d \/ (c \in Reviews /\ d \in Reviews)
  BY CallersAssumption DEF Name

LEMMA OwnerTypes ==
    ASSUME NEW c \in Callers, NEW kind \in {"host", "agent"}
    PROVE  [name |-> Name(c), kind |-> kind] \in Owners /\ Free \in Owners
  BY DEF Owners

\* Taking ownership while nobody has it.
LEMMA HoldInv ==
    ASSUME Inv, NEW c \in Callers, NEW kind \in {"host", "agent"},
           NEW place \in InHost, Hold(c, kind, place),
           c \in Hosts => kind = "host",
           c = Step \/ c \in Hosts
    PROVE  Inv'
<1>1. /\ owner = Free /\ at \in [Callers -> Places] /\ place \in Places
      /\ at' = [at EXCEPT ![c] = place]
      /\ owner' = [name |-> Name(c), kind |-> kind]
      /\ UNCHANGED <<blocked, archived>>
  BY DEF Inv, TypeOK, Hold, Available, Moves, InHost, Places
<1>2. HostWork = {}
  BY <1>1 DEF Inv, HostOwns, Free
<1>3. TypeOK'
  BY <1>1, OwnerTypes DEF Inv, TypeOK
<1>4. OneReview'
  BY <1>1, CallersAssumption DEF Inv, OneReview, Callers
<1>5. HostOwns'
  BY <1>1, <1>2, CallersAssumption DEF HostOwns, HostWork, Callers, InHost
<1> QED
  BY <1>3, <1>4, <1>5 DEF Inv

LEMMA ReviewStartsInv ==
    ASSUME Inv, NEW c \in Reviews, ReviewStarts(c) PROVE Inv'
<1>1. /\ owner = Free /\ at \in [Callers -> Places] /\ c \in Callers
      /\ at' = [at EXCEPT ![c] = "capturing"]
      /\ owner' = [name |-> Name(c), kind |-> "host"]
      /\ UNCHANGED <<blocked, archived>>
      /\ \A r \in Reviews : at[r] \notin {"working", "loopback"}
  BY DEF Inv, TypeOK, ReviewStarts, Hold, Available, Moves, Callers
<1>2. HostWork = {}
  BY <1>1 DEF Inv, HostOwns, Free
<1>3. \A r \in Reviews : at[r] = "idle"
  BY <1>1, <1>2 DEF Inv, OneReview, HostWork, InHost
<1>4. TypeOK'
  BY <1>1, OwnerTypes DEF Inv, TypeOK, Places
<1>5. OneReview'
  BY <1>1, <1>3 DEF OneReview, InHost, Callers
<1>6. HostOwns'
  BY <1>1, <1>2, CallersAssumption DEF HostOwns, HostWork, Callers
<1> QED
  BY <1>4, <1>5, <1>6 DEF Inv

\* Giving a hold back by name: whoever is at work under that name is the
\* caller itself, or another review, and there is no other review.
LEMMA LeaveInv ==
    ASSUME Inv, NEW c \in Callers, c \notin Turns, NEW to,
           to = "idle" \/ (to = "loopback" /\ c \in Reviews),
           at[c] # "idle", at' = [at EXCEPT ![c] = to],
           Release(c), UNCHANGED <<blocked, archived>>
    PROVE  Inv'
<1>1. at \in [Callers -> Places] /\ to \in Places /\ owner \in Owners
  BY DEF Inv, TypeOK, Places
<1>2. TypeOK'
  BY <1>1, OwnerTypes DEF Inv, TypeOK, Release, Owners
<1>3. OneReview'
  BY <1>1 DEF Inv, OneReview, Callers
<1>4. ASSUME NEW d \in HostWork'
      PROVE  owner' = [name |-> Name(d), kind |-> "host"]
  <2>1. d \in Callers /\ d # c /\ d \in HostWork
    BY <1>1, <1>4 DEF HostWork, Callers
  <2>2. owner = [name |-> Name(d), kind |-> "host"]
    BY <2>1 DEF Inv, HostOwns
  <2>3. Name(d) # Name(c)
    BY <2>1, Names DEF Inv, OneReview, HostWork
  <2> QED
    BY <2>2, <2>3 DEF Release
<1>5. HostOwns'
  BY <1>4 DEF HostOwns
<1> QED
  BY <1>2, <1>3, <1>5 DEF Inv

\* Moving within a hold, or outside any.
LEMMA WalkInv ==
    ASSUME Inv, NEW c \in Reviews \cup Turns, NEW to \in Places,
           at' = [at EXCEPT ![c] = to],
           c \in Reviews => at[c] \in InHost /\ to \in InHost,
           UNCHANGED <<owner, blocked, archived>>
    PROVE  Inv'
<1>1. at \in [Callers -> Places] /\ c \in Callers
  BY DEF Inv, TypeOK, Callers
<1>2. TypeOK'
  BY <1>1 DEF Inv, TypeOK
<1>3. OneReview'
  BY <1>1, CallersAssumption DEF Inv, OneReview, Callers, InHost
<1>4. HostWork' = HostWork
  BY <1>1, CallersAssumption DEF HostWork, Callers, InHost
<1>5. HostOwns'
  BY <1>4 DEF Inv, HostOwns
<1> QED
  BY <1>2, <1>3, <1>5 DEF Inv

LEMMA CleanupInv ==
    ASSUME Inv, CleanupBegins \/ CleanupEnds PROVE Inv'
<1>0. at \in [Callers -> Places] /\ Cleanup \in Callers
  BY DEF Inv, TypeOK, Callers
<1>1. CASE CleanupBegins
  <2>1. /\ owner.kind # "host" /\ at' = [at EXCEPT ![Cleanup] = "working"]
        /\ owner' = [name |-> Name(Cleanup), kind |-> "host"]
        /\ UNCHANGED <<blocked, archived>>
    BY <1>1, CallersAssumption DEF CleanupBegins, HostFree, Moves, Name
  <2>2. HostWork = {}
    BY <2>1 DEF Inv, HostOwns
  <2>3. TypeOK'
    BY <1>0, <2>1, OwnerTypes DEF Inv, TypeOK, Places
  <2>4. OneReview'
    BY <1>0, <2>1, CallersAssumption DEF Inv, OneReview, Callers
  <2>5. HostOwns'
    BY <1>0, <2>1, <2>2, CallersAssumption DEF HostOwns, HostWork, Callers
  <2> QED
    BY <2>3, <2>4, <2>5 DEF Inv
<1>2. CASE CleanupEnds
  <2>1. Cleanup \in HostWork
    BY <1>2 DEF CleanupEnds, HostWork
  <2>2. \A c \in HostWork : c \in Reviews \cup {Cleanup}
    <3>1. \A c \in HostWork : Name(c) = Name(Cleanup) /\ c \in Callers
      BY <2>1 DEF Inv, HostOwns, HostWork, Callers
    <3> QED
      BY <1>0, <3>1, Names, CallersAssumption
  <2>3. HostWork' = {}
    BY <1>0, <1>2, <2>2, CallersAssumption DEF CleanupEnds, HostWork, Callers
  <2>4. TypeOK'
    BY <1>0, <1>2, OwnerTypes DEF CleanupEnds, Inv, TypeOK, Places, Owners
  <2>5. OneReview'
    BY <1>0, <1>2 DEF CleanupEnds, OneReview, Callers
  <2> QED
    BY <2>3, <2>4, <2>5 DEF Inv, HostOwns
<1> QED
  BY <1>1, <1>2

LEMMA NextInv == Inv /\ [Next]_vars => Inv'
<1> SUFFICES ASSUME Inv, [Next]_vars PROVE Inv'
  OBVIOUS
<1>0. /\ Hosts \subseteq Callers /\ Reviews \subseteq Callers
      /\ Step \in Callers /\ Cleanup \in Callers /\ Turns \subseteq Callers
      /\ InHost \subseteq Places
  BY DEF Callers, InHost, Places
<1>1. CASE UNCHANGED vars
  BY <1>1 DEF vars, Inv, TypeOK, HostOwns, HostWork, OneReview
<1>2. CASE HoldNext
  <2>1. CASE StepBegins \/ \E c \in Hosts : HostBegins(c)
    BY <1>0, <2>1, HoldInv, CallersAssumption DEF StepBegins, HostBegins, InHost
  <2>2. CASE \E c \in Hosts \cup {Step} : Leaves(c, "working")
    BY <1>0, <2>2, LeaveInv, CallersAssumption DEF Leaves, Moves
  <2> QED
    BY <1>2, <2>1, <2>2 DEF HoldNext
<1>3. ASSUME NEW c \in Reviews,
             \/ ReviewStarts(c) \/ ReviewRuns(c) \/ ReviewRefused(c)
             \/ ReviewExits(c) \/ ReviewFinal(c)
             \/ ReviewLoopsBack(c) \/ LoopBackEnds(c)
      PROVE  Inv'
  <2>1. CASE ReviewStarts(c)
    BY <2>1, ReviewStartsInv
  <2>2. CASE ReviewRuns(c) \/ ReviewExits(c)
    <3>1. PICK to \in InHost : /\ at[c] \in InHost
                               /\ at' = [at EXCEPT ![c] = to]
                               /\ UNCHANGED <<owner, blocked, archived>>
      BY <2>2 DEF ReviewRuns, ReviewExits, Moves, InHost
    <3> QED
      BY <1>0, <3>1, WalkInv
  <2>3. CASE ReviewRefused(c) \/ ReviewFinal(c) \/ LoopBackEnds(c)
             \/ ReviewLoopsBack(c)
    <3>1. c \notin Turns
      BY CallersAssumption
    <3>2. PICK to \in {"idle", "loopback"} :
            /\ at[c] # "idle" /\ at' = [at EXCEPT ![c] = to]
            /\ Release(c) /\ UNCHANGED <<blocked, archived>>
      BY <2>3 DEF ReviewRefused, ReviewFinal, LoopBackEnds, ReviewLoopsBack,
                  Leaves, Moves
    <3> QED
      BY <1>0, <3>1, <3>2, LeaveInv
  <2> QED
    BY <1>3, <2>1, <2>2, <2>3
<1>4. ASSUME NEW c \in Turns, TurnAdmitted(c) \/ TurnPrompts(c) \/ TurnEnds(c)
      PROVE  Inv'
  <2>1. PICK to \in Places : /\ at' = [at EXCEPT ![c] = to]
                             /\ UNCHANGED <<owner, blocked, archived>>
    BY <1>4 DEF TurnAdmitted, TurnPrompts, TurnEnds, Moves, Places
  <2> QED
    BY <2>1, WalkInv, CallersAssumption
<1>5. CASE CleanupNext
  <2>1. CASE CleanupFails
    BY <1>0, <2>1, LeaveInv, CallersAssumption DEF CleanupFails, Leaves, Moves
  <2> QED
    BY <1>5, <2>1, CleanupInv DEF CleanupNext
<1>6. CASE Block \/ Unblock
  BY <1>6 DEF Block, Unblock, Inv, TypeOK, HostOwns, HostWork, OneReview
<1> QED
  BY <1>1, <1>2, <1>3, <1>4, <1>5, <1>6 DEF Next, ReviewNext, TurnNext

\* A host operation at work owns the workspace under its own name from its
\* admission to its exit, whoever else comes and goes.
THEOREM HostOwnsHolds == Spec => []HostOwns
<1>1. Inv => HostOwns
  BY DEF Inv
<1> QED
  BY <1>1, InitInv, NextInv, PTL DEF Spec

\* The guard's invariant excludes.
LEMMA InvExcludes == Inv => HostExclusive
<1> SUFFICES ASSUME Inv, NEW c \in HostWork, NEW d \in HostWork PROVE c = d
  BY DEF HostExclusive
<1>1. Name(c) = Name(d) /\ c \in Callers /\ d \in Callers
  BY DEF Inv, HostOwns, HostWork, Callers
<1>2. c \in Reviews /\ d \in Reviews => c = d
  BY DEF Inv, OneReview, HostWork
<1> QED
  BY <1>1, <1>2, Names

\* Host work excludes host work: reviews, drafts, deliveries, captures and
\* cleanup are never inside their holds together (the guard's docstring).
THEOREM HostExclusiveHolds == Spec => []HostExclusive
<1> QED
  BY InvExcludes, InitInv, NextInv, PTL DEF Spec

-----------------------------------------------------------------------------
(* The guard under the reviews, the run and the session                     *)

\* Only a run that declares a review step gets to one, and only its reviews
\* are started by a run.
RunOfDeclared ==
    /\ declared \in BOOLEAN
    /\ ~declared => /\ run.at = "elsewhere"
                    /\ \A c \in Reviews : ~rev[c].byRun

\* Comments are handed back by older runs only.  The session of such a run
\* leaves its idleness with the review and does not find it again before the
\* review is over.
Boundary ==
    /\ declared => \A c \in Reviews : at[c] # "loopback"
    /\ ~declared => \A c \in Reviews :
           /\ at[c] = "capturing" => session \in {"idle", "failed"}
           /\ at[c] \in {"working", "exiting", "loopback"} => session \in {"reviewing", "failed"}

RevRecord == [seq : Nat, byRun : BOOLEAN,
              proc : {"none", "running", "signalled", "exited"},
              verdict : {"none", "approved", "comments", "aborted", "error"}]

RunTypes ==
    /\ run = [at |-> run.at, seq |-> run.seq, took |-> run.took]
    /\ run.at \in {"elsewhere", "entering", "parked", "recovering", "took", "paused"}
    /\ run.seq \in Nat
    /\ rev \in [Reviews -> RevRecord]

Exclusion == /\ RunTypes /\ RunOfDeclared
             /\ declared \/ ~LateTurns => Inv /\ Boundary


\* What the composition does to the guard, apart from admissions and stops,
\* is a step of the guard or none.
LEMMA GuardSteps ==
    ASSUME RNext, ~ShutsDown, ~Restarts, \A c \in Reviews : ~RunStarts(c) /\ ~OperatorStarts(c)
    PROVE  [Next]_vars
<1> USE DEF guard, vars
<1>1. CASE AtStep
  BY <1>1 DEF AtStep, Reaches, Consumes, RunCannotStart, Redriven
<1>2. ASSUME NEW c \in Reviews, Watches(c) \/ Answers(c) PROVE [Next]_vars
  <2>1. CASE \/ ReviewRuns(c) \/ ReviewRefused(c) \/ ReviewExits(c) \/ ReviewFinal(c)
             \/ ReviewLoopsBack(c) \/ LoopBackEnds(c)
    BY <2>1 DEF Next, ReviewNext
  <2>2. QED
    BY <1>2, <2>1 DEF Watches, Answers, Refuses, Opens, Launches, Observes, Finalizes,
       LoopsBack, Prompts, CannotPrompt
<1>3. CASE Cancels \/ SessionFails
  BY <1>3 DEF Cancels, SessionFails
<1>4. CASE Others
  <2>1. HoldNext \/ Block \/ Unblock \/ CleanupNext
    BY <1>4 DEF Others, HoldNext, CleanupNext
  <2>2. QED
    BY <2>1 DEF Next
<1>5. CASE TurnOver \/ \E c \in Turns : OperatorTurns(c)
  <2>1. TurnNext \/ UNCHANGED guard
    BY <1>5 DEF TurnOver, OperatorTurns, TurnNext
  <2>2. QED
    BY <2>1 DEF Next
<1>6. CASE CleansUp
  BY <1>6 DEF CleansUp, Next, CleanupNext
<1>7. QED
  BY <1>1, <1>2, <1>3, <1>4, <1>5, <1>6 DEF RNext

\* A review is admitted when no other is anywhere.
LEMMA AdmittedAlone ==
    ASSUME Exclusion, declared \/ ~LateTurns, NEW c \in Reviews,
           RunStarts(c) \/ OperatorStarts(c)
    PROVE  (\A r \in Reviews : at[r] = "idle") /\ ReviewStarts(c)
<1>1. /\ ~archived /\ Hold(c, "host", "capturing") /\ owner = Free
  BY DEF RunStarts, OperatorStarts, Admits, Hold, Available
<1>2. HostWork = {}
  BY <1>1 DEF Exclusion, Inv, HostOwns, Free
<1>3. \A r \in Reviews : at[r] \in {"idle", "loopback"}
  BY <1>2 DEF Exclusion, Inv, OneReview, HostWork, InHost
<1>4. \A r \in Reviews : at[r] # "loopback"
  <2>1. CASE declared
    BY <2>1 DEF Exclusion, Boundary
  <2>2. CASE ~declared
    <3>1. session = "idle"
      BY <2>2 DEF Exclusion, RunOfDeclared, RunStarts, OperatorStarts
    <3>2. QED
      BY <2>2, <3>1 DEF Exclusion, Boundary
  <2>3. QED
    BY <2>1, <2>2
<1>5. QED
  BY <1>1, <1>3, <1>4 DEF ReviewStarts

\* A stop leaves the reviews that run in their holds, and nobody else; a
\* restart leaves nobody.
LEMMA StopInv == ASSUME Inv, ShutsDown \/ Restarts PROVE Inv'
<1>0. at \in [Callers -> Places] /\ owner \in Owners /\ Reviews \subseteq Callers
  BY DEF Inv, TypeOK, Callers
<1>1. CASE ShutsDown
  <2>1. /\ at' = [c \in Callers |-> IF at[c] = "capturing" \/ c \notin Reviews THEN "idle" ELSE at[c]]
        /\ owner' = IF \E c \in Reviews : at'[c] \in {"working", "exiting"} THEN owner ELSE Free
        /\ UNCHANGED <<blocked, archived>>
    BY <1>1 DEF ShutsDown
  <2>2. TypeOK'
    BY <1>0, <2>1, OwnerTypes DEF Inv, TypeOK, Places, Owners
  <2>3. OneReview'
    BY <1>0, <2>1 DEF Inv, OneReview, InHost
  <2>4. \A c \in HostWork' : c \in Reviews /\ at'[c] \in {"working", "exiting"} /\ c \in HostWork
    BY <1>0, <2>1, CallersAssumption DEF HostWork, Callers
  <2>5. HostOwns'
    BY <2>1, <2>4 DEF Inv, HostOwns
  <2>6. QED
    BY <2>2, <2>3, <2>5 DEF Inv
<1>2. CASE Restarts
  <2>1. at' = [c \in Callers |-> "idle"] /\ owner' = Free /\ UNCHANGED <<blocked, archived>>
    BY <1>2 DEF Restarts
  <2>2. TypeOK'
    BY <2>1 DEF Inv, TypeOK, Places, Owners
  <2>3. OneReview' /\ HostOwns'
    BY <2>1 DEF OneReview, HostOwns, HostWork, Callers
  <2>4. QED
    BY <2>2, <2>3 DEF Inv
<1>3. QED
  BY <1>1, <1>2

\* The guard's invariant in the composition.
LEMMA InvKept == ASSUME Exclusion, [RNext]_rvars, declared \/ ~LateTurns PROVE Inv'
<1>0. Inv
  BY DEF Exclusion
<1>1. CASE ShutsDown \/ Restarts
  BY <1>0, <1>1, StopInv
<1>2. CASE \E c \in Reviews : RunStarts(c) \/ OperatorStarts(c)
  BY <1>0, <1>2, AdmittedAlone, ReviewStartsInv
<1>3. CASE UNCHANGED rvars
  BY <1>0, <1>3, NextInv DEF rvars, guard, vars
<1>4. QED
  BY <1>0, <1>1, <1>2, <1>3, GuardSteps, NextInv

\* The run: what it is at, when the review step moves it.
LEMMA RunKept ==
    ASSUME RunTypes, RunOfDeclared, [RNext]_rvars
    PROVE  /\ run' = [at |-> run'.at, seq |-> run'.seq, took |-> run'.took]
           /\ run'.at \in {"elsewhere", "entering", "parked", "recovering", "took", "paused"}
           /\ run'.seq \in Nat
           /\ declared' = declared
           /\ ~declared => run'.at = "elsewhere"
<1> USE DEF RunTypes
<1>1. CASE Reaches
  BY <1>1 DEF Reaches
<1>2. CASE Consumes \/ RunCannotStart \/ Redriven
  BY <1>2 DEF Consumes, RunCannotStart, Redriven, RunOfDeclared
<1>3. CASE \E c \in Reviews : RunStarts(c)
  BY <1>3 DEF RunStarts, RunOfDeclared
<1>4. CASE \E c \in Reviews : Refuses(c)
  BY <1>4 DEF Refuses, RunOfDeclared
<1>5. CASE \E c \in Reviews : Finalizes(c)
  BY <1>5 DEF Finalizes, Notify, RunOfDeclared
<1>6. CASE ShutsDown \/ Restarts
  BY <1>6 DEF ShutsDown, Restarts, Stranded, AtReview, RunOfDeclared
<1>7. CASE UNCHANGED <<run, declared>>
  BY <1>7 DEF RunOfDeclared
<1>8. CASE \E c \in Reviews : OperatorStarts(c) \/ Opens(c) \/ Launches(c) \/ Observes(c)
              \/ LoopsBack(c) \/ Prompts(c) \/ CannotPrompt(c) \/ Answers(c)
  BY <1>7, <1>8 DEF OperatorStarts, Opens, Launches, Observes, LoopsBack, Prompts,
     CannotPrompt, Answers
<1>9. CASE Cancels \/ SessionFails \/ Others \/ TurnOver \/ CleansUp
           \/ \E c \in Turns : OperatorTurns(c)
  BY <1>7, <1>9 DEF Cancels, SessionFails, Others, TurnOver, CleansUp, OperatorTurns
<1>10. QED
  BY <1>1, <1>2, <1>3, <1>4, <1>5, <1>6, <1>7, <1>8, <1>9 DEF RNext, AtStep, Watches, rvars

LEMMA UnstartedType == Unstarted \in RevRecord /\ Unstarted.seq = 0 /\ ~Unstarted.byRun
  BY DEF Unstarted, RevRecord

\* A review that is started, for whom.
LEMMA StartedType ==
    ASSUME NEW s \in Nat, NEW b \in BOOLEAN
    PROVE  LET x == [Unstarted EXCEPT !.seq = s, !.byRun = b] IN
           x \in RevRecord /\ x.seq = s /\ x.byRun = b
  BY DEF Unstarted, RevRecord

\* Its process and its verdict move, and nothing else of it.
LEMMA MovedType ==
    ASSUME NEW x \in RevRecord, NEW p \in {"none", "running", "signalled", "exited"},
           NEW v \in {"none", "approved", "comments", "aborted", "error"}
    PROVE  /\ [x EXCEPT !.proc = p] \in RevRecord /\ [x EXCEPT !.verdict = v] \in RevRecord
           /\ [x EXCEPT !.proc = p, !.verdict = v] \in RevRecord
           /\ [x EXCEPT !.proc = p].seq = x.seq /\ [x EXCEPT !.verdict = v].seq = x.seq
           /\ [x EXCEPT !.proc = p, !.verdict = v].seq = x.seq
           /\ [x EXCEPT !.proc = p].byRun = x.byRun /\ [x EXCEPT !.verdict = v].byRun = x.byRun
           /\ [x EXCEPT !.proc = p, !.verdict = v].byRun = x.byRun
  BY DEF RevRecord

\* What the processes' signals leave of the reviews.
LEMMA SignalledType ==
    ASSUME rev \in [Reviews -> RevRecord]
    PROVE  /\ Signalled \in [Reviews -> RevRecord]
           /\ \A c \in Reviews : Signalled[c].seq = rev[c].seq /\ Signalled[c].byRun = rev[c].byRun
<1>1. \A c \in Reviews : rev[c] \in RevRecord
  OBVIOUS
<1>2. QED
  BY <1>1, MovedType DEF Signalled

\* A watcher moves its review within its process and its verdict.
LEMMA WatcherMoves ==
    ASSUME rev \in [Reviews -> RevRecord], NEW c \in Reviews,
           Launches(c) \/ Observes(c) \/ Answers(c)
    PROVE  \E x \in RevRecord : /\ rev' = [rev EXCEPT ![c] = x]
                                /\ x.seq = rev[c].seq /\ x.byRun = rev[c].byRun
<1>0. rev[c] \in RevRecord
  OBVIOUS
<1>1. CASE Launches(c)
  <2>1. rev' = [rev EXCEPT ![c] = [rev[c] EXCEPT !.proc = "running"]]
    BY <1>1 DEF Launches
  <2>2. QED
    BY <1>0, <2>1, MovedType
<1>2. CASE Observes(c)
  <2>1. CASE rev' = [rev EXCEPT ![c] = [rev[c] EXCEPT !.proc = "none"]]
    BY <1>0, <2>1, MovedType
  <2>2. CASE rev' = [rev EXCEPT ![c] = [rev[c] EXCEPT !.verdict = "error"]]
    BY <1>0, <2>2, MovedType
  <2>3. QED
    BY <1>2, <2>1, <2>2 DEF Observes
<1>3. CASE Answers(c)
  <2>1. PICK v \in {"approved", "comments", "aborted", "error"} :
          rev' = [rev EXCEPT ![c].proc = "exited", ![c].verdict = v]
    BY <1>3 DEF Answers
  <2>2. rev' = [rev EXCEPT ![c] = [rev[c] EXCEPT !.proc = "exited", !.verdict = v]]
    BY <2>1
  <2>3. QED
    BY <1>0, <2>2, MovedType
<1>4. QED
  BY <1>1, <1>2, <1>3

\* The reviews: only a run with a review step starts one as a run.
LEMMA RevKept ==
    ASSUME RunTypes, RunOfDeclared, [RNext]_rvars
    PROVE  rev' \in [Reviews -> RevRecord] /\ (~declared => \A c \in Reviews : ~rev'[c].byRun)
<1>0. /\ rev \in [Reviews -> RevRecord] /\ (~declared => \A c \in Reviews : ~rev[c].byRun)
      /\ \A c \in Reviews : rev[c] \in RevRecord
  BY DEF RunTypes, RunOfDeclared
<1>1. ASSUME NEW c \in Reviews, NEW x \in RevRecord, rev' = [rev EXCEPT ![c] = x],
             x.byRun => declared
      PROVE  rev' \in [Reviews -> RevRecord] /\ (~declared => \A d \in Reviews : ~rev'[d].byRun)
  BY <1>0, <1>1
<1>2. ASSUME rev' = rev
      PROVE  rev' \in [Reviews -> RevRecord] /\ (~declared => \A d \in Reviews : ~rev'[d].byRun)
  BY <1>0, <1>2
<1>3. ASSUME rev' = Signalled
      PROVE  rev' \in [Reviews -> RevRecord] /\ (~declared => \A d \in Reviews : ~rev'[d].byRun)
  BY <1>0, <1>3, SignalledType
<1>4. ASSUME NEW c \in Reviews, RunStarts(c) \/ OperatorStarts(c)
      PROVE  rev' \in [Reviews -> RevRecord] /\ (~declared => \A d \in Reviews : ~rev'[d].byRun)
  <2>1. run.seq \in Nat /\ ReviewSeq \in Nat
    BY DEF RunTypes, ReviewSeq
  <2>2. CASE RunStarts(c)
    <3>1. rev' = [rev EXCEPT ![c] = [Unstarted EXCEPT !.seq = run.seq, !.byRun = TRUE]] /\ declared
      BY <2>2 DEF RunStarts, Admits, RunOfDeclared
    <3>2. QED
      BY <1>1, <2>1, <3>1, StartedType
  <2>3. CASE OperatorStarts(c)
    <3>1. rev' = [rev EXCEPT ![c] = [Unstarted EXCEPT !.seq = ReviewSeq, !.byRun = FALSE]]
      BY <2>3 DEF OperatorStarts, Admits
    <3>2. QED
      BY <1>1, <2>1, <3>1, StartedType
  <2>4. QED
    BY <1>4, <2>2, <2>3
<1>5. CASE \E c \in Reviews : Refuses(c) \/ Finalizes(c) \/ Prompts(c) \/ CannotPrompt(c)
  BY <1>1, <1>5, UnstartedType DEF Refuses, Finalizes, Prompts, CannotPrompt
<1>6. CASE \E c \in Reviews : Launches(c) \/ Observes(c) \/ Answers(c)
  BY <1>0, <1>1, <1>6, WatcherMoves
<1>7. CASE Cancels \/ SessionFails
  BY <1>3, <1>7 DEF Cancels, SessionFails
<1>8. CASE CleansUp \/ Restarts
  <2>1. rev' = [c \in Reviews |-> Unstarted]
    BY <1>8 DEF CleansUp, Restarts
  <2>2. QED
    BY <2>1, UnstartedType
<1>9. CASE ShutsDown
  <2>1. rev' = [c \in Reviews |-> IF at[c] = "capturing" THEN Unstarted ELSE Signalled[c]]
    BY <1>9 DEF ShutsDown
  <2>2. QED
    BY <1>0, <2>1, UnstartedType, SignalledType
<1>10. CASE Reaches \/ Consumes \/ RunCannotStart \/ Redriven \/ Others \/ TurnOver
            \/ (\E c \in Reviews : Opens(c) \/ LoopsBack(c))
            \/ \E c \in Turns : OperatorTurns(c)
  BY <1>2, <1>10 DEF Reaches, Consumes, RunCannotStart, Redriven, Others, TurnOver, Opens,
     LoopsBack, OperatorTurns, review
<1>11. QED
  BY <1>2, <1>4, <1>5, <1>6, <1>7, <1>8, <1>9, <1>10 DEF RNext, AtStep, Watches, rvars, review

\* Where a step leaves the reviews of an older run, and its session.
LEMMA BoundaryKept ==
    ASSUME Exclusion, [RNext]_rvars, declared \/ ~LateTurns
    PROVE  Boundary'
<1>0. /\ Inv /\ Boundary /\ declared' = declared
      /\ at \in [Callers -> Places] /\ Reviews \subseteq Callers /\ Turns \subseteq Callers
      /\ (~declared => run.at = "elsewhere") /\ (~declared => \A c \in Reviews : ~rev[c].byRun)
  BY RunKept DEF Exclusion, Inv, TypeOK, Callers, RunOfDeclared
<1> USE DEF Boundary
<1>1. ASSUME UNCHANGED <<at, session>> PROVE Boundary'
  BY <1>0, <1>1
<1>2. ASSUME NEW c \in Reviews, RunStarts(c) \/ OperatorStarts(c) PROVE Boundary'
  <2>1. (\A r \in Reviews : at[r] = "idle") /\ at' = [at EXCEPT ![c] = "capturing"]
    BY <1>2, AdmittedAlone DEF ReviewStarts, Hold, Moves
  <2>2. session' = session /\ (~declared => session = "idle")
    BY <1>0, <1>2 DEF RunStarts, OperatorStarts
  <2>3. QED
    BY <1>0, <2>1, <2>2
<1>3. ASSUME NEW c \in Reviews, Refuses(c) \/ Observes(c) PROVE Boundary'
  BY <1>0, <1>3 DEF Refuses, Observes, ReviewRefused, Leaves, ReviewExits, Moves
<1>4. ASSUME NEW c \in Reviews, Opens(c) PROVE Boundary'
  <2>1. /\ at[c] = "capturing" /\ at' = [at EXCEPT ![c] = "working"]
        /\ session' = IF session = "idle" THEN "reviewing" ELSE session
    BY <1>4 DEF Opens, ReviewRuns, Moves
  <2>2. \A r \in Reviews : r # c => at'[r] = "idle"
    BY <1>0, <2>1 DEF Inv, OneReview
  <2>3. QED
    BY <1>0, <2>1, <2>2
<1>5. ASSUME NEW c \in Reviews, Finalizes(c) \/ CannotPrompt(c) \/ Prompts(c) PROVE Boundary'
  <2>1. at[c] # "idle" /\ at' = [at EXCEPT ![c] = "idle"]
    BY <1>5 DEF Finalizes, CannotPrompt, Prompts, ReviewFinal, LoopBackEnds, Leaves, Moves
  <2>2. \A r \in Reviews : at'[r] = "idle"
    BY <1>0, <2>1 DEF Inv, OneReview
  <2>3. QED
    BY <1>0, <2>2
<1>6. ASSUME NEW c \in Reviews, LoopsBack(c) PROVE Boundary'
  <2>1. /\ ~declared /\ session' = session
        /\ at[c] = "exiting" /\ at' = [at EXCEPT ![c] = "loopback"]
    BY <1>6 DEF LoopsBack, ReviewLoopsBack, Moves
  <2>2. QED
    BY <1>0, <2>1
<1>7. CASE SessionFails
  BY <1>0, <1>7 DEF SessionFails, guard
<1>8. CASE Others
  <2>1. session' = session /\ \A r \in Reviews : at'[r] = at[r]
    BY <1>0, <1>8, CallersAssumption DEF Others, StepBegins, HostBegins, Hold, Leaves, Moves,
       Block, Unblock, CleanupBegins, CleanupFails
  <2>2. QED
    BY <1>0, <2>1
<1>9. ASSUME NEW c \in Turns, OperatorTurns(c) PROVE Boundary'
  <2>1. \A r \in Reviews : at'[r] = at[r]
    BY <1>0, <1>9, CallersAssumption DEF OperatorTurns, TurnAdmitted, TurnPrompts, Moves
  <2>2. session' = session \/ declared \/ \A r \in Reviews : at[r] = "idle"
    BY <1>9 DEF OperatorTurns
  <2>3. QED
    BY <1>0, <2>1, <2>2
<1>10. CASE TurnOver
  <2>1. \A r \in Reviews : at'[r] = at[r]
    BY <1>0, <1>10, CallersAssumption DEF TurnOver, TurnEnds, Moves, guard
  <2>2. session' = IF session = "working" THEN "idle" ELSE session
    BY <1>10 DEF TurnOver
  <2>3. QED
    BY <1>0, <2>1, <2>2
<1>11. CASE CleansUp \/ Restarts
  <2>1. \A r \in Reviews : at'[r] = "idle"
    BY <1>0, <1>11 DEF CleansUp, CleanupEnds, Restarts
  <2>2. QED
    BY <2>1
<1>12. CASE ShutsDown
  <2>1. session' = session /\ \A r \in Reviews : at'[r] \in {"idle", at[r]}
    BY <1>0, <1>12 DEF ShutsDown
  <2>2. QED
    BY <1>0, <2>1
<1>13. CASE \/ Cancels
            \/ AtStep /\ \A c \in Reviews : ~RunStarts(c) /\ ~OperatorStarts(c)
            \/ \E c \in Reviews : Launches(c) \/ Answers(c)
  BY <1>1, <1>13 DEF Cancels, AtStep, Reaches, Consumes, RunCannotStart, Redriven, Launches,
     Answers, guard
<1>14. QED
  BY <1>1, <1>2, <1>3, <1>4, <1>5, <1>6, <1>7, <1>8, <1>9, <1>10, <1>11, <1>12, <1>13
  DEF RNext, Watches, AtStep, rvars, guard

LEMMA ExclusionInit == RInit => Exclusion
<1> SUFFICES ASSUME RInit PROVE Exclusion
  OBVIOUS
<1>1. Inv
  BY InitInv DEF RInit
<1>2. RunTypes
  BY UnstartedType DEF RInit, RunTypes
<1>3. RunOfDeclared
  BY UnstartedType DEF RInit, RunOfDeclared
<1>4. Boundary
  BY DEF RInit, Init, Boundary, Callers
<1>5. QED
  BY <1>1, <1>2, <1>3, <1>4 DEF Exclusion

LEMMA ExclusionKept == Exclusion /\ [RNext]_rvars => Exclusion'
<1> SUFFICES ASSUME Exclusion, [RNext]_rvars PROVE Exclusion'
  OBVIOUS
<1>1. RunTypes' /\ RunOfDeclared' /\ declared' = declared
  BY RunKept, RevKept DEF Exclusion, RunTypes, RunOfDeclared
<1>2. QED
  BY <1>1, InvKept, BoundaryKept DEF Exclusion

\* Host work excludes host work through reviews, loop-backs, turns, cleanup,
\* stops and restarts, as long as an older run's agent is not prompted while
\* its review is not over.
THEOREM ReviewsExclude == ASSUME ~LateTurns PROVE RSpec => []HostExclusive
<1>1. Exclusion => HostExclusive
  BY InvExcludes DEF Exclusion
<1>2. QED
  BY <1>1, ExclusionInit, ExclusionKept, PTL DEF RSpec

\* For a run with a review step it holds whoever is prompted when.
THEOREM DeclaredReviewsExclude == RSpec => [](declared => HostExclusive)
<1>1. Exclusion => (declared => HostExclusive)
  BY InvExcludes DEF Exclusion
<1>2. QED
  BY <1>1, ExclusionInit, ExclusionKept, PTL DEF RSpec

-----------------------------------------------------------------------------
(* One verdict of an attempt                                                *)

Outcomes == {"none", "approved", "comments", "aborted", "error", "interrupted"}

Iteration == [seq : Nat, outcome : Outcomes]

RecordTypes ==
    /\ row = [status |-> row.status, marker |-> row.marker, seq |-> row.seq]
    /\ row.marker \in BOOLEAN /\ row.seq \in Nat
    /\ iters \in Seq(Iteration)

\* Nothing an older run is reviewed for belongs to an attempt.
Unbound == ~declared => /\ row.seq = 0 /\ \A c \in Reviews : rev[c].seq = 0
                        /\ \A i \in DOMAIN iters : iters[i].seq = 0

Judged(seq) == \E i \in DOMAIN iters : iters[i].seq = seq

\* Attempts are judged in their order; a review that is not over is for an
\* attempt without a verdict, and a marked row is that of a reviewer at work.
Unjudged ==
    /\ \A i \in DOMAIN iters : iters[i].seq <= run.seq
    /\ run.at \in {"entering", "parked", "recovering"} => run.seq # 0
    /\ \A c \in Reviews : at[c] # "idle" => rev[c].seq <= run.seq /\ ~Judged(rev[c].seq)
    /\ row.marker => /\ row.status = "open"
                     /\ \E c \in Reviews : at[c] = "working" /\ rev[c].seq = row.seq

VerdictInv == /\ RecordTypes /\ Unbound /\ OneVerdict
              /\ declared => Unjudged

\* What appending an iteration does to the iterations.
LEMMA Appends ==
    ASSUME iters \in Seq(Iteration), NEW x \in Iteration, iters' = Append(iters, x)
    PROVE  /\ iters' \in Seq(Iteration)
           /\ DOMAIN iters' = DOMAIN iters \cup {Len(iters) + 1}
           /\ Len(iters) + 1 \notin DOMAIN iters
           /\ iters'[Len(iters) + 1] = x
           /\ \A i \in DOMAIN iters : iters'[i] = iters[i]
  OBVIOUS

\* A verdict of an attempt that has none.
LEMMA FirstVerdict ==
    ASSUME iters \in Seq(Iteration), OneVerdict, NEW x \in Iteration,
           iters' = Append(iters, x), x.seq = 0 \/ ~Judged(x.seq)
    PROVE  OneVerdict'
<1>1. ASSUME NEW i \in DOMAIN iters', NEW j \in DOMAIN iters',
             iters'[i].seq = iters'[j].seq, iters'[i].seq # 0
      PROVE  i = j
  <2>1. CASE i \in DOMAIN iters /\ j \in DOMAIN iters
    BY <1>1, <2>1, Appends DEF OneVerdict
  <2>2. CASE i \in DOMAIN iters /\ j = Len(iters) + 1
    BY <1>1, <2>2, Appends DEF Judged
  <2>3. CASE j \in DOMAIN iters /\ i = Len(iters) + 1
    BY <1>1, <2>3, Appends DEF Judged
  <2>4. CASE i = Len(iters) + 1 /\ j = Len(iters) + 1
    BY <2>4
  <2>5. QED
    BY <2>1, <2>2, <2>3, <2>4, Appends
<1>2. QED
  BY <1>1 DEF OneVerdict

\* An attempt whose newest verdict is number 0 has none: of several there
\* might be no newest to choose, but there are never several.
LEMMA NoneJudged ==
    ASSUME iters \in Seq(Iteration), OneVerdict, NEW s \in Nat \ {0}, IterationOf(s) = 0
    PROVE  ~Judged(s)
<1> SUFFICES ASSUME NEW k \in DOMAIN iters, iters[k].seq = s PROVE FALSE
  BY DEF Judged
<1> DEFINE of == {i \in DOMAIN iters : iters[i].seq = s}
<1>1. of = {k}
  BY DEF OneVerdict
<1>2. (CHOOSE i \in of : \A j \in of : j <= i) = k
  <2>1. k <= k
    BY DEF OneVerdict
  <2>2. QED
    BY <1>1, <2>1
<1>3. IterationOf(s) = k
  BY <1>1, <1>2 DEF IterationOf
<1>4. k # 0
  OBVIOUS
<1>5. QED
  BY <1>3, <1>4

\* The records keep their types.
LEMMA RecordsKept ==
    ASSUME RunTypes, RecordTypes, [RNext]_rvars
    PROVE  RecordTypes'
<1> USE DEF RecordTypes
<1>0. \A c \in Reviews : rev[c] \in RevRecord /\ rev[c].seq \in Nat /\ rev[c].verdict \in Outcomes
  BY DEF RunTypes, RevRecord, Outcomes
<1>1. ASSUME row' = row, iters' = iters PROVE RecordTypes'
  BY <1>1
<1>2. ASSUME NEW s \in Nat, NEW o \in Outcomes, NEW st, Append1(s, o, st) PROVE RecordTypes'
  <2>1. [seq |-> s, outcome |-> o] \in Iteration
    BY DEF Iteration
  <2>2. iters' \in Seq(Iteration)
    BY <1>2, <2>1, Appends DEF Append1
  <2>3. row' = [row EXCEPT !.status = IF st = "" THEN row.status ELSE st]
    BY <1>2 DEF Append1
  <2>4. QED
    BY <2>2, <2>3
<1>3. CASE \E c \in Reviews : Opens(c)
  BY <1>0, <1>3 DEF Opens
<1>4. CASE \E c \in Reviews : Observes(c)
  BY <1>4 DEF Observes, Unmarked
<1>5. CASE \E c \in Reviews : Finalizes(c)
  BY <1>0, <1>2, <1>5 DEF Finalizes
<1>6. CASE \E c \in Reviews : LoopsBack(c) \/ CannotPrompt(c)
  BY <1>0, <1>2, <1>6 DEF LoopsBack, CannotPrompt, Outcomes
<1>7. CASE CleansUp
  BY <1>1, <1>2, <1>7 DEF CleansUp, Outcomes
<1>8. CASE Restarts
  <2>1. CASE row' = row /\ iters' = iters
    BY <1>1, <2>1
  <2>2. CASE /\ iters' = Append(iters, [seq |-> row.seq, outcome |-> "interrupted"])
             /\ row' = [row EXCEPT !.status = "aborted", !.marker = FALSE]
    <3>1. [seq |-> row.seq, outcome |-> "interrupted"] \in Iteration
      BY DEF Iteration, Outcomes
    <3>2. iters' \in Seq(Iteration)
      BY <2>2, <3>1, Appends
    <3>3. QED
      BY <2>2, <3>2
  <2>3. QED
    BY <1>8, <2>1, <2>2 DEF Restarts, Restore
<1>9. CASE AtStep
  BY <1>1, <1>9 DEF AtStep, Reaches, Consumes, RunCannotStart, Redriven, RunStarts,
     OperatorStarts, review
<1>10. CASE \E c \in Reviews : Refuses(c) \/ Launches(c) \/ Prompts(c) \/ Answers(c)
  BY <1>1, <1>10 DEF Refuses, Launches, Prompts, Answers
<1>11. CASE Cancels \/ SessionFails \/ Others \/ TurnOver \/ ShutsDown \/ UNCHANGED rvars
            \/ \E c \in Turns : OperatorTurns(c)
  BY <1>1, <1>11 DEF Cancels, SessionFails, Others, TurnOver, ShutsDown, OperatorTurns, rvars,
     review
<1>12. QED
  BY <1>3, <1>4, <1>5, <1>6, <1>7, <1>8, <1>9, <1>10, <1>11 DEF RNext, Watches

\* How a step moves the attempt a review is for.
LEMMA SeqMoves ==
    ASSUME RunTypes, [RNext]_rvars, NEW d \in Reviews
    PROVE  \/ rev'[d].seq = rev[d].seq
           \/ rev'[d].seq = 0 /\ (Inv => at'[d] = "idle")
           \/ rev'[d].seq = run.seq /\ RunStarts(d)
           \/ rev'[d].seq = ReviewSeq /\ OperatorStarts(d)
<1>0. rev \in [Reviews -> RevRecord] /\ Unstarted.seq = 0 /\ d \in Callers
  BY UnstartedType DEF RunTypes, Callers
<1>1. ASSUME NEW c \in Reviews, RunStarts(c) \/ OperatorStarts(c)
      PROVE  \/ rev'[d].seq = rev[d].seq
             \/ rev'[d].seq = run.seq /\ RunStarts(d)
             \/ rev'[d].seq = ReviewSeq /\ OperatorStarts(d)
  <2>1. run.seq \in Nat /\ ReviewSeq \in Nat
    BY DEF RunTypes, ReviewSeq
  <2>2. CASE RunStarts(c)
    <3>1. rev' = [rev EXCEPT ![c] = [Unstarted EXCEPT !.seq = run.seq, !.byRun = TRUE]]
      BY <2>2 DEF RunStarts, Admits
    <3>2. QED
      BY <1>0, <2>1, <2>2, <3>1, StartedType
  <2>3. CASE OperatorStarts(c)
    <3>1. rev' = [rev EXCEPT ![c] = [Unstarted EXCEPT !.seq = ReviewSeq, !.byRun = FALSE]]
      BY <2>3 DEF OperatorStarts, Admits
    <3>2. QED
      BY <1>0, <2>1, <2>3, <3>1, StartedType
  <2>4. QED
    BY <1>1, <2>2, <2>3
<1>2. ASSUME NEW c \in Reviews, Refuses(c) \/ Finalizes(c) \/ Prompts(c) \/ CannotPrompt(c)
      PROVE  rev'[d].seq = rev[d].seq \/ (rev'[d].seq = 0 /\ (Inv => at'[d] = "idle"))
  <2>1. rev' = [rev EXCEPT ![c] = Unstarted] /\ at' = [at EXCEPT ![c] = "idle"]
    BY <1>2 DEF Refuses, Finalizes, Prompts, CannotPrompt, ReviewRefused, ReviewFinal,
       LoopBackEnds, Leaves, Moves
  <2>2. Inv => at \in [Callers -> Places]
    BY DEF Inv, TypeOK
  <2>3. QED
    BY <1>0, <2>1, <2>2
<1>3. CASE \E c \in Reviews : Launches(c) \/ Observes(c) \/ Answers(c)
  BY <1>0, <1>3, WatcherMoves
<1>4. CASE Cancels \/ SessionFails
  BY <1>0, <1>4, SignalledType DEF Cancels, SessionFails
<1>5. CASE CleansUp \/ Restarts
  BY <1>0, <1>5 DEF CleansUp, Restarts, CleanupEnds
<1>6. CASE ShutsDown
  <2>1. /\ rev' = [c \in Reviews |-> IF at[c] = "capturing" THEN Unstarted ELSE Signalled[c]]
        /\ at' = [c \in Callers |-> IF at[c] = "capturing" \/ c \notin Reviews THEN "idle" ELSE at[c]]
    BY <1>6 DEF ShutsDown
  <2>2. QED
    BY <1>0, <2>1, SignalledType
<1>7. CASE Reaches \/ Consumes \/ RunCannotStart \/ Redriven \/ Others \/ TurnOver
           \/ (\E c \in Reviews : Opens(c) \/ LoopsBack(c)) \/ UNCHANGED rvars
           \/ \E c \in Turns : OperatorTurns(c)
  BY <1>7 DEF Reaches, Consumes, RunCannotStart, Redriven, Others, TurnOver, Opens,
     LoopsBack, OperatorTurns, review, rvars
<1>8. QED
  BY <1>1, <1>2, <1>3, <1>4, <1>5, <1>6, <1>7 DEF RNext, AtStep, Watches
\* Without a review step everything stays unbound.
LEMMA UnboundKept ==
    ASSUME Exclusion, VerdictInv, [RNext]_rvars
    PROVE  Unbound'
<1> SUFFICES ASSUME ~declared
             PROVE  /\ row'.seq = 0 /\ \A c \in Reviews : rev'[c].seq = 0
                    /\ \A i \in DOMAIN iters' : iters'[i].seq = 0
  BY RunKept DEF Exclusion, Unbound
<1>0. /\ row.seq = 0 /\ (\A c \in Reviews : rev[c].seq = 0)
      /\ (\A i \in DOMAIN iters : iters[i].seq = 0)
      /\ RunTypes /\ RecordTypes /\ (\A c \in Reviews : ~RunStarts(c)) /\ ReviewSeq = 0
  BY DEF VerdictInv, Unbound, Exclusion, RunOfDeclared, RunStarts, ReviewSeq
<1>1. \A c \in Reviews : rev'[c].seq = 0
  BY <1>0, SeqMoves
<1>2. row'.seq = 0 /\ (iters' = iters \/ \E x \in Iteration : iters' = Append(iters, x) /\ x.seq = 0)
  <2>1. ASSUME NEW st, NEW o, NEW s, s = 0, Append1(s, o, st), RecordTypes'
        PROVE  row'.seq = 0 /\ \E x \in Iteration : iters' = Append(iters, x) /\ x.seq = 0
    <3>1. row'.seq = 0
      BY <1>0, <2>1 DEF Append1, RecordTypes
    <3>2. iters' = Append(iters, [seq |-> 0, outcome |-> o])
      BY <2>1 DEF Append1
    <3>3. [seq |-> 0, outcome |-> o] \in Iteration
      <4>1. iters'[Len(iters')] = [seq |-> 0, outcome |-> o] /\ Len(iters') \in DOMAIN iters'
        BY <1>0, <3>2 DEF RecordTypes
      <4>2. QED
        BY <2>1, <4>1 DEF RecordTypes
    <3>4. QED
      BY <3>1, <3>2, <3>3
  <2>2. RecordTypes'
    BY <1>0, RecordsKept
  <2>3. CASE \E c \in Reviews : Finalizes(c) \/ LoopsBack(c) \/ CannotPrompt(c)
    BY <1>0, <2>1, <2>2, <2>3 DEF Finalizes, LoopsBack, CannotPrompt
  <2>4. CASE CleansUp
    BY <1>0, <2>1, <2>2, <2>4 DEF CleansUp
  <2>5. CASE Restarts
    <3>1. CASE row' = row /\ iters' = iters
      BY <1>0, <3>1
    <3>2. CASE /\ iters' = Append(iters, [seq |-> row.seq, outcome |-> "interrupted"])
               /\ row' = [row EXCEPT !.status = "aborted", !.marker = FALSE]
      <4>1. [seq |-> row.seq, outcome |-> "interrupted"] \in Iteration
        BY <1>0 DEF Iteration, Outcomes
      <4>2. row'.seq = row.seq
        BY <1>0, <3>2 DEF RecordTypes
      <4>3. QED
        BY <1>0, <3>2, <4>1, <4>2
    <3>3. QED
      BY <2>5, <3>1, <3>2 DEF Restarts, Restore
  <2>6. CASE \E c \in Reviews : Opens(c) \/ Observes(c)
    BY <1>0, <2>6 DEF Opens, Observes, Unmarked, RecordTypes
  <2>7. CASE UNCHANGED <<row, iters>>
    BY <1>0, <2>7
  <2>8. CASE \/ AtStep \/ Cancels \/ SessionFails \/ Others \/ TurnOver \/ ShutsDown
             \/ UNCHANGED rvars \/ (\E c \in Turns : OperatorTurns(c))
             \/ \E c \in Reviews : Refuses(c) \/ Launches(c) \/ Prompts(c) \/ Answers(c)
    <3>1. UNCHANGED <<row, iters>>
      BY <2>8 DEF AtStep, Reaches, Consumes, RunCannotStart, Redriven, RunStarts,
         OperatorStarts, Cancels, SessionFails, Others, TurnOver, ShutsDown, OperatorTurns,
         Refuses, Launches, Prompts, Answers, rvars, review
    <3>2. QED
      BY <2>7, <3>1
  <2>9. QED
    BY <2>3, <2>4, <2>5, <2>6, <2>8 DEF RNext, Watches
<1>3. \A i \in DOMAIN iters' : iters'[i].seq = 0
  BY <1>0, <1>2, Appends DEF RecordTypes
<1>4. QED
  BY <1>1, <1>2, <1>3

LEMMA IterationTypes == RecordTypes => \A i \in DOMAIN iters : iters[i].seq \in Nat
<1>1. RecordTypes => \A i \in DOMAIN iters : iters[i] \in Iteration
  BY DEF RecordTypes
<1>2. QED
  BY <1>1 DEF Iteration

\* What a step does to a review's place, in a run with a review step.
LEMMA PlaceMoves ==
    ASSUME Exclusion, declared, [RNext]_rvars, NEW d \in Reviews
    PROVE  /\ at'[d] # "idle" => at[d] # "idle" \/ RunStarts(d) \/ OperatorStarts(d)
           /\ at[d] = "working" => \/ at'[d] = "working"
                                   \/ Observes(d) \/ CleansUp \/ Restarts
<1>0. at \in [Callers -> Places] /\ d \in Callers /\ Inv
  BY DEF Exclusion, Inv, TypeOK, Callers
<1>1. ASSUME NEW c \in Reviews, RunStarts(c) \/ OperatorStarts(c)
      PROVE  /\ at'[d] # "idle" => at[d] # "idle" \/ RunStarts(d) \/ OperatorStarts(d)
             /\ at[d] = "working" => at'[d] = "working"
  BY <1>0, <1>1, AdmittedAlone DEF ReviewStarts, Hold, Moves
<1>2. ASSUME NEW c \in Reviews, Watches(c) \/ Answers(c), ~Observes(c)
      PROVE  /\ at'[d] # "idle" => at[d] # "idle"
             /\ at[d] = "working" => at'[d] = "working"
  BY <1>0, <1>2 DEF Watches, Answers, Refuses, Opens, Launches, Finalizes, LoopsBack, Prompts,
     CannotPrompt, ReviewRefused, ReviewRuns, ReviewFinal, ReviewLoopsBack, LoopBackEnds,
     Leaves, Moves, guard
<1>3. ASSUME NEW c \in Reviews, Observes(c)
      PROVE  /\ at'[d] # "idle" => at[d] # "idle"
             /\ at[d] = "working" => at'[d] = "working" \/ Observes(d)
  BY <1>0, <1>3 DEF Observes, ReviewExits, Moves
<1>4. CASE ShutsDown
  BY <1>0, <1>4 DEF ShutsDown
<1>5. CASE CleansUp \/ Restarts
  BY <1>0, <1>5 DEF CleansUp, CleanupEnds, Restarts
<1>6. CASE Others
  BY <1>0, <1>6, CallersAssumption DEF Others, StepBegins, HostBegins, Hold, Leaves, Moves,
     Block, Unblock, CleanupBegins, CleanupFails
<1>7. CASE TurnOver \/ \E c \in Turns : OperatorTurns(c)
  BY <1>0, <1>7, CallersAssumption DEF TurnOver, OperatorTurns, TurnAdmitted, TurnPrompts,
     TurnEnds, Moves, guard
<1>8. CASE Reaches \/ Consumes \/ RunCannotStart \/ Redriven \/ Cancels \/ SessionFails
           \/ UNCHANGED rvars
  BY <1>8 DEF Reaches, Consumes, RunCannotStart, Redriven, Cancels, SessionFails, rvars, guard
<1>9. QED
  BY <1>1, <1>2, <1>3, <1>4, <1>5, <1>6, <1>7, <1>8 DEF RNext, AtStep

\* What a step does to the attempt, in any run.
LEMMA AttemptMoves ==
    ASSUME RunTypes, [RNext]_rvars,
           run.at \in {"entering", "parked", "recovering"} => run.seq # 0
    PROVE  /\ run.seq <= run'.seq /\ run.seq \in Nat /\ run'.seq \in Nat
           /\ run'.at \in {"entering", "parked", "recovering"} => run'.seq # 0
<1>0. /\ run = [at |-> run.at, seq |-> run.seq, took |-> run.took] /\ run.seq \in Nat
  BY DEF RunTypes
<1>1. CASE Reaches
  BY <1>0, <1>1 DEF Reaches
<1>2. CASE Consumes \/ RunCannotStart \/ Redriven
  <2>1. /\ run.at \in {"entering", "recovering"}
        /\ \E n : \/ run' = [run EXCEPT !.at = "took", !.took = n]
                 \/ run' = [run EXCEPT !.at = "paused"]
                 \/ run' = [run EXCEPT !.at = "entering"]
    BY <1>2 DEF Consumes, RunCannotStart, Redriven
  <2>2. run'.seq = run.seq
    BY <1>0, <2>1
  <2>3. QED
    BY <1>0, <2>1, <2>2
<1>3. CASE \E c \in Reviews : RunStarts(c)
  BY <1>0, <1>3 DEF RunStarts
<1>4. CASE \E c \in Reviews : Refuses(c)
  BY <1>0, <1>4 DEF Refuses
<1>5. CASE \E c \in Reviews : Finalizes(c)
  <2>1. \/ run' = run
        \/ \E n : run' = [run EXCEPT !.at = "took", !.took = n]
    BY <1>5 DEF Finalizes, Notify
  <2>2. run'.seq = run.seq /\ run'.at \in {run.at, "took"}
    BY <1>0, <2>1
  <2>3. QED
    BY <1>0, <2>2
<1>6. CASE ShutsDown \/ Restarts
  BY <1>0, <1>6 DEF ShutsDown, Restarts, Stranded, AtReview
<1>7. CASE run' = run
  BY <1>0, <1>7
<1>8. CASE \E c \in Reviews : OperatorStarts(c) \/ Opens(c) \/ Launches(c) \/ Observes(c)
              \/ LoopsBack(c) \/ Prompts(c) \/ CannotPrompt(c) \/ Answers(c)
  BY <1>7, <1>8 DEF OperatorStarts, Opens, Launches, Observes, LoopsBack, Prompts,
     CannotPrompt, Answers
<1>9. CASE Cancels \/ SessionFails \/ Others \/ TurnOver \/ CleansUp \/ UNCHANGED rvars
           \/ \E c \in Turns : OperatorTurns(c)
  BY <1>7, <1>9 DEF Cancels, SessionFails, Others, TurnOver, CleansUp, OperatorTurns, rvars
<1>10. QED
  BY <1>1, <1>2, <1>3, <1>4, <1>5, <1>6, <1>7, <1>8, <1>9 DEF RNext, AtStep, Watches

\* Verdicts of a run with a review step, when nobody starts one by hand.
LEMMA UnjudgedKept ==
    ASSUME Exclusion, VerdictInv, declared, ~ByHand, [RNext]_rvars
    PROVE  OneVerdict' /\ Unjudged'
<1>0. /\ Inv /\ RunTypes /\ RecordTypes /\ RecordTypes' /\ OneVerdict /\ Unjudged
      /\ at \in [Callers -> Places] /\ Reviews \subseteq Callers
      /\ (\A c \in Reviews : ~OperatorStarts(c) /\ at[c] # "loopback" /\ rev[c].seq \in Nat)
      /\ rev \in [Reviews -> RevRecord] /\ \A c \in Reviews : rev[c] \in RevRecord
  BY RecordsKept DEF Exclusion, VerdictInv, Inv, TypeOK, Callers, OperatorStarts, Boundary,
     RunTypes, RevRecord
<1>1. /\ run.seq <= run'.seq /\ run.seq \in Nat /\ run'.seq \in Nat
      /\ run'.at \in {"entering", "parked", "recovering"} => run'.seq # 0
  BY <1>0, AttemptMoves DEF Unjudged
\* A review that is not over at the next state was so before, or starts now.
<1>2. ASSUME NEW d \in Reviews, at'[d] # "idle"
      PROVE  rev'[d].seq <= run.seq /\ ~Judged(rev'[d].seq) /\ rev'[d].seq \in Nat
  <2>1. CASE RunStarts(d)
    <3>1. rev' = [rev EXCEPT ![d] = [Unstarted EXCEPT !.seq = run.seq, !.byRun = TRUE]]
          /\ run.at = "entering" /\ IterationOf(run.seq) = 0
      BY <2>1 DEF RunStarts, Admits
    <3>2. rev'[d].seq = run.seq /\ run.seq \in Nat \ {0}
      BY <1>0, <1>1, <3>1, StartedType DEF Unjudged
    <3>3. QED
      BY <1>0, <3>1, <3>2, NoneJudged DEF RecordTypes
  <2>2. CASE ~RunStarts(d)
    <3>1. at[d] # "idle" /\ rev'[d].seq = rev[d].seq
      BY <1>0, <1>2, <2>2, PlaceMoves, SeqMoves
    <3>2. QED
      BY <1>0, <3>1 DEF Unjudged
  <2>3. QED
    BY <2>1, <2>2
\* The steps that record nothing.
<1>3. ASSUME iters' = iters,
             row'.marker => /\ row'.status = "open"
                            /\ \E c \in Reviews : at'[c] = "working" /\ rev'[c].seq = row'.seq
      PROVE  OneVerdict' /\ Unjudged'
  <2>1. OneVerdict'
    BY <1>0, <1>3 DEF OneVerdict
  <2>2. \A i \in DOMAIN iters' : iters'[i].seq <= run'.seq
    <3>1. \A i \in DOMAIN iters : iters[i].seq \in Nat
      BY <1>0, IterationTypes
    <3>2. QED
      BY <1>0, <1>1, <1>3, <3>1 DEF Unjudged
  <2>3. \A c \in Reviews : at'[c] # "idle" =>
            rev'[c].seq <= run'.seq /\ ~\E i \in DOMAIN iters' : iters'[i].seq = rev'[c].seq
    BY <1>1, <1>2, <1>3 DEF Judged
  <2>4. QED
    BY <1>1, <1>3, <2>1, <2>2, <2>3 DEF Unjudged, Judged
\* The steps that record a verdict, and end the review it is of.
<1>4. ASSUME NEW x \in Iteration, iters' = Append(iters, x), x.seq <= run.seq, ~Judged(x.seq),
             \A c \in Reviews : at'[c] = "idle", ~row'.marker
      PROVE  OneVerdict' /\ Unjudged'
  <2>1. OneVerdict'
    BY <1>0, <1>4, FirstVerdict DEF RecordTypes
  <2>2. \A i \in DOMAIN iters' : iters'[i].seq <= run'.seq
    <3>1. \A i \in DOMAIN iters : iters[i].seq \in Nat /\ iters[i].seq <= run.seq
      BY <1>0, IterationTypes DEF Unjudged
    <3>2. x.seq \in Nat
      BY DEF Iteration
    <3>3. QED
      BY <1>0, <1>1, <1>4, <3>1, <3>2, Appends DEF RecordTypes
  <2>3. QED
    BY <1>1, <1>4, <2>1, <2>2 DEF Unjudged
<1>5. CASE \E c \in Reviews : Opens(c)
  <2>1. PICK c \in Reviews : Opens(c)
    BY <1>5
  <2>2. iters' = iters /\ row'.status = "open" /\ at'[c] = "working" /\ rev' = rev
        /\ row'.seq = rev[c].seq
    BY <1>0, <2>1 DEF Opens, ReviewRuns, Moves
  <2>3. QED
    BY <1>3, <2>2
<1>6. CASE \E c \in Reviews : Observes(c)
  BY <1>0, <1>3, <1>6 DEF Observes, Unmarked, RecordTypes
<1>7. CASE \E c \in Reviews : Finalizes(c)
  <2>1. PICK c \in Reviews : Finalizes(c)
    BY <1>7
  <2>2. /\ at[c] = "exiting" /\ at' = [at EXCEPT ![c] = "idle"]
        /\ Append1(rev[c].seq, rev[c].verdict,
                   IF rev[c].verdict = "comments" THEN "" ELSE rev[c].verdict)
    BY <2>1 DEF Finalizes, ReviewFinal, Leaves, Moves
  <2>3. \A d \in Reviews : at'[d] = "idle" /\ at[d] # "working"
    BY <1>0, <2>2 DEF Inv, OneReview
  <2>4. ~row.marker /\ row'.marker = row.marker
    BY <1>0, <2>2, <2>3 DEF Unjudged, Append1, RecordTypes
  <2>5. rev[c].seq <= run.seq /\ ~Judged(rev[c].seq)
    BY <1>0, <2>2 DEF Unjudged
  <2>6. LET x == [seq |-> rev[c].seq, outcome |-> rev[c].verdict] IN
        x \in Iteration /\ x.seq = rev[c].seq /\ iters' = Append(iters, x)
    BY <1>0, <2>2 DEF Append1, Iteration, RevRecord, Outcomes
  <2>7. QED
    BY <1>4, <2>3, <2>4, <2>5, <2>6
<1>8. CASE Restarts
  <2>1. \A d \in Reviews : at'[d] = "idle"
    BY <1>0, <1>8 DEF Restarts
  <2>2. CASE row.status = "open" /\ row.marker
    <3>1. /\ iters' = Append(iters, [seq |-> row.seq, outcome |-> "interrupted"])
          /\ row' = [row EXCEPT !.status = "aborted", !.marker = FALSE]
      BY <1>8, <2>2 DEF Restarts, Restore
    <3>2. ~row'.marker
      BY <1>0, <3>1 DEF RecordTypes
    <3>3. PICK c \in Reviews : at[c] = "working" /\ rev[c].seq = row.seq
      BY <1>0, <2>2 DEF Unjudged
    <3>4. row.seq <= run.seq /\ ~Judged(row.seq)
      BY <1>0, <3>3 DEF Unjudged
    <3>5. LET x == [seq |-> row.seq, outcome |-> "interrupted"] IN
          x \in Iteration /\ x.seq = row.seq
      BY <1>0 DEF Iteration, Outcomes, RecordTypes
    <3>6. QED
      BY <1>4, <2>1, <3>1, <3>2, <3>4, <3>5
  <2>3. CASE ~(row.status = "open" /\ row.marker)
    <3>1. iters' = iters /\ row' = row /\ ~row.marker
      BY <1>0, <1>8, <2>3 DEF Restarts, Restore, Unjudged
    <3>2. QED
      BY <1>3, <3>1
  <2>4. QED
    BY <2>2, <2>3
\* Cleanup waits for the review's hold: it finds no reviewer at work.
<1>9. CASE CleansUp
  <2>1. ~row.marker
    <3>1. ASSUME NEW c \in Reviews, at[c] = "working" PROVE FALSE
      <4>1. c \in HostWork /\ Cleanup \in HostWork
        BY <1>9, <3>1 DEF HostWork, CleansUp, CleanupEnds
      <4>2. QED
        BY <1>0, <4>1, InvExcludes, CallersAssumption DEF HostExclusive
    <3>2. QED
      BY <1>0, <3>1 DEF Unjudged
  <2>2. iters' = iters /\ row' = row
    BY <1>9, <2>1 DEF CleansUp
  <2>3. QED
    BY <1>3, <2>1, <2>2
<1>10. CASE /\ UNCHANGED <<row, iters>> /\ ~CleansUp /\ ~Restarts
            /\ \A c \in Reviews : ~Observes(c)
  <2>1. ASSUME row'.marker
        PROVE  /\ row'.status = "open"
               /\ \E c \in Reviews : at'[c] = "working" /\ rev'[c].seq = row'.seq
    <3>1. row.status = "open" /\ row.marker
      BY <1>0, <1>10, <2>1 DEF Unjudged
    <3>2. PICK c \in Reviews : at[c] = "working" /\ rev[c].seq = row.seq
      BY <1>0, <3>1 DEF Unjudged
    <3>3. at'[c] = "working"
      BY <1>10, <3>2, PlaceMoves
    <3>4. ~RunStarts(c)
      BY <3>2 DEF RunStarts, Admits, Hold, Moves
    <3>5. rev'[c].seq = rev[c].seq
      BY <1>0, <3>3, <3>4, SeqMoves
    <3>6. QED
      BY <1>10, <3>1, <3>2, <3>3, <3>5
  <2>2. QED
    BY <1>3, <1>10, <2>1
<1>11. CASE \/ AtStep \/ Cancels \/ SessionFails \/ Others \/ TurnOver \/ ShutsDown
            \/ UNCHANGED rvars \/ (\E c \in Turns : OperatorTurns(c))
            \/ \E c \in Reviews : Refuses(c) \/ Launches(c) \/ Prompts(c) \/ Answers(c)
  <2>1. UNCHANGED <<row, iters>>
    BY <1>11 DEF AtStep, Reaches, Consumes, RunCannotStart, Redriven, RunStarts,
       OperatorStarts, Cancels, SessionFails, Others, TurnOver, ShutsDown, OperatorTurns,
       Refuses, Launches, Prompts, Answers, rvars, review
  <2>2. QED
    BY <1>6, <1>8, <1>9, <1>10, <2>1
<1>12. ~\E c \in Reviews : LoopsBack(c) \/ CannotPrompt(c)
  BY <1>0 DEF LoopsBack, CannotPrompt, LoopBackEnds, Leaves, Moves
<1>13. QED
  BY <1>5, <1>6, <1>7, <1>8, <1>9, <1>11, <1>12 DEF RNext, Watches

LEMMA VerdictInit == RInit => VerdictInv
<1> SUFFICES ASSUME RInit PROVE VerdictInv
  OBVIOUS
<1>1. iters = <<>> /\ DOMAIN iters = {}
  BY DEF RInit
<1>2. RecordTypes /\ OneVerdict
  BY <1>1 DEF RInit, RecordTypes, OneVerdict
<1>3. Unbound
  BY <1>1, UnstartedType DEF RInit, Unbound
<1>4. Unjudged
  BY <1>1 DEF RInit, Init, Unjudged, Callers
<1>5. QED
  BY <1>2, <1>3, <1>4 DEF VerdictInv

LEMMA VerdictKept ==
    ASSUME ~ByHand, Exclusion, VerdictInv, [RNext]_rvars
    PROVE  VerdictInv'
<1>1. RecordTypes' /\ Unbound' /\ declared' = declared
  BY RecordsKept, RunKept, UnboundKept DEF Exclusion, VerdictInv
<1>2. CASE declared
  BY <1>1, <1>2, UnjudgedKept DEF VerdictInv
<1>3. CASE ~declared
  <2>1. OneVerdict'
    BY <1>1, <1>3 DEF Unbound, OneVerdict
  <2>2. QED
    BY <1>1, <1>3, <2>1 DEF VerdictInv
<1>4. QED
  BY <1>2, <1>3

\* An attempt at the review step gets one verdict, through exits, signals,
\* stops and restarts at any moment, as long as nobody starts by hand the
\* review the run is waiting for; whoever is prompted meanwhile.
THEOREM AttemptsGetOneVerdict == ASSUME ~ByHand PROVE RSpec => []OneVerdict
<1>1. VerdictInv => OneVerdict
  BY DEF VerdictInv
<1>2. Exclusion /\ VerdictInv /\ [RNext]_rvars => VerdictInv'
  BY VerdictKept
<1>3. QED
  BY <1>1, <1>2, ExclusionInit, ExclusionKept, VerdictInit, PTL DEF RSpec
=============================================================================
