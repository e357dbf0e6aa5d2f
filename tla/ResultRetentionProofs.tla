------------------------ MODULE ResultRetentionProofs ------------------------
(***************************************************************************)
(* What the proofs establish for any number of revisions, files, consumers *)
(* and request threads: the bytes a task was launched from stay retained   *)
(* while that task exists, a capture's reader is never in a workspace its  *)
(* capture does not hold, the page catches up with the registry, and a     *)
(* ready bundle is what the workspace held at one instant.                 *)
(*                                                                         *)
(* The first does not carry itself: a purge looks at the reference index,  *)
(* not at the consumers, so the index has to be their exact image; and the *)
(* purge of the producing task looks only at the states of its rows, so    *)
(* the rows have to tell the truth about the bytes.  The page rests on a   *)
(* publication that is still to come for every version the client has not  *)
(* seen.  The last rests on identities that only move on: a file that is   *)
(* opened as it was admitted was so at the instant the last one was.       *)
(***************************************************************************)
EXTENDS ResultRetention, TLAPS

LaunchPlaces == {"none", "previewed", "purged"} \cup Holding

LaunchType == launch \in [Consumers -> [at : LaunchPlaces, rev : Revs \cup {0},
                                        bytes : {"none", "good", "damaged"}]]

RowType == row \in [Revs -> [state : {"none", "capturing", "failed", "ready", "purged"},
                             accepted : BOOLEAN, unavailable : BOOLEAN,
                             pred : Nat]]

StoreType == stored \in [Revs -> {"none", "good", "damaged"}]

\* The index holds a reference of every existing consumer.
IndexIsComplete == \A c \in Consumers : launch[c].at \in Holding => <<c, launch[c].rev>> \in pins

\* What is pinned is ready.
IndexIsRetained == \A c \in Consumers, r \in Revs : <<c, r>> \in pins => Retained(r)

\* A consumer that chose a revision names one.
ChosenExists == \A c \in Consumers :
    launch[c].at \in Holding \cup {"previewed"} => launch[c].rev \in Revs

\* Ready rows have bytes.
ReadyHasBytes == \A r \in Revs : Retained(r) => stored[r] # "none"

PinInv == /\ LaunchType /\ RowType /\ StoreType /\ ChosenExists
          /\ IndexIsComplete /\ IndexIsRetained /\ ReadyHasBytes

\* Initially nothing is launched and nothing retained.
LEMMA PinInit == Init => PinInv
  BY DEF Init, PinInv, LaunchType, RowType, StoreType, ChosenExists, IndexIsComplete,
         IndexIsRetained, ReadyHasBytes, Retained, NoRow, Holding, LaunchPlaces, Revs

\* The strengthened invariant gives the property.
LEMMA PinImplies == PinInv => PinnedIsRetained
  BY DEF PinInv, PinnedIsRetained, ChosenExists, IndexIsComplete, IndexIsRetained,
         ReadyHasBytes, Retained

\* A step that leaves the rows, the bytes, the launches and the index alone.
LEMMA PinSame ==
    ASSUME PinInv, UNCHANGED <<row, stored, pins, launch>>
    PROVE  PinInv'
  BY DEF PinInv, LaunchType, RowType, StoreType, ChosenExists, IndexIsComplete,
         IndexIsRetained, ReadyHasBytes, Retained

\* Row changes that keep what is ready, and keep the bytes.
LEMMA PinRows ==
    ASSUME PinInv, RowType', UNCHANGED <<stored, pins, launch>>,
           \A r \in Revs : Retained(r)' <=> Retained(r)
    PROVE  PinInv'
  BY DEF PinInv, LaunchType, StoreType, ChosenExists, IndexIsComplete,
         IndexIsRetained, ReadyHasBytes

\* Launches that move without a reference being made or released.
LEMMA PinLaunch ==
    ASSUME PinInv, UNCHANGED <<row, stored, pins>>, LaunchType',
           \A c \in Consumers : launch'[c].at \in Holding \cup {"previewed"} =>
               launch'[c].rev \in Revs,
           \A c \in Consumers : launch'[c].at \in Holding =>
               launch[c].at \in Holding /\ launch'[c].rev = launch[c].rev
    PROVE  PinInv'
  BY DEF PinInv, LaunchType, RowType, StoreType, ChosenExists, IndexIsComplete,
         IndexIsRetained, ReadyHasBytes, Retained

\* fail_capture, when the row in hand may be any revision or none.
LEMMA FailsKeeps ==
    ASSUME PinInv, FailCapture(job.rev), UNCHANGED <<stored, pins, launch>>
    PROVE  PinInv'
<1>1. CASE Capturing(job.rev) /\ job.rev \in Revs
  <2>1. row' = [row EXCEPT ![job.rev].state = "failed"]
    BY <1>1 DEF FailCapture
  <2>2. RowType'
    BY <2>1, <1>1 DEF PinInv, RowType
  <2>3. \A r \in Revs : Retained(r)' <=> Retained(r)
    BY <2>1, <1>1 DEF PinInv, RowType, Retained, Capturing
  <2>4. QED
    BY <2>2, <2>3, PinRows
<1>2. CASE Capturing(job.rev) /\ job.rev \notin Revs
  <2>1. row' = row
    BY <1>2 DEF FailCapture, PinInv, RowType
  <2>2. QED
    BY <2>1, PinSame
<1>3. CASE ~Capturing(job.rev)
  BY <1>3, PinSame DEF FailCapture
<1>4. QED
  BY <1>1, <1>2, <1>3

\* What startup and shutdown make of the captures they find.
LEMMA RestoreKeeps ==
    ASSUME PinInv, Restore
    PROVE  RowType' /\ \A r \in Revs : Retained(r)' <=> Retained(r)
<1>1. CASE row' = row
  BY <1>1 DEF PinInv, RowType, Retained
<1>2. CASE row' = [r \in Revs |-> IF Capturing(r) THEN [row[r] EXCEPT !.state = "failed"]
                                                 ELSE row[r]]
  BY <1>2 DEF PinInv, RowType, Retained, Capturing
<1>3. QED
  BY <1>1, <1>2 DEF Restore

\* Every step of the capture, the acceptances, the exports and the purges.
LEMMA DecisionsKeep == PinInv /\ Decisions => PinInv'
<1> SUFFICES ASSUME PinInv, NEW r \in Revs,
                    \/ OpenCapture(r) \/ VerifiesBundle(r) \/ Accept(r) \/ Purge(r)
                    \/ Damage(r) \/ FindsDamage(r) \/ ExportStarts(r) \/ ExportSettles(r)
             PROVE  PinInv'
  BY DEF Decisions
<1> USE DEF tasksOut, life, files
<1>1. CASE OpenCapture(r)
  <2>0. Predecessor \in Nat
    BY DEF Predecessor, Latest, Revs
  <2>1. PICK p \in Nat : row' = [row EXCEPT ![r] = [NoRow EXCEPT !.state = "capturing", !.pred = p]]
    BY <1>1, <2>0, Zenon DEF OpenCapture
  <2>2. row[r].state = "none"
    BY <1>1 DEF OpenCapture
  <2>3. RowType'
    BY <2>1 DEF PinInv, RowType, NoRow
  <2>4. \A q \in Revs : Retained(q)' <=> Retained(q)
    BY <2>1, <2>2 DEF PinInv, RowType, NoRow, Retained
  <2>5. QED
    BY <1>1, <2>3, <2>4, PinRows DEF OpenCapture
<1>2. CASE VerifiesBundle(r)
  BY <1>2, PinSame DEF VerifiesBundle
<1>3. CASE Accept(r)
  <2>1. CASE row' = row
    BY <1>3, <2>1, PinSame DEF Accept
  <2>2. CASE row' = [row EXCEPT ![r].accepted = TRUE]
    <3>1. RowType' /\ \A q \in Revs : Retained(q)' <=> Retained(q)
      BY <2>2 DEF PinInv, RowType, Retained
    <3>2. QED
      BY <1>3, <3>1, PinRows DEF Accept
  <2>3. QED
    BY <1>3, <2>1, <2>2 DEF Accept
<1>4. CASE Purge(r)
  <2>1. /\ Unpinned(r) /\ UNCHANGED <<pins, launch>>
        /\ row' = [row EXCEPT ![r].state = "purged"] /\ stored' = [stored EXCEPT ![r] = "none"]
    BY <1>4 DEF Purge
  <2>2. RowType' /\ StoreType'
    BY <2>1 DEF PinInv, RowType, StoreType
  <2>3. \A q \in Revs : Retained(q)' <=> Retained(q) /\ q # r
    BY <2>1 DEF PinInv, RowType, Retained
  <2>4. IndexIsRetained'
    BY <2>1, <2>3 DEF PinInv, IndexIsRetained, Unpinned
  <2>5. ReadyHasBytes'
    BY <2>1, <2>3 DEF PinInv, ReadyHasBytes, StoreType
  <2>6. QED
    BY <2>1, <2>2, <2>4, <2>5 DEF PinInv, LaunchType, ChosenExists, IndexIsComplete
<1>5. CASE Damage(r)
  BY <1>5 DEF Damage, PinInv, LaunchType, RowType, StoreType, ChosenExists,
              IndexIsComplete, IndexIsRetained, ReadyHasBytes, Retained
<1>6. CASE FindsDamage(r)
  <2>1. row' = [row EXCEPT ![r].unavailable = TRUE]
    BY <1>6 DEF FindsDamage
  <2>2. RowType' /\ \A q \in Revs : Retained(q)' <=> Retained(q)
    BY <2>1 DEF PinInv, RowType, Retained
  <2>3. QED
    BY <1>6, <2>2, PinRows DEF FindsDamage
<1>7. CASE ExportStarts(r)
  BY <1>7, PinSame DEF ExportStarts
<1>8. CASE ExportSettles(r)
  BY <1>8, PinSame DEF ExportSettles
<1>9. QED
  BY <1>1, <1>2, <1>3, <1>4, <1>5, <1>6, <1>7, <1>8

\* The consumers: a reference is made with the task and released with it.
LEMMA LaunchesKeep == PinInv /\ Launches => PinInv'
<1> SUFFICES ASSUME PinInv, NEW c \in Consumers, NEW r \in Revs, NEW f \in Files,
                    \/ Preview(c, r) \/ AcceptLaunch(c) \/ VerifiesPinned(c)
                    \/ ReadsPayload(c) \/ InstallsFile(c, f) \/ VerifiesInstalled(c)
                    \/ CleanUpConsumer(c) \/ PurgeConsumer(c)
             PROVE  PinInv'
  <2>1. Revs # {} /\ Files # {}
    BY ResultAssumption DEF Revs, Files
  <2>2. QED
    BY <2>1 DEF Launches
<1> USE DEF tasksOut, life, files
<1>1. CASE Preview(c, r)
  <2>1. LaunchType'
    BY <1>1 DEF Preview, PinInv, LaunchType, LaunchPlaces
  <2>2. QED
    BY <1>1, <2>1, PinLaunch DEF Preview, PinInv, LaunchType, ChosenExists, Holding
<1>2. CASE AcceptLaunch(c)
  <2>1. CASE pins' = pins /\ launch' = [launch EXCEPT ![c].at = "none", ![c].rev = 0]
    <3>1. LaunchType'
      BY <2>1 DEF PinInv, LaunchType, LaunchPlaces
    <3>2. UNCHANGED <<row, stored, pins>>
      BY <1>2, <2>1 DEF AcceptLaunch
    <3>3. QED
      BY <2>1, <3>1, <3>2, PinLaunch DEF PinInv, LaunchType, ChosenExists, Holding
  <2>2. CASE /\ Attachable(launch[c].rev) /\ launch' = [launch EXCEPT ![c].at = "accepted"]
             /\ pins' = pins \cup {<<c, launch[c].rev>>}
    <3>1. launch[c].rev \in Revs /\ UNCHANGED <<row, stored>>
      BY <1>2 DEF AcceptLaunch, PinInv, ChosenExists
    <3>2. LaunchType' /\ ChosenExists'
      BY <2>2, <3>1 DEF PinInv, LaunchType, LaunchPlaces, ChosenExists, Holding
    <3>3. IndexIsComplete'
      BY <2>2 DEF PinInv, LaunchType, IndexIsComplete, Holding
    <3>4. IndexIsRetained'
      BY <2>2, <3>1 DEF PinInv, IndexIsRetained, Retained, Attachable, Readable
    <3>5. QED
      BY <3>1, <3>2, <3>3, <3>4 DEF PinInv, RowType, StoreType, ReadyHasBytes, Retained
  <2>3. QED
    BY <1>2, <2>1, <2>2 DEF AcceptLaunch
<1>3. CASE VerifiesPinned(c)
  <2>1. \E p \in {"verified", "failed"} : launch' = [launch EXCEPT ![c].at = p]
    BY <1>3 DEF VerifiesPinned, SpawnFails
  <2>2. LaunchType'
    BY <2>1 DEF PinInv, LaunchType, LaunchPlaces, Holding
  <2>3. launch[c].at = "accepted" /\ UNCHANGED <<row, stored, pins>>
    BY <1>3 DEF VerifiesPinned
  <2>4. QED
    BY <2>1, <2>2, <2>3, PinLaunch DEF PinInv, LaunchType, ChosenExists, Holding
<1>4. CASE ReadsPayload(c)
  <2>1. launch[c].at = "verified" /\ UNCHANGED <<row, stored, pins>>
    BY <1>4 DEF ReadsPayload
  <2>2. PICK b \in {"none", "good", "damaged"} :
          launch' = [launch EXCEPT ![c].at = "installing", ![c].bytes = b]
    BY <1>4, <2>1 DEF ReadsPayload, PinInv, StoreType, ChosenExists, Holding
  <2>3. LaunchType'
    BY <2>2 DEF PinInv, LaunchType, LaunchPlaces, Holding
  <2>4. QED
    BY <2>1, <2>2, <2>3, PinLaunch DEF PinInv, LaunchType, ChosenExists, Holding
<1>5. CASE InstallsFile(c, f)
  <2>1. launch[c].at = "installing" /\ UNCHANGED <<row, stored, pins>>
    BY <1>5 DEF InstallsFile
  <2>2. launch' = launch \/ launch' = [launch EXCEPT ![c].at = "failed"]
    BY <1>5 DEF InstallsFile, SpawnFails
  <2>3. LaunchType'
    BY <2>2 DEF PinInv, LaunchType, LaunchPlaces, Holding
  <2>4. QED
    BY <2>1, <2>2, <2>3, PinLaunch DEF PinInv, LaunchType, ChosenExists, Holding
<1>6. CASE VerifiesInstalled(c)
  <2>1. launch[c].at = "installing" /\ UNCHANGED <<row, stored, pins>>
    BY <1>6 DEF VerifiesInstalled
  <2>2. \/ launch' = [launch EXCEPT ![c].at = "running", ![c].bytes = "none"]
        \/ launch' = [launch EXCEPT ![c].at = "failed"]
    BY <1>6 DEF VerifiesInstalled, SpawnFails
  <2>3. LaunchType'
    BY <2>2 DEF PinInv, LaunchType, LaunchPlaces, Holding
  <2>4. QED
    BY <2>1, <2>2, <2>3, PinLaunch DEF PinInv, LaunchType, ChosenExists, Holding
<1>7. CASE CleanUpConsumer(c)
  <2>1. /\ launch[c].at \in {"running", "failed"} /\ UNCHANGED <<row, stored, pins>>
        /\ launch' = [launch EXCEPT ![c].at = "archived", ![c].bytes = "none"]
    BY <1>7 DEF CleanUpConsumer
  <2>2. LaunchType'
    BY <2>1 DEF PinInv, LaunchType, LaunchPlaces, Holding
  <2>3. QED
    BY <2>1, <2>2, PinLaunch DEF PinInv, LaunchType, ChosenExists, Holding
<1>8. CASE PurgeConsumer(c)
  <2>1. /\ UNCHANGED <<row, stored>> /\ pins' = {p \in pins : p[1] # c}
        /\ launch' = [launch EXCEPT ![c].at = "purged"]
    BY <1>8 DEF PurgeConsumer
  <2>2. LaunchType' /\ ChosenExists'
    BY <2>1 DEF PinInv, LaunchType, LaunchPlaces, ChosenExists, Holding
  <2>3. IndexIsComplete'
    BY <2>1 DEF PinInv, LaunchType, IndexIsComplete, Holding
  <2>4. IndexIsRetained'
    BY <2>1 DEF PinInv, IndexIsRetained, Retained
  <2>5. QED
    BY <2>1, <2>2, <2>3, <2>4 DEF PinInv, RowType, StoreType, ReadyHasBytes, Retained
<1>9. QED
  BY <1>1, <1>2, <1>3, <1>4, <1>5, <1>6, <1>7, <1>8

\* The bytes arrive with the row that says so.
LEMMA FinishKeeps == PinInv /\ FinishCapture => PinInv'
<1> SUFFICES ASSUME PinInv, FinishCapture PROVE PinInv'
  OBVIOUS
<1>1. /\ row' = [row EXCEPT ![job.rev].state = "ready"]
      /\ stored' = [stored EXCEPT ![job.rev] = "good"]
      /\ UNCHANGED <<pins, launch>>
  BY DEF FinishCapture, tasksOut
<1>2. RowType' /\ StoreType'
  BY <1>1 DEF PinInv, RowType, StoreType
<1>3. \A r \in Revs : Retained(r) => Retained(r)'
  BY <1>1 DEF PinInv, RowType, Retained
<1>4. \A r \in Revs : Retained(r)' => stored'[r] # "none"
  BY <1>1 DEF PinInv, RowType, StoreType, ReadyHasBytes, Retained
<1>5. QED
  BY <1>1, <1>2, <1>3, <1>4 DEF PinInv, LaunchType, ChosenExists, IndexIsComplete,
     IndexIsRetained, ReadyHasBytes

\* What goes on by itself: the capture, the documents, the restarts.
LEMMA ProgressKeeps == PinInv /\ Progress => PinInv'
<1> SUFFICES ASSUME PinInv, Progress PROVE PinInv'
  OBVIOUS
<1> USE DEF tasksOut, life, files
<1>1. CASE JobBegins
  BY <1>1, PinSame, FailsKeeps DEF JobBegins
<1>2. CASE Collect \/ OpenFile \/ ReadFile
  BY <1>2, PinSame DEF Collect, OpenFile, ReadFile
<1>3. CASE WalkerRefuses \/ CancelledReaderEnds
  BY <1>3, FailsKeeps DEF WalkerRefuses, CancelledReaderEnds, CaptureFails
<1>4. CASE FinishCapture
  BY <1>4, FinishKeeps
<1>5. CASE \E p \in Publishers : ReadsRows(p) \/ ReadsVersion(p)
  BY <1>5, PinSame DEF ReadsRows, ReadsVersion
<1>6. CASE \E t \in Threads : Delivered(t)
  BY <1>6, PinSame DEF Delivered
<1>7. CASE Stopped
  BY <1>7, RestoreKeeps, PinRows DEF Stopped
<1>8. CASE Restart
  <2>1. RowType' /\ (\A r \in Revs : Retained(r)' <=> Retained(r))
        /\ UNCHANGED <<stored, pins>>
    BY <1>8, RestoreKeeps DEF Restart
  <2>2. launch' = [c \in Consumers |->
          IF launch[c].at \in {"accepted", "verified", "installing"}
            THEN [launch[c] EXCEPT !.at = "failed", !.bytes = "none"]
          ELSE IF launch[c].at = "previewed" THEN [at |-> "none", rev |-> 0, bytes |-> "none"]
          ELSE launch[c]]
    BY <1>8 DEF Restart
  <2>3. LaunchType'
    BY <2>2 DEF PinInv, LaunchType, LaunchPlaces, Holding
  <2>4. \A c \in Consumers : launch'[c].at \in Holding \cup {"previewed"} =>
            launch[c].at \in Holding /\ launch'[c].rev = launch[c].rev
    BY <2>2 DEF PinInv, LaunchType, LaunchPlaces, Holding
  <2>5. QED
    BY <2>1, <2>3, <2>4 DEF PinInv, StoreType, ChosenExists, IndexIsComplete,
       IndexIsRetained, ReadyHasBytes, Holding
<1>9. QED
  BY <1>1, <1>2, <1>3, <1>4, <1>5, <1>6, <1>7, <1>8 DEF Progress

\* The producing task goes only when nothing of it is retained, and so
\* nothing of it pinned.
LEMMA WorldKeeps == PinInv /\ World => PinInv'
<1> SUFFICES ASSUME PinInv, World PROVE PinInv'
  OBVIOUS
<1> USE DEF tasksOut, life, files
<1>1. CASE CleanUpProducer \/ OtherTakes \/ OtherLeaves \/ Kill \/ \E f \in Files : Edit(f)
  BY <1>1, PinSame DEF CleanUpProducer, OtherTakes, OtherLeaves, Kill, Edit
<1>2. CASE Shutdown
  BY <1>2, PinSame, FailsKeeps DEF Shutdown, CaptureFails
<1>3. CASE PurgeProducer
  <2>1. /\ row' = [r \in Revs |-> NoRow] /\ stored' = [r \in Revs |-> "none"]
        /\ UNCHANGED <<pins, launch>> /\ \A r \in Revs : ~Retained(r)
    BY <1>3 DEF PurgeProducer, NothingRetained
  <2>2. RowType' /\ StoreType' /\ \A r \in Revs : ~Retained(r)'
    BY <2>1 DEF RowType, StoreType, NoRow, Retained
  <2>3. \A c \in Consumers, r \in Revs : <<c, r>> \notin pins
    BY <2>1 DEF PinInv, IndexIsRetained
  <2>4. QED
    BY <2>1, <2>2, <2>3 DEF PinInv, LaunchType, ChosenExists, IndexIsComplete,
       IndexIsRetained, ReadyHasBytes
<1>4. QED
  BY <1>1, <1>2, <1>3 DEF World

\* Every step.
LEMMA PinStep == PinInv /\ [Next]_vars => PinInv'
<1>1. ASSUME PinInv, UNCHANGED vars PROVE PinInv'
  BY <1>1, PinSame DEF vars, tasksOut
<1>2. QED
  BY <1>1, ProgressKeeps, DecisionsKeep, LaunchesKeep, WorldKeeps DEF Next

\* The revision a task was launched from keeps its bytes while the task exists
\* (assert_result_unpinned_on, assert_no_retained_results, and the
\* reservation that creates the task together with its references).
THEOREM PinnedIsRetainedHolds == Spec => []PinnedIsRetained
  BY PinInit, PinStep, PinImplies, PTL DEF Spec

-----------------------------------------------------------------------------
(* The reader and the hold it reads under                                   *)

\* The reader goes on, or the coroutine learns how it ended.
LEMMA ProgressHeld == ReadingIsHeld /\ Progress => ReadingIsHeld'
<1> SUFFICES ASSUME ReadingIsHeld, Progress PROVE ReadingIsHeld'
  OBVIOUS
<1> USE DEF ReadingIsHeld, Reading, Idle, files, tasksOut, life
<1>1. CASE JobBegins
  BY <1>1 DEF JobBegins
<1>2. CASE Collect \/ OpenFile \/ ReadFile
  BY <1>2 DEF Collect, OpenFile, ReadFile
<1>3. CASE WalkerRefuses \/ CancelledReaderEnds
  BY <1>3 DEF WalkerRefuses, CancelledReaderEnds, CaptureFails
<1>4. CASE FinishCapture
  BY <1>4 DEF FinishCapture
<1>5. CASE \E p \in Publishers : ReadsRows(p) \/ ReadsVersion(p)
  BY <1>5 DEF ReadsRows, ReadsVersion
<1>6. CASE \E t \in Threads : Delivered(t)
  BY <1>6 DEF Delivered
<1>7. CASE Stopped
  BY <1>7 DEF Stopped, MemoryLost
<1>8. CASE Restart
  BY <1>8 DEF Restart
<1>9. QED
  BY <1>1, <1>2, <1>3, <1>4, <1>5, <1>6, <1>7, <1>8 DEF Progress

\* Nobody else takes the workspace or gives it up.
LEMMA OthersHeld == ReadingIsHeld /\ (Decisions \/ Launches \/ World) => ReadingIsHeld'
<1> SUFFICES ASSUME ReadingIsHeld, Decisions \/ Launches \/ World PROVE ReadingIsHeld'
  OBVIOUS
<1> USE DEF ReadingIsHeld, Reading, Idle, files, tasksOut, life
<1>1. CASE Decisions
  <2>1. PICK r \in Revs :
          \/ OpenCapture(r) \/ VerifiesBundle(r) \/ Accept(r) \/ Purge(r)
          \/ Damage(r) \/ FindsDamage(r) \/ ExportStarts(r) \/ ExportSettles(r)
    BY <1>1 DEF Decisions
  <2>2. CASE OpenCapture(r)
    BY <2>2 DEF OpenCapture
  <2>3. CASE ~OpenCapture(r)
    BY <2>1, <2>3 DEF VerifiesBundle, Accept, Purge, Damage, FindsDamage, ExportStarts,
       ExportSettles
  <2>4. QED
    BY <2>2, <2>3
<1>2. CASE Launches
  BY <1>2 DEF Launches, Preview, AcceptLaunch, VerifiesPinned, ReadsPayload, InstallsFile,
     VerifiesInstalled, CleanUpConsumer, PurgeConsumer
<1>3. CASE World
  <2>1. CASE CleanUpProducer \/ PurgeProducer \/ \E f \in Files : Edit(f)
    BY <2>1 DEF CleanUpProducer, PurgeProducer, Edit
  <2>2. CASE OtherTakes \/ OtherLeaves
    BY <2>2 DEF OtherTakes, OtherLeaves, Admitted
  <2>3. CASE Shutdown
    BY <2>3 DEF Shutdown, CaptureFails
  <2>4. CASE Kill
    BY <2>4 DEF Kill, MemoryLost
  <2>5. QED
    BY <1>3, <2>1, <2>2, <2>3, <2>4 DEF World
<1>4. QED
  BY <1>1, <1>2, <1>3

\* A thread that reads a clone does so under the hold of its capture, through
\* cancellation and shutdown (_read_bounded waits for the reader).
THEOREM ReadingIsHeldAlways == Spec => []ReadingIsHeld
<1>1. Init => ReadingIsHeld
  BY DEF Init, ReadingIsHeld, Reading, Idle
<1>2. ReadingIsHeld /\ [Next]_vars => ReadingIsHeld'
  <2>1. ASSUME ReadingIsHeld, UNCHANGED vars PROVE ReadingIsHeld'
    BY <2>1 DEF vars, ReadingIsHeld, Reading
  <2>2. QED
    BY <2>1, ProgressHeld, OthersHeld DEF Next
<1>3. QED
  BY <1>1, <1>2, PTL DEF Spec

-----------------------------------------------------------------------------
(* What the page shows                                                      *)

PubShape == pub = [p \in Publishers |-> pub[p]]

\* A document read at the version the task still has shows what is there.
DocTrue(p) ==
    /\ pub[p].at \in {"read", "built"} => /\ pub[p].asOf \in Nat /\ pub[p].asOf <= version
                                          /\ pub[p].asOf = version => pub[p].doc = Doc
    /\ pub[p].at = "built" => /\ pub[p].version \in Nat /\ pub[p].version <= version
                              /\ pub[p].asOf <= pub[p].version

ViewTrue == /\ view.asOf \in Nat /\ view.version \in Nat
            /\ view.asOf <= view.version /\ view.version <= version
            /\ view.asOf = version => view.doc = Doc

\* Somebody will still publish the version the client has not seen.
Pending == \/ view.version = version
           \/ daemon = "down"
           \/ \E p \in Publishers : \/ pub[p].at \in {"changed", "read"}
                                    \/ pub[p].at = "built" /\ pub[p].version = version

PageInv == /\ version \in Nat /\ PubShape
           /\ producer # "deleted" => /\ \A p \in Publishers : DocTrue(p)
                                      /\ ViewTrue /\ Pending

\* The strengthened invariant gives the property.
LEMMA PageImplies == PageInv => PageCatchesUp
  BY DEF PageInv, Pending, ViewTrue, PageCatchesUp

LEMMA PageInit == Init => PageInv
  BY DEF Init, PageInv, PubShape, Quiet, DocTrue, ViewTrue, Pending, Doc

\* What a step makes of the rows, the pins and the exports: nothing, or a new
\* version of the task.
Versioned == \/ version' = version /\ UNCHANGED <<row, pins, exporting>>
             \/ version' = version + 1

StaysDeleted == producer = "deleted" => producer' = "deleted"

\* What was true of a document stays true of it.
LEMMA DocStays ==
    ASSUME version \in Nat, Versioned, NEW p \in Publishers, DocTrue(p), pub'[p] = pub[p]
    PROVE  DocTrue(p)'
<1>1. CASE version' = version /\ UNCHANGED <<row, pins, exporting>>
  BY <1>1 DEF DocTrue, Doc
<1>2. CASE version' = version + 1
  <2>1. \A n \in Nat : n <= version => n <= version' /\ n # version'
    BY <1>2
  <2>2. QED
    BY <2>1 DEF DocTrue
<1>3. QED
  BY <1>1, <1>2 DEF Versioned

LEMMA ViewStays ==
    ASSUME version \in Nat, Versioned, ViewTrue, view' = view
    PROVE  ViewTrue'
<1>1. CASE version' = version /\ UNCHANGED <<row, pins, exporting>>
  BY <1>1 DEF ViewTrue, Doc
<1>2. CASE version' = version + 1
  BY <1>2 DEF ViewTrue
<1>3. QED
  BY <1>1, <1>2 DEF Versioned

\* A step that changes nothing a document shows.
LEMMA PageSame ==
    ASSUME PageInv, UNCHANGED <<row, pins, exporting, version, pub, view>>, StaysDeleted,
           daemon = "down" => daemon' = "down"
    PROVE  PageInv'
<1>1. Doc' = Doc
  BY DEF Doc
<1>2. QED
  BY <1>1 DEF PageInv, PubShape, DocTrue, ViewTrue, Pending, StaysDeleted

\* A commit, followed by its publication where it was made.
LEMMA PageCommits ==
    ASSUME PageInv, Versioned, StaysDeleted, view' = view,
           NEW p \in Publishers, pub' = [pub EXCEPT ![p] = Changed]
    PROVE  PageInv'
<1>1. /\ pub'[p].at = "changed" /\ \A q \in Publishers : q # p => pub'[q] = pub[q]
      /\ PubShape'
  BY DEF PageInv, PubShape, Changed, Quiet
<1>2. version' \in Nat
  BY DEF PageInv, Versioned
<1>3. ASSUME producer # "deleted", NEW q \in Publishers PROVE DocTrue(q)'
  <2>1. CASE q = p
    BY <1>1, <2>1 DEF DocTrue
  <2>2. CASE q # p
    BY <1>1, <1>3, <2>2, DocStays DEF PageInv
  <2>3. QED
    BY <2>1, <2>2
<1>4. producer # "deleted" => ViewTrue'
  BY ViewStays DEF PageInv
<1>5. Pending'
  BY <1>1 DEF Pending
<1>6. QED
  BY <1>1, <1>2, <1>3, <1>4, <1>5 DEF PageInv, StaysDeleted

\* The daemon stops: nobody publishes what it had in hand.
LEMMA PageStops ==
    ASSUME PageInv, Versioned, StaysDeleted, view' = view, daemon' = "down",
           pub' = [p \in Publishers |-> Quiet]
    PROVE  PageInv'
<1>1. PubShape' /\ \A p \in Publishers : DocTrue(p)'
  BY DEF PubShape, DocTrue, Quiet
<1>2. version' \in Nat /\ Pending'
  BY DEF PageInv, Versioned, Pending
<1>3. producer # "deleted" => ViewTrue'
  BY ViewStays DEF PageInv
<1>4. QED
  BY <1>1, <1>2, <1>3 DEF PageInv, StaysDeleted

\* A thread is free to make the next projection.
LEMMA ThreadPage ==
    ASSUME PageInv, Versioned, StaysDeleted, view' = view, ThreadPublishes
    PROVE  PageInv'
<1>1. PICK t \in Publishers : pub' = [pub EXCEPT ![t] = Changed]
  BY DEF ThreadPublishes, Publishers
<1>2. QED
  BY <1>1, PageCommits

LEMMA LoopPage ==
    ASSUME PageInv, Versioned, StaysDeleted, view' = view, LoopPublishes
    PROVE  PageInv'
  BY PageCommits DEF LoopPublishes, Publishers

LEMMA FailVersions ==
    ASSUME FailCapture(job.rev), UNCHANGED <<pins, exporting>>
    PROVE  Versioned
  BY DEF FailCapture, Versioned, Bump

LEMMA RestoreVersions ==
    ASSUME Restore, UNCHANGED <<pins, exporting>>
    PROVE  Versioned
  BY DEF Restore, Versioned, Bump

\* The rows are read, with the version they have.
LEMMA RowsPage ==
    ASSUME PageInv, NEW p \in Publishers, ReadsRows(p)
    PROVE  PageInv'
<1>1. /\ UNCHANGED <<row, pins, exporting, version, producer, view, daemon>>
      /\ pub' = [pub EXCEPT ![p] = [at |-> "read", doc |-> Doc, version |-> 0, asOf |-> version]]
  BY DEF ReadsRows, life, Quiet
<1>2. Doc' = Doc
  BY <1>1 DEF Doc
<1>3. /\ pub'[p].at = "read" /\ pub'[p].doc = Doc /\ pub'[p].asOf = version
      /\ \A q \in Publishers : q # p => pub'[q] = pub[q]
      /\ PubShape'
  BY <1>1 DEF PageInv, PubShape
<1>4. DocTrue(p)'
  BY <1>1, <1>2, <1>3 DEF PageInv, DocTrue
<1>5. \A q \in Publishers : q # p /\ DocTrue(q) => DocTrue(q)'
  BY <1>1, <1>2, <1>3 DEF DocTrue
<1>6. Pending'
  BY <1>3 DEF Pending
<1>7. ViewTrue => ViewTrue'
  BY <1>1, <1>2 DEF ViewTrue
<1>8. QED
  BY <1>1, <1>3, <1>4, <1>5, <1>6, <1>7 DEF PageInv

\* The client takes a document that is not older than the one it shows.
LEMMA AppliedTrue ==
    ASSUME PageInv, producer # "deleted", NEW p \in Publishers, NEW v \in Nat,
           v <= version, pub[p].at \in {"read", "built"}, pub[p].asOf <= v, Applied(p, v),
           UNCHANGED <<row, pins, exporting, version>>
    PROVE  ViewTrue' /\ (v = version => view'.version = version)
                     /\ (view.version = version => view'.version = version)
<1>1. Doc' = Doc
  BY DEF Doc
<1>2. ViewTrue /\ DocTrue(p) /\ version \in Nat
  BY DEF PageInv
<1>3. CASE view' = view /\ v < view.version
  BY <1>1, <1>2, <1>3 DEF ViewTrue
<1>4. CASE view' = [doc |-> pub[p].doc, version |-> v, asOf |-> pub[p].asOf] /\ ~(v < view.version)
  BY <1>1, <1>2, <1>4 DEF ViewTrue, DocTrue
<1>5. QED
  BY <1>3, <1>4 DEF Applied

\* A projection has been given up to the client.
LEMMA QuietPage ==
    ASSUME PageInv, NEW p \in Publishers, pub' = [pub EXCEPT ![p] = Quiet],
           UNCHANGED <<row, pins, exporting, version, producer, daemon>>,
           producer # "deleted" =>
               ViewTrue' /\ (view.version = version => view'.version = version),
           pub[p].at = "built" \/ view'.version = version,
           pub[p].at = "built" /\ pub[p].version = version => view'.version = version
    PROVE  PageInv'
<1>1. /\ pub'[p] = Quiet /\ PubShape' /\ \A q \in Publishers : q # p => pub'[q] = pub[q]
  BY DEF PageInv, PubShape, Quiet
<1>2. Doc' = Doc
  BY DEF Doc
<1>3. DocTrue(p)'
  BY <1>1 DEF DocTrue, Quiet
<1>4. \A q \in Publishers : q # p /\ DocTrue(q) => DocTrue(q)'
  BY <1>1, <1>2 DEF DocTrue
<1>5. ASSUME producer # "deleted" PROVE Pending'
  <2>1. CASE view.version = version \/ daemon = "down" \/ view'.version = version
    BY <1>5, <2>1 DEF Pending
  <2>2. CASE ~(view.version = version \/ daemon = "down" \/ view'.version = version)
    <3>1. PICK q \in Publishers : \/ pub[q].at \in {"changed", "read"}
                                  \/ pub[q].at = "built" /\ pub[q].version = version
      BY <1>5, <2>2 DEF PageInv, Pending
    <3>2. q # p
      BY <2>2, <3>1
    <3>3. QED
      BY <1>1, <3>1, <3>2 DEF Pending
  <2>3. QED
    BY <2>1, <2>2
<1>6. QED
  BY <1>1, <1>3, <1>4, <1>5 DEF PageInv

\* The version is read, on the loop with the broadcast behind it.
LEMMA VersionPage ==
    ASSUME PageInv, NEW p \in Publishers, ReadsVersion(p)
    PROVE  PageInv'
<1>1. /\ UNCHANGED <<row, pins, exporting, version, producer, daemon>>
      /\ pub[p].at = "read" /\ version \in Nat
  BY DEF ReadsVersion, life, PageInv
<1>2. CASE producer = "deleted"
  <2>1. PubShape'
    <3>1. CASE pub' = [pub EXCEPT ![p] = Quiet]
      BY <3>1 DEF PageInv, PubShape, Quiet
    <3>2. CASE pub' = [pub EXCEPT ![p] = [at |-> "built", doc |-> pub[p].doc,
                                        version |-> version, asOf |-> pub[p].asOf]]
      BY <3>2 DEF PageInv, PubShape
    <3>3. QED
      BY <3>1, <3>2 DEF ReadsVersion
  <2>2. QED
    BY <1>1, <1>2, <2>1 DEF PageInv
<1>3. CASE producer # "deleted"
  <2>0. DocTrue(p)
    BY <1>3 DEF PageInv
  <2>1. CASE Applied(p, version) /\ pub' = [pub EXCEPT ![p] = Quiet]
    <3>1. ViewTrue' /\ view'.version = version
      BY <1>1, <1>3, <2>0, <2>1, AppliedTrue DEF DocTrue
    <3>2. QED
      BY <1>1, <2>1, <3>1, QuietPage
  <2>2. CASE pub' = [pub EXCEPT ![p] = [at |-> "built", doc |-> pub[p].doc,
                                        version |-> version, asOf |-> pub[p].asOf]] /\ view' = view
    <3>1. /\ pub'[p].at = "built" /\ pub'[p].version = version
          /\ pub'[p].doc = pub[p].doc /\ pub'[p].asOf = pub[p].asOf
          /\ PubShape' /\ \A q \in Publishers : q # p => pub'[q] = pub[q]
      BY <2>2 DEF PageInv, PubShape
    <3>2. Doc' = Doc
      BY <1>1 DEF Doc
    <3>3. DocTrue(p)'
      BY <1>1, <2>0, <3>1, <3>2 DEF DocTrue
    <3>4. \A q \in Publishers : q # p /\ DocTrue(q) => DocTrue(q)'
      BY <1>1, <3>1, <3>2 DEF DocTrue
    <3>5. Pending' /\ (ViewTrue => ViewTrue')
      BY <1>1, <2>2, <3>1, <3>2 DEF Pending, ViewTrue
    <3>6. QED
      BY <1>1, <1>3, <3>1, <3>3, <3>4, <3>5 DEF PageInv
  <2>3. QED
    BY <2>1, <2>2 DEF ReadsVersion
<1>4. QED
  BY <1>2, <1>3

\* A thread's document reaches the client.
LEMMA DeliveredPage ==
    ASSUME PageInv, NEW t \in Threads, Delivered(t)
    PROVE  PageInv'
<1>1. /\ UNCHANGED <<row, pins, exporting, version, producer, daemon>>
      /\ pub[t].at = "built" /\ Applied(t, pub[t].version) /\ pub' = [pub EXCEPT ![t] = Quiet]
      /\ t \in Publishers /\ version \in Nat
  BY DEF Delivered, life, PageInv, Publishers
<1>2. CASE producer = "deleted"
  <2>1. PubShape'
    BY <1>1 DEF PageInv, PubShape, Quiet
  <2>2. QED
    BY <1>1, <1>2, <2>1 DEF PageInv
<1>3. CASE producer # "deleted"
  <2>1. DocTrue(t)
    BY <1>1, <1>3 DEF PageInv
  <2>2. /\ ViewTrue' /\ (pub[t].version = version => view'.version = version)
        /\ (view.version = version => view'.version = version)
    BY <1>1, <1>3, <2>1, AppliedTrue DEF DocTrue
  <2>3. QED
    BY <1>1, <2>2, QuietPage
<1>4. QED
  BY <1>2, <1>3

\* The next process shows the client a snapshot.
LEMMA RestartPage ==
    ASSUME PageInv, Restart
    PROVE  PageInv'
<1>1. /\ UNCHANGED <<pins, exporting, producer, pub>>
      /\ view' = [doc |-> Doc', version |-> version', asOf |-> version']
      /\ Versioned
  BY RestoreVersions DEF Restart
<1>2. version' \in Nat /\ PubShape'
  BY <1>1 DEF PageInv, Versioned, PubShape
<1>3. producer # "deleted" => \A p \in Publishers : DocTrue(p)'
  BY <1>1, DocStays DEF PageInv
<1>4. ViewTrue' /\ Pending'
  BY <1>1, <1>2 DEF ViewTrue, Pending
<1>5. QED
  BY <1>1, <1>2, <1>3, <1>4 DEF PageInv

LEMMA ProgressPage == PageInv /\ Progress => PageInv'
<1> SUFFICES ASSUME PageInv, Progress PROVE PageInv'
  OBVIOUS
<1> USE DEF life, StaysDeleted
<1>1. CASE JobBegins
  <2>1. CASE FailCapture(job.rev) /\ LoopPublishes
    BY <1>1, <2>1, FailVersions, LoopPage DEF JobBegins
  <2>2. CASE UNCHANGED <<row, version, pub>>
    BY <1>1, <2>2, PageSame DEF JobBegins
  <2>3. QED
    BY <1>1, <2>1, <2>2 DEF JobBegins
<1>2. CASE Collect \/ OpenFile \/ ReadFile
  BY <1>2, PageSame DEF Collect, OpenFile, ReadFile
<1>3. CASE WalkerRefuses \/ CancelledReaderEnds
  BY <1>3, FailVersions, LoopPage DEF WalkerRefuses, CancelledReaderEnds, CaptureFails
<1>4. CASE FinishCapture
  BY <1>4, LoopPage DEF FinishCapture, Bump, Versioned
<1>5. CASE \E p \in Publishers : ReadsRows(p) \/ ReadsVersion(p)
  BY <1>5, RowsPage, VersionPage
<1>6. CASE \E t \in Threads : Delivered(t)
  BY <1>6, DeliveredPage
<1>7. CASE Stopped
  BY <1>7, RestoreVersions, PageStops DEF Stopped, MemoryLost
<1>8. CASE Restart
  BY <1>8, RestartPage
<1>9. QED
  BY <1>1, <1>2, <1>3, <1>4, <1>5, <1>6, <1>7, <1>8 DEF Progress

LEMMA OthersPage == PageInv /\ (Decisions \/ Launches \/ World) => PageInv'
<1> SUFFICES ASSUME PageInv, Decisions \/ Launches \/ World PROVE PageInv'
  OBVIOUS
<1> USE DEF life, StaysDeleted, Versioned, Bump
<1>1. CASE Decisions
  <2>1. PICK r \in Revs :
          \/ OpenCapture(r) \/ VerifiesBundle(r) \/ Accept(r) \/ Purge(r)
          \/ Damage(r) \/ FindsDamage(r) \/ ExportStarts(r) \/ ExportSettles(r)
    BY <1>1 DEF Decisions
  <2>2. CASE OpenCapture(r) \/ ExportStarts(r) \/ ExportSettles(r)
    BY <2>2, LoopPage DEF OpenCapture, ExportStarts, ExportSettles
  <2>3. CASE Purge(r) \/ FindsDamage(r)
    BY <2>3, ThreadPage DEF Purge, FindsDamage
  <2>4. CASE Accept(r)
    <3>1. CASE Bump /\ ThreadPublishes
      BY <2>4, <3>1, ThreadPage DEF Accept
    <3>2. CASE UNCHANGED <<row, version, pub>>
      BY <2>4, <3>2, PageSame DEF Accept
    <3>3. QED
      BY <2>4, <3>1, <3>2 DEF Accept
  <2>5. CASE VerifiesBundle(r) \/ Damage(r)
    BY <2>5, PageSame DEF VerifiesBundle, Damage
  <2>6. QED
    BY <2>1, <2>2, <2>3, <2>4, <2>5
<1>2. CASE Launches
  <2>1. PICK c \in Consumers :
          \/ \E r \in Revs : Preview(c, r)
          \/ AcceptLaunch(c) \/ VerifiesPinned(c) \/ ReadsPayload(c)
          \/ \E f \in Files : InstallsFile(c, f)
          \/ VerifiesInstalled(c) \/ CleanUpConsumer(c) \/ PurgeConsumer(c)
    BY <1>2 DEF Launches
  <2>2. CASE AcceptLaunch(c)
    <3>1. CASE Bump /\ LoopPublishes
      BY <2>2, <3>1, LoopPage DEF AcceptLaunch
    <3>2. CASE UNCHANGED <<pins, version, pub>>
      BY <2>2, <3>2, PageSame DEF AcceptLaunch
    <3>3. QED
      BY <2>2, <3>1, <3>2 DEF AcceptLaunch
  <2>3. CASE PurgeConsumer(c)
    BY <2>3, ThreadPage DEF PurgeConsumer
  <2>4. CASE ~AcceptLaunch(c) /\ ~PurgeConsumer(c)
    BY <2>1, <2>4, PageSame DEF Preview, VerifiesPinned, ReadsPayload, InstallsFile,
       VerifiesInstalled, CleanUpConsumer
  <2>5. QED
    BY <2>2, <2>3, <2>4
<1>3. CASE World
  <2>1. CASE CleanUpProducer \/ OtherTakes \/ OtherLeaves \/ \E f \in Files : Edit(f)
    BY <2>1, PageSame DEF CleanUpProducer, OtherTakes, OtherLeaves, Edit
  <2>2. CASE PurgeProducer
    BY <2>2 DEF PurgeProducer, PageInv, PubShape
  <2>3. CASE Shutdown
    <3>1. CASE CaptureFails
      BY <2>3, <3>1, FailVersions, LoopPage DEF Shutdown, CaptureFails
    <3>2. CASE UNCHANGED <<row, version, pub>>
      BY <2>3, <3>2, PageSame DEF Shutdown
    <3>3. QED
      BY <2>3, <3>1, <3>2 DEF Shutdown
  <2>4. CASE Kill
    BY <2>4, PageStops DEF Kill, MemoryLost
  <2>5. QED
    BY <1>3, <2>1, <2>2, <2>3, <2>4 DEF World
<1>4. QED
  BY <1>1, <1>2, <1>3

\* Whatever the order in which the loop and any number of request threads
\* publish, and wherever the daemon stops, the page catches up with the
\* registry (ResultManager.projection and publish, the reducer's version test).
THEOREM PageCatchesUpHolds == Spec => []PageCatchesUp
<1>1. PageInv /\ [Next]_vars => PageInv'
  <2>1. ASSUME PageInv, UNCHANGED vars PROVE PageInv'
    BY <2>1, PageSame DEF vars, life, StaysDeleted
  <2>2. QED
    BY <2>1, ProgressPage, OthersPage DEF Next
<1>2. QED
  BY <1>1, PageInit, PageImplies, PTL DEF Spec

-----------------------------------------------------------------------------
(* What a capture puts together                                             *)

Identity == [ino : Nat, mtime : Nat]

WsType == ws \in [Files -> Identity]

JobType == job \in [at : {"idle", "created", "collecting", "reading", "opened", "proving"},
                    rev : Nat, next : Files, cancelled : BOOLEAN,
                    admitted : [Files -> Identity], opened : Identity,
                    got : [Files -> Identity], asOf : [Files -> Identity]]

\* An edit replaces a file or moves its modification time, and neither comes
\* back: what is equal at both ends of an interval was equal all through it.
NotAfter(a, b) == a.ino <= b.ino /\ a.mtime <= b.mtime

\* Files are admitted in order; what was admitted is not ahead of the file.
AdmittedBefore == job.at = "collecting" =>
    \A f \in Files : f < job.next => NotAfter(job.admitted[f], ws[f])

\* The instant of the bundle lies between the admission and the reads.
InstantBetween == job.at \in {"reading", "opened"} =>
    \A f \in Files : /\ NotAfter(job.admitted[f], job.asOf[f])
                     /\ NotAfter(job.asOf[f], ws[f])

\* The walk begins with the first file.
StartsAtFirst == job.at \in {"idle", "created"} => job.next = 1

\* What was read so far is what the files were at that instant.
ReadAsOf == /\ job.at \in {"reading", "opened"} =>
                 \A f \in Files : f < job.next => job.got[f] = job.asOf[f]
            /\ job.at = "opened" => job.opened = job.asOf[job.next]
            /\ job.at = "proving" => job.got = job.asOf

CaptureInv == /\ WsType /\ JobType /\ StartsAtFirst /\ AdmittedBefore
              /\ InstantBetween /\ ReadAsOf

\* The files are read from the first to the last.
LEMMA FirstFile == 1 \in Files /\ NFiles \in Files /\ \A f \in Files : f # NFiles => f + 1 \in Files
  BY ResultAssumption DEF Files

\* The job record of no capture.
LEMMA IdleType ==
    /\ Idle.at = "idle" /\ Idle.next = 1
    /\ Idle \in [at : {"idle"}, rev : Nat, next : Files, cancelled : BOOLEAN,
                 admitted : [Files -> Identity], opened : Identity,
                 got : [Files -> Identity], asOf : [Files -> Identity]]
<1>1. Nothing \in [Files -> Identity] /\ NoIdentity \in Identity
  BY DEF Nothing, NoIdentity, Identity
<1>2. QED
  BY <1>1, FirstFile DEF Idle

\* No capture is under way at first.
LEMMA CaptureInit == Init => CaptureInv
  BY IdleType, FirstFile DEF Init, CaptureInv, WsType, JobType, StartsAtFirst, AdmittedBefore, InstantBetween, ReadAsOf,
     Idle, Identity

\* No capture, or one that has seen no file yet.
LEMMA CaptureFresh ==
    ASSUME WsType', JobType', job'.at \in {"idle", "created"}, job'.next = 1
    PROVE  CaptureInv'
  BY DEF CaptureInv, StartsAtFirst, AdmittedBefore, InstantBetween, ReadAsOf

\* A capture is over.
LEMMA CaptureIdle ==
    ASSUME CaptureInv, ws' = ws, job' = Idle
    PROVE  CaptureInv'
<1>1. JobType' /\ job'.at = "idle" /\ job'.next = 1 /\ WsType'
  BY IdleType DEF JobType, CaptureInv, WsType
<1>2. QED
  BY <1>1, CaptureFresh

\* A step that leaves the capture and the files alone.
LEMMA CaptureSame ==
    ASSUME CaptureInv, ws' = ws, job' = job
    PROVE  CaptureInv'
  BY DEF CaptureInv, WsType, JobType, StartsAtFirst, AdmittedBefore, InstantBetween, ReadAsOf

\* A cancelled capture goes on reading what it reads.
LEMMA CaptureCancelled ==
    ASSUME CaptureInv, ws' = ws, job' = [job EXCEPT !.cancelled = TRUE]
    PROVE  CaptureInv'
<1> USE DEF CaptureInv
<1>1. JobType' /\ WsType'
  BY DEF JobType, WsType
<1>2. /\ job'.at = job.at /\ job'.next = job.next /\ job'.admitted = job.admitted
      /\ job'.opened = job.opened /\ job'.got = job.got /\ job'.asOf = job.asOf
  BY DEF JobType
<1>3. QED
  BY <1>1, <1>2 DEF StartsAtFirst, AdmittedBefore, InstantBetween, ReadAsOf

\* Edits only move identities on.
LEMMA CaptureEdited == ASSUME CaptureInv, NEW f \in Files, Edit(f) PROVE CaptureInv'
<1> USE DEF CaptureInv
<1>1. job' = job
  BY DEF Edit
<1>2. \/ ws' = [ws EXCEPT ![f].mtime = @ + 1]
      \/ ws' = [ws EXCEPT ![f].ino = @ + 1]
  BY DEF Edit
<1>3. WsType' /\ \A g \in Files : NotAfter(ws[g], ws'[g])
  BY <1>2 DEF WsType, Identity, NotAfter
<1>4. AdmittedBefore'
  BY <1>1, <1>3 DEF AdmittedBefore, JobType, WsType, Identity, NotAfter
<1>5. InstantBetween'
  BY <1>1, <1>3 DEF InstantBetween, JobType, WsType, Identity, NotAfter
<1>6. QED
  BY <1>1, <1>3, <1>4, <1>5 DEF JobType, StartsAtFirst, ReadAsOf

\* The last admission is the instant the bundle is meant to be of.
LEMMA CaptureCollected == CaptureInv /\ Collect => CaptureInv'
<1> SUFFICES ASSUME CaptureInv, Collect PROVE CaptureInv'
  OBVIOUS
<1> USE DEF CaptureInv
<1>0. /\ ws' = ws /\ WsType' /\ job.at = "collecting" /\ job.next \in Files /\ NFiles \in Files
      /\ \A f \in Files : f \in Nat /\ f <= NFiles
      /\ \A f \in Files : ws[f] \in Identity /\ NotAfter(ws[f], ws[f])
  <2>1. ws' = ws /\ WsType' /\ job.at = "collecting" /\ job.next \in Files
    BY DEF Collect, files, WsType, JobType
  <2>2. NFiles \in Files /\ \A f \in Files : f \in Nat /\ f <= NFiles
    BY FirstFile, ResultAssumption DEF Files
  <2>3. \A f \in Files : ws[f] \in Identity /\ NotAfter(ws[f], ws[f])
    BY DEF WsType, Identity, NotAfter
  <2>4. QED
    BY <2>1, <2>2, <2>3
<1>1. CASE job.next = NFiles
  <2>1. job' = [job EXCEPT !.at = "reading", !.next = 1, !.admitted[NFiles] = ws[NFiles],
                           !.asOf = ws]
    BY <1>1 DEF Collect
  <2>2. JobType'
    BY <1>0, <2>1, FirstFile DEF JobType, WsType
  <2>3. /\ job'.at = "reading" /\ job'.next = 1 /\ job'.asOf = ws
        /\ job'.admitted = [job.admitted EXCEPT ![NFiles] = ws[NFiles]]
    BY <2>1 DEF JobType
  <2>4. \A f \in Files : NotAfter(job'.admitted[f], ws[f])
    BY <1>0, <1>1, <2>3 DEF JobType, AdmittedBefore, Files
  <2>5. InstantBetween'
    BY <1>0, <2>3, <2>4 DEF InstantBetween
  <2>6. \A f \in Files : ~(f < 1)
    BY DEF Files
  <2>7. QED
    BY <1>0, <2>2, <2>3, <2>5, <2>6 DEF StartsAtFirst, AdmittedBefore, ReadAsOf
<1>2. CASE job.next # NFiles
  <2>1. job' = [job EXCEPT !.next = @ + 1, !.admitted[job.next] = ws[job.next]]
    BY <1>2 DEF Collect
  <2>2. JobType'
    BY <1>0, <1>2, <2>1, FirstFile DEF JobType, WsType
  <2>3. /\ job'.at = "collecting" /\ job'.next = job.next + 1
        /\ job'.admitted = [job.admitted EXCEPT ![job.next] = ws[job.next]]
    BY <1>0, <2>1 DEF JobType
  <2>4. AdmittedBefore'
    BY <1>0, <2>3 DEF JobType, AdmittedBefore
  <2>5. QED
    BY <1>0, <2>2, <2>3, <2>4 DEF StartsAtFirst, InstantBetween, ReadAsOf
<1>3. QED
  BY <1>1, <1>2

\* A file that is still the one admitted was so at that instant too.
LEMMA CaptureOpened == CaptureInv /\ OpenFile => CaptureInv'
<1> SUFFICES ASSUME CaptureInv, OpenFile PROVE CaptureInv'
  OBVIOUS
<1> USE DEF CaptureInv
<1>1. /\ ws' = ws /\ job.at = "reading" /\ job.next \in Files
      /\ ws[job.next] = job.admitted[job.next]
      /\ job' = [job EXCEPT !.at = "opened", !.opened = ws[job.next]]
  BY DEF OpenFile, OpenSame, files, JobType
<1>2. JobType' /\ WsType'
  BY <1>1 DEF JobType, WsType
<1>3. /\ job'.at = "opened" /\ job'.next = job.next /\ job'.admitted = job.admitted
      /\ job'.opened = ws[job.next] /\ job'.got = job.got /\ job'.asOf = job.asOf
  BY <1>1 DEF JobType
<1>4. ws[job.next] = job.asOf[job.next]
  <2>1. /\ NotAfter(ws[job.next], job.asOf[job.next]) /\ NotAfter(job.asOf[job.next], ws[job.next])
        /\ ws[job.next] \in Identity /\ job.asOf[job.next] \in Identity
    BY <1>1 DEF InstantBetween, WsType, JobType
  <2>2. QED
    BY <2>1 DEF NotAfter, Identity
<1>5. QED
  BY <1>1, <1>2, <1>3, <1>4 DEF StartsAtFirst, AdmittedBefore, InstantBetween, ReadAsOf

\* And what was read of it, the directory entry being the same afterwards, is
\* that file.
LEMMA CaptureRead == CaptureInv /\ ReadFile => CaptureInv'
<1> SUFFICES ASSUME CaptureInv, ReadFile PROVE CaptureInv'
  OBVIOUS
<1> USE DEF CaptureInv
<1> DEFINE f == job.next
<1>1. /\ ws' = ws /\ job.at = "opened" /\ f \in Files /\ ws[f] = job.asOf[f]
      /\ job' = [job EXCEPT !.at = IF f = NFiles THEN "proving" ELSE "reading",
                            !.next = IF f = NFiles THEN 1 ELSE f + 1,
                            !.got[f] = ws[f]]
  BY DEF ReadFile, StillSame, files, JobType, ReadAsOf
<1>2. JobType' /\ WsType'
  BY <1>1, FirstFile DEF JobType, WsType
<1>3. /\ job'.at = IF f = NFiles THEN "proving" ELSE "reading"
      /\ job'.next = IF f = NFiles THEN 1 ELSE f + 1
      /\ job'.admitted = job.admitted /\ job'.asOf = job.asOf
      /\ job'.got = [job.got EXCEPT ![f] = ws[f]]
  BY <1>1 DEF JobType
<1>4. ASSUME NEW g \in Files, g <= f PROVE job'.got[g] = job'.asOf[g]
  <2>1. g < f \/ g = f
    BY <1>1, <1>4 DEF Files
  <2>2. CASE g = f
    BY <1>1, <1>3, <2>2 DEF JobType
  <2>3. CASE g < f
    <3>1. job.got[g] = job.asOf[g] /\ g # f
      BY <1>1, <2>3 DEF ReadAsOf, Files
    <3>2. QED
      BY <1>3, <3>1 DEF JobType
  <2>4. QED
    BY <2>1, <2>2, <2>3
<1>5. CASE f = NFiles
  <2>1. \A g \in Files : job'.got[g] = job'.asOf[g]
    BY <1>4, <1>5 DEF Files
  <2>2. job'.got = job'.asOf
    BY <1>2, <2>1 DEF JobType
  <2>3. QED
    BY <1>2, <1>3, <1>5, <2>2 DEF StartsAtFirst, AdmittedBefore, InstantBetween, ReadAsOf
<1>6. CASE f # NFiles
  <2>1. \A g \in Files : g < f + 1 => job'.got[g] = job'.asOf[g]
    BY <1>1, <1>4 DEF Files
  <2>2. InstantBetween'
    BY <1>1, <1>3 DEF InstantBetween
  <2>3. QED
    BY <1>2, <1>3, <1>6, <2>1, <2>2 DEF StartsAtFirst, AdmittedBefore, ReadAsOf
<1>7. QED
  BY <1>5, <1>6

\* Everything else starts a capture, ends one or leaves it alone.
LEMMA ProgressCapture == CaptureInv /\ Progress => CaptureInv'
<1> SUFFICES ASSUME CaptureInv, Progress PROVE CaptureInv'
  OBVIOUS
<1> USE DEF files
<1>1. CASE JobBegins
  <2>1. CASE job' = Idle
    BY <1>1, <2>1, CaptureIdle DEF JobBegins
  <2>2. CASE job' = [job EXCEPT !.at = "collecting"]
    <3>1. job.at = "created" /\ ws' = ws
      BY <1>1 DEF JobBegins
    <3>2. CaptureInv => job.next = 1
      BY <3>1 DEF CaptureInv, StartsAtFirst
    <3>3. JobType' /\ WsType' /\ job'.at = "collecting" /\ job'.next = 1
      BY <2>2, <3>1, <3>2 DEF CaptureInv, JobType, WsType
    <3>4. \A f \in Files : ~(f < 1)
      BY DEF Files
    <3>5. QED
      BY <3>3, <3>4 DEF CaptureInv, StartsAtFirst, AdmittedBefore, InstantBetween, ReadAsOf
  <2>3. QED
    BY <1>1, <2>1, <2>2 DEF JobBegins
<1>2. CASE Collect
  BY <1>2, CaptureCollected
<1>3. CASE OpenFile
  BY <1>3, CaptureOpened
<1>4. CASE ReadFile
  BY <1>4, CaptureRead
<1>5. CASE WalkerRefuses \/ CancelledReaderEnds \/ FinishCapture \/ Stopped
  BY <1>5, CaptureIdle DEF WalkerRefuses, CancelledReaderEnds, CaptureFails, FinishCapture,
     Stopped, MemoryLost
<1>6. CASE Restart \/ (\E p \in Publishers : ReadsRows(p) \/ ReadsVersion(p))
           \/ \E t \in Threads : Delivered(t)
  BY <1>6, CaptureSame DEF Restart, ReadsRows, ReadsVersion, Delivered
<1>7. QED
  BY <1>1, <1>2, <1>3, <1>4, <1>5, <1>6 DEF Progress

LEMMA OthersCapture == CaptureInv /\ (Decisions \/ Launches \/ World) => CaptureInv'
<1> SUFFICES ASSUME CaptureInv, Decisions \/ Launches \/ World PROVE CaptureInv'
  OBVIOUS
<1> USE DEF files
<1>1. CASE Decisions
  <2>1. PICK r \in Revs :
          \/ OpenCapture(r) \/ VerifiesBundle(r) \/ Accept(r) \/ Purge(r)
          \/ Damage(r) \/ FindsDamage(r) \/ ExportStarts(r) \/ ExportSettles(r)
    BY <1>1 DEF Decisions
  <2>2. CASE OpenCapture(r)
    <3>1. job' = [Idle EXCEPT !.at = "created", !.rev = r] /\ ws' = ws /\ r \in Nat
      BY <2>2 DEF OpenCapture, Revs
    <3>2. JobType' /\ WsType' /\ job'.at = "created" /\ job'.next = 1
      BY <3>1, IdleType DEF JobType, CaptureInv, WsType, Idle
    <3>3. QED
      BY <3>2, CaptureFresh
  <2>3. CASE ~OpenCapture(r)
    BY <2>1, <2>3, CaptureSame DEF VerifiesBundle, Accept, Purge, Damage, FindsDamage,
       ExportStarts, ExportSettles
  <2>4. QED
    BY <2>2, <2>3
<1>2. CASE Launches
  BY <1>2, CaptureSame DEF Launches, Preview, AcceptLaunch, VerifiesPinned, ReadsPayload,
     InstallsFile, VerifiesInstalled, CleanUpConsumer, PurgeConsumer
<1>3. CASE World
  <2>1. CASE CleanUpProducer \/ PurgeProducer \/ OtherTakes \/ OtherLeaves
    BY <2>1, CaptureSame DEF CleanUpProducer, PurgeProducer, OtherTakes, OtherLeaves
  <2>2. CASE \E f \in Files : Edit(f)
    BY <2>2, CaptureEdited
  <2>3. CASE Shutdown
    BY <2>3, CaptureIdle, CaptureCancelled DEF Shutdown, CaptureFails
  <2>4. CASE Kill
    BY <2>4, CaptureIdle DEF Kill, MemoryLost
  <2>5. QED
    BY <1>3, <2>1, <2>2, <2>3, <2>4 DEF World
<1>4. QED
  BY <1>1, <1>2, <1>3

\* A row becomes ready with its bytes, and not otherwise.
LEMMA NothingNewReady ==
    ASSUME PinInv, [Next]_vars, ~FinishCapture
    PROVE  \A r \in Revs : Retained(r)' => Retained(r)
<1>1. RowType
  BY DEF PinInv
<1>2. ASSUME row' = row PROVE \A r \in Revs : Retained(r)' => Retained(r)
  BY <1>2 DEF Retained
<1>3. ASSUME FailCapture(job.rev) PROVE \A r \in Revs : Retained(r)' => Retained(r)
  BY <1>1, <1>2, <1>3 DEF FailCapture, RowType, Retained
<1>4. CASE Decisions
  <2>1. PICK r \in Revs :
          \/ OpenCapture(r) \/ VerifiesBundle(r) \/ Accept(r) \/ Purge(r)
          \/ Damage(r) \/ FindsDamage(r) \/ ExportStarts(r) \/ ExportSettles(r)
    BY <1>4 DEF Decisions
  <2>2. CASE OpenCapture(r)
    BY <1>1, <2>2 DEF OpenCapture, RowType, NoRow, Retained
  <2>3. CASE Accept(r) \/ Purge(r) \/ FindsDamage(r)
    BY <1>1, <1>2, <2>3 DEF Accept, Purge, FindsDamage, RowType, Retained
  <2>4. CASE VerifiesBundle(r) \/ Damage(r) \/ ExportStarts(r) \/ ExportSettles(r)
    BY <1>2, <2>4 DEF VerifiesBundle, Damage, ExportStarts, ExportSettles
  <2>5. QED
    BY <2>1, <2>2, <2>3, <2>4
<1>5. CASE Launches
  BY <1>2, <1>5 DEF Launches, Preview, AcceptLaunch, VerifiesPinned, ReadsPayload,
     InstallsFile, VerifiesInstalled, CleanUpConsumer, PurgeConsumer
<1>6. CASE World
  <2>1. CASE PurgeProducer
    BY <2>1 DEF PurgeProducer, NoRow, Retained
  <2>2. CASE Shutdown
    BY <1>2, <1>3, <2>2 DEF Shutdown, CaptureFails
  <2>3. CASE ~PurgeProducer /\ ~Shutdown
    BY <1>2, <1>6, <2>3 DEF World, CleanUpProducer, OtherTakes, OtherLeaves, Kill, Edit
  <2>4. QED
    BY <2>1, <2>2, <2>3
<1>7. CASE Progress
  <2>1. CASE Stopped \/ Restart
    BY <2>1, RestoreKeeps DEF Stopped, Restart
  <2>2. CASE JobBegins \/ WalkerRefuses \/ CancelledReaderEnds
    BY <1>2, <1>3, <2>2 DEF JobBegins, WalkerRefuses, CancelledReaderEnds, CaptureFails
  <2>3. CASE Collect \/ OpenFile \/ ReadFile
    BY <1>2, <2>3 DEF Collect, OpenFile, ReadFile
  <2>4. CASE (\E p \in Publishers : ReadsRows(p) \/ ReadsVersion(p))
             \/ \E t \in Threads : Delivered(t)
    BY <1>2, <2>4 DEF ReadsRows, ReadsVersion, Delivered
  <2>5. QED
    BY <1>7, <2>1, <2>2, <2>3, <2>4 DEF Progress
<1>8. QED
  BY <1>2, <1>4, <1>5, <1>6, <1>7 DEF Next, vars

\* Only a capture that has proven its bundle makes a revision ready.
LEMMA ReadyIsWhole == PinInv /\ CaptureInv /\ CaptureIsSnapshot /\ [Next]_vars => CaptureIsSnapshot'
<1> SUFFICES ASSUME PinInv, CaptureInv, CaptureIsSnapshot, [Next]_vars PROVE CaptureIsSnapshot'
  OBVIOUS
<1>1. CASE FinishCapture
  <2>1. /\ row' = [row EXCEPT ![job.rev].state = "ready"]
        /\ job.at = "proving"
        /\ whole' = IF job.got = job.asOf THEN whole \cup {job.rev} ELSE whole
    BY <1>1 DEF FinishCapture
  <2>2. whole' = whole \cup {job.rev}
    BY <2>1 DEF CaptureInv, ReadAsOf
  <2>3. \A r \in Revs : Retained(r)' => Retained(r) \/ r = job.rev
    BY <2>1 DEF PinInv, RowType, Retained
  <2>4. QED
    BY <2>2, <2>3 DEF CaptureIsSnapshot
<1>2. CASE ~FinishCapture
  <2>1. whole' = whole
    BY <1>2 DEF Next, vars, Progress, JobBegins, Collect, OpenFile, ReadFile, WalkerRefuses,
       CancelledReaderEnds, ReadsRows, ReadsVersion, Delivered, Stopped, Restart, Decisions,
       OpenCapture, VerifiesBundle, Accept, Purge, Damage, FindsDamage, ExportStarts,
       ExportSettles, Launches, Preview, AcceptLaunch, VerifiesPinned, ReadsPayload,
       InstallsFile, VerifiesInstalled, CleanUpConsumer, PurgeConsumer, World,
       CleanUpProducer, PurgeProducer, OtherTakes, OtherLeaves, Shutdown, Kill, Edit
  <2>2. \A r \in Revs : Retained(r)' => Retained(r)
    BY <1>2, NothingNewReady
  <2>3. QED
    BY <2>1, <2>2 DEF CaptureIsSnapshot
<1>3. QED
  BY <1>1, <1>2

\* A bundle that is ready is what the workspace held at one instant, however
\* its files were edited or replaced while they were admitted, opened and read
\* (_Walker.collect and _Walker.read).
THEOREM ReadyIsSnapshot == Spec => []CaptureIsSnapshot
<1>1. Init => PinInv /\ CaptureInv /\ CaptureIsSnapshot
  BY PinInit, CaptureInit DEF Init, CaptureIsSnapshot, Retained, NoRow
<1>2. CaptureInv /\ [Next]_vars => CaptureInv'
  <2>1. ASSUME CaptureInv, UNCHANGED vars PROVE CaptureInv'
    BY <2>1, CaptureSame DEF vars, files
  <2>2. QED
    BY <2>1, ProgressCapture, OthersCapture DEF Next
<1>3. QED
  BY <1>1, <1>2, PinStep, ReadyIsWhole, PTL DEF Spec
=============================================================================
