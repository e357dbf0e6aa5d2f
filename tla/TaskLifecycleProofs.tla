-------------------------- MODULE TaskLifecycleProofs --------------------------
(***************************************************************************)
(* The tasks of a project, for any number of tasks, edits and stops: a     *)
(* ready project has its checkout, a run executes its task's revision in   *)
(* its task's clone, and a task's clone and container are taken down by    *)
(* its own cleanup.                                                        *)
(*                                                                         *)
(* The last two follow the one live task of the slug from phase to phase   *)
(* of its preparation, and through a cleanup that fails or is interrupted: *)
(* `CleanupOnce`.                                                          *)
(***************************************************************************)
EXTENDS TaskLifecycle, TLAPS

Conf == [kind : Kinds \cup {"plain"}, ver : Nat, rev : Nat, commit : Nat]

Row == [state : {"none", "created", "failed", "archived", "purged"}, spawned : BOOLEAN,
        workshop : BOOLEAN, flow : {"none", "running", "ended"}, conf : Conf]

Request == [at : {"none", "reviewed", "checked"}, token : Conf, commit : Nat]

CloneRecord == [by : Tasks \cup {"nobody"}, ref : Nat, commit : Nat, staged : BOOLEAN]

PlaceTypes ==
    /\ project \in [state : {"none", "cloning", "ready", "failed"}, ver : Nat]
    /\ setup \in [job : {"none", "preparing", "cloning", "moved"},
                  staging : BOOLEAN, dest : BOOLEAN]
    /\ entry \in [origin : {"custom", "builtin"}, rev : Nat, archived : BOOLEAN]
    /\ base \in Nat /\ stops \in Nat

WorkTypes ==
    /\ task \in [Tasks -> Row] /\ running \in [Tasks -> Nat]
    /\ job \in [Tasks -> {"none", "queued", "cloned", "branched", "ready", "staged",
                          "launched", "completed"}]
    /\ cleaning \in [Tasks -> {"no", "box", "clone", "row"}]
    /\ recovering \subseteq Tasks

DiskTypes == clone \in CloneRecord /\ box \in Tasks \cup {"nobody"}

\* A clone that has been moved to its place is there, and its row says so.
Checkout == (setup.job = "moved" => setup.dest) /\ ReadyHasCheckout

\* Nothing happens to a task before its row is inserted, and nobody asks for
\* it afterwards.
Unborn == \A t \in Tasks :
    /\ task[t].state = "none" =>
           job[t] = "none" /\ cleaning[t] = "no" /\ running[t] = 0 /\ t \notin recovering
    /\ ask[t].at # "none" => task[t].state = "none"

BaseInv == /\ PlaceTypes /\ ask \in [Tasks -> Request] /\ WorkTypes /\ DiskTypes
           /\ Checkout /\ Unborn

-----------------------------------------------------------------------------
(* The steps                                                                *)

\* The project, the library and the base branch.
LEMMA PlaceKeeps ==
    BaseInv /\ (Registers \/ Changes \/ CloneStep \/ Retries \/ DeleteChecks \/ Deletes
                \/ Saves \/ Archives \/ BaseMoves)
        => BaseInv' /\ UNCHANGED <<ask, work, disk, cleaning, recovering>>
<1> SUFFICES ASSUME BaseInv, Registers \/ Changes \/ CloneStep \/ Retries \/ DeleteChecks
                             \/ Deletes \/ Saves \/ Archives \/ BaseMoves
             PROVE  BaseInv' /\ UNCHANGED <<ask, work, disk, cleaning, recovering>>
  OBVIOUS
<1>0. PlaceTypes /\ Checkout
  BY DEF BaseInv
<1>1. UNCHANGED <<ask, work, disk, cleaning, recovering>>
  BY DEF Registers, Changes, CloneStep, Retries, DeleteChecks, Deletes, Saves, Archives,
         BaseMoves, work, disk
<1>2. ask' \in [Tasks -> Request] /\ WorkTypes' /\ DiskTypes' /\ Unborn'
  BY <1>1 DEF BaseInv, WorkTypes, DiskTypes, Unborn, work, disk
<1>3. CASE Registers
  <2>1. PlaceTypes'
    BY <1>0, <1>3 DEF Registers, PlaceTypes
  <2>2. Checkout'
    BY <1>0, <1>3 DEF Registers, PlaceTypes, Checkout, ReadyHasCheckout
  <2>3. QED
    BY <1>1, <1>2, <2>1, <2>2 DEF BaseInv
<1>4. CASE Changes \/ Retries \/ DeleteChecks \/ Deletes
  <2>1. PlaceTypes'
    BY <1>0, <1>4 DEF Changes, Retries, DeleteChecks, Deletes, Edit, PlaceTypes
  <2>2. Checkout'
    BY <1>0, <1>4 DEF Changes, Retries, DeleteChecks, Deletes, PlaceTypes, Checkout,
                      ReadyHasCheckout
  <2>3. QED
    BY <1>1, <1>2, <2>1, <2>2 DEF BaseInv
<1>5. CASE CloneStep
  <2>1. PlaceTypes'
    BY <1>0, <1>5 DEF CloneStep, Settled, PlaceTypes
  <2>2. Checkout'
    BY <1>0, <1>5 DEF CloneStep, Settled, PlaceTypes, Checkout, ReadyHasCheckout
  <2>3. QED
    BY <1>1, <1>2, <2>1, <2>2 DEF BaseInv
<1>6. CASE Saves \/ Archives \/ BaseMoves
  <2>1. UNCHANGED <<project, setup, stops>>
    BY <1>6 DEF Saves, Archives, BaseMoves, place
  <2>2. entry' \in [origin : {"custom", "builtin"}, rev : Nat, archived : BOOLEAN]
    <3>1. entry.rev + 1 \in Nat
      BY <1>0 DEF PlaceTypes
    <3>2. \/ entry' = entry
          \/ \E b \in BOOLEAN : entry' = [entry EXCEPT !.archived = b]
          \/ entry' = [entry EXCEPT !.rev = entry.rev + 1]
      BY <1>6 DEF Saves, Archives, BaseMoves
    <3>3. QED
      BY <1>0, <3>1, <3>2 DEF PlaceTypes
  <2>3. base' \in Nat
    BY <1>0, <1>6 DEF Saves, Archives, BaseMoves, PlaceTypes
  <2>4. PlaceTypes' /\ Checkout'
    BY <1>0, <2>1, <2>2, <2>3 DEF PlaceTypes, Checkout, ReadyHasCheckout
  <2>5. QED
    BY <1>1, <1>2, <2>4 DEF BaseInv
<1>7. QED
  BY <1>3, <1>4, <1>5, <1>6

\* What only tasks touch leaves the place as it is.
LEMMA PlaceStays == PlaceTypes /\ Checkout /\ UNCHANGED <<place, entry, base, stops>>
                        => PlaceTypes' /\ Checkout'
  BY DEF PlaceTypes, Checkout, ReadyHasCheckout, place

\* A preview, and its submission.
LEMMA AskingKeeps ==
    ASSUME BaseInv, NEW t \in Tasks, Previews(t) \/ Submits(t)
    PROVE  BaseInv' /\ UNCHANGED <<work, disk, cleaning, recovering>>
<1>1. UNCHANGED <<place, entry, base, work, disk, cleaning, recovering, stops>>
  BY DEF Previews, Submits
<1>2. WorkTypes' /\ DiskTypes'
  BY <1>1 DEF BaseInv, WorkTypes, DiskTypes, work, disk
<1>21. Unborn'
  <2>1. /\ task[t].state = "none" \/ ask[t].at # "none"
        /\ \A u \in Tasks \ {t} : ask'[u] = ask[u]
    BY DEF Previews, Submits, BaseInv
  <2>2. QED
    BY <1>1, <2>1 DEF BaseInv, Unborn, work
<1>3. NoAsk \in Request
  BY DEF NoAsk, NoConf, Request, Conf
<1>4. CASE Previews(t)
  <2>1. PICK kind \in Kinds :
          ask' = [ask EXCEPT ![t] =
                     [at |-> "reviewed", token |-> Resolve(kind, Observed), commit |-> 0]]
    BY <1>4 DEF Previews
  <2>2. Resolve(kind, Observed) \in Conf
    BY DEF Resolve, Observed, Conf, BaseInv, PlaceTypes
  <2>3. [at |-> "reviewed", token |-> Resolve(kind, Observed), commit |-> 0] \in Request
    BY <2>2 DEF Request
  <2>4. ask' \in [Tasks -> Request]
    BY <2>1, <2>3 DEF BaseInv
  <2>5. QED
    BY <1>1, <1>2, <1>21, <2>4, PlaceStays DEF BaseInv
<1>5. CASE Submits(t)
  <2>1. \A r \in Request, n \in Nat : [r EXCEPT !.at = "checked", !.commit = n] \in Request
    BY DEF Request
  <2>2. ask[t] \in Request /\ Observed \in Nat
    BY DEF BaseInv, Observed, PlaceTypes
  <2>3. ask' \in [Tasks -> Request]
    BY <1>3, <1>5, <2>1, <2>2 DEF Submits, BaseInv
  <2>4. QED
    BY <1>1, <1>2, <1>21, <2>3, PlaceStays DEF BaseInv
<1>6. QED
  BY <1>4, <1>5

\* What a step of a task's own makes of its row.
LEMMA RowMoves ==
    \A r \in Row :
        /\ [r EXCEPT !.spawned = TRUE] \in Row /\ [r EXCEPT !.workshop = TRUE] \in Row
        /\ [r EXCEPT !.flow = "running"] \in Row /\ [r EXCEPT !.flow = "ended"] \in Row
        /\ [r EXCEPT !.state = "failed", !.spawned = TRUE] \in Row
        /\ [r EXCEPT !.state = "archived"] \in Row
        /\ [r EXCEPT !.spawned = TRUE].state = r.state
        /\ [r EXCEPT !.workshop = TRUE].state = r.state
        /\ [r EXCEPT !.flow = "running"].state = r.state
        /\ [r EXCEPT !.flow = "ended"].state = r.state
        /\ [r EXCEPT !.state = "failed", !.spawned = TRUE].state = "failed"
        /\ [r EXCEPT !.state = "archived"].state = "archived"
  BY DEF Row

LEMMA NewRows ==
    /\ NoRow \in Row /\ [NoRow EXCEPT !.state = "purged"] \in Row
    /\ \A c \in Conf : [NoRow EXCEPT !.state = "created", !.conf = c] \in Row
  BY DEF NoRow, NoConf, Row, Conf

\* One task moves, which has a row, and goes on having one.
LEMMA OneTaskMoves ==
    ASSUME BaseInv, NEW t \in Tasks, task[t].state # "none",
           UNCHANGED <<place, entry, base, ask, stops>>, WorkTypes', DiskTypes',
           task'[t].state # "none",
           \A u \in Tasks \ {t} : /\ task'[u] = task[u] /\ job'[u] = job[u]
                                  /\ running'[u] = running[u] /\ cleaning'[u] = cleaning[u]
                                  /\ u \in recovering' => u \in recovering
    PROVE  BaseInv'
<1>1. PlaceTypes' /\ Checkout' /\ ask' \in [Tasks -> Request]
  BY PlaceStays DEF BaseInv
<1>2. Unborn'
  BY DEF BaseInv, Unborn
<1>3. QED
  BY <1>1, <1>2 DEF BaseInv

\* The row is inserted as it was reviewed.
LEMMA AcceptingKeeps == ASSUME BaseInv, NEW t \in Tasks, Accepts(t) PROVE BaseInv'
<1>1. UNCHANGED <<place, entry, base, running, disk, cleaning, recovering, stops>>
  BY DEF Accepts
<1>2. PlaceTypes' /\ Checkout' /\ DiskTypes'
  BY <1>1, PlaceStays DEF BaseInv, DiskTypes, disk
<1>3. ask' \in [Tasks -> Request]
  BY DEF Accepts, BaseInv, NoAsk, NoConf, Request, Conf
<1>31. ask'[t].at = "none" /\ \A u \in Tasks \ {t} : ask'[u] = ask[u]
  BY DEF Accepts, BaseInv, NoAsk
<1>4. CASE UNCHANGED <<task, job>>
  BY <1>1, <1>2, <1>3, <1>31, <1>4 DEF BaseInv, WorkTypes, Unborn
<1>5. CASE /\ task' = [task EXCEPT ![t] =
                          [NoRow EXCEPT !.state = "created", !.conf = ask[t].token]]
           /\ job' = [job EXCEPT ![t] = "queued"]
  <2>1. ask[t].token \in Conf
    BY DEF BaseInv, Request
  <2>2. \A c \in Conf : [NoRow EXCEPT !.state = "created", !.conf = c].state = "created"
    BY DEF NoRow
  <2>3. WorkTypes'
    BY <1>1, <1>5, <2>1, NewRows DEF BaseInv, WorkTypes
  <2>4. Unborn'
    BY <1>1, <1>31, <1>5, <2>1, <2>2 DEF BaseInv, WorkTypes, Unborn
  <2>5. QED
    BY <1>2, <1>3, <2>3, <2>4 DEF BaseInv
<1>6. QED
  BY <1>4, <1>5 DEF Accepts

\* One step of a preparation is by a task that has a row.
LEMMA SpawningTypes ==
    ASSUME BaseInv, NEW t \in Tasks, SpawnStep(t)
    PROVE  /\ BaseInv' /\ job[t] # "none"
           /\ \A u \in Tasks \ {t} : task'[u] = task[u] /\ job'[u] = job[u]
                                     /\ running'[u] = running[u]
<1>0. /\ WorkTypes /\ DiskTypes /\ clone \in CloneRecord /\ task[t] \in Row /\ base \in Nat
      /\ task[t].conf \in Conf /\ task[t].conf.commit \in Nat /\ Pinned(t) \in Nat
  BY DEF BaseInv, WorkTypes, DiskTypes, PlaceTypes, Row, Conf, Pinned
<1>1. UNCHANGED <<place, entry, base, ask, cleaning, recovering, stops>>
  BY DEF SpawnStep
<1>2. job[t] # "none" /\ task[t].state # "none"
  BY DEF SpawnStep, Prepares, Branches, Installs, Stages, Launched, Records, Starts, SpawnFails,
         Turn, BaseInv, Unborn
<1>3. \E to \in {"none", "cloned", "branched", "ready", "staged", "launched", "completed"} :
          Reaches(t, to) \/ job' = job
  BY DEF SpawnStep, Prepares, Branches, Installs, Stages, Launched, Records, Starts, SpawnFails
<1>4. \/ task' = task
      \/ task' = [task EXCEPT ![t] = [task[t] EXCEPT !.spawned = TRUE]]
      \/ task' = [task EXCEPT ![t] = [task[t] EXCEPT !.workshop = TRUE]]
      \/ task' = [task EXCEPT ![t] = [task[t] EXCEPT !.flow = "running"]]
      \/ task' = [task EXCEPT ![t] = [task[t] EXCEPT !.state = "failed", !.spawned = TRUE]]
  BY DEF SpawnStep, Prepares, Branches, Installs, Stages, Launched, Records, Starts, SpawnFails,
         MarkedFailed
<1>5. running' = running \/ running' = [running EXCEPT ![t] = Pinned(t)]
  BY DEF SpawnStep, Prepares, Branches, Installs, Stages, Launched, Records, Starts, SpawnFails
<1>6. /\ WorkTypes' /\ task'[t].state # "none"
      /\ \A u \in Tasks \ {t} : task'[u] = task[u] /\ job'[u] = job[u]
                                /\ running'[u] = running[u]
  <2>1. task' \in [Tasks -> Row] /\ task'[t].state # "none"
        /\ \A u \in Tasks \ {t} : task'[u] = task[u]
    <3>1. PICK y \in Row : y.state # "none" /\ (task' = task \/ task' = [task EXCEPT ![t] = y])
      BY <1>0, <1>2, <1>4, RowMoves
    <3>2. QED
      BY <1>0, <1>2, <3>1 DEF WorkTypes
  <2>2. job' \in [Tasks -> {"none", "queued", "cloned", "branched", "ready", "staged",
                            "launched", "completed"}]
        /\ \A u \in Tasks \ {t} : job'[u] = job[u]
    BY <1>0, <1>3 DEF WorkTypes, Reaches
  <2>3. running' \in [Tasks -> Nat] /\ \A u \in Tasks \ {t} : running'[u] = running[u]
    BY <1>0, <1>5 DEF WorkTypes
  <2>4. QED
    BY <1>0, <1>1, <2>1, <2>2, <2>3 DEF WorkTypes
<1>7. DiskTypes'
  <2>1. MadeBy(t) \in CloneRecord
    BY <1>0 DEF MadeBy, CloneRecord
  <2>2. \A c \in CloneRecord, n \in Nat, b \in BOOLEAN :
            [c EXCEPT !.commit = n] \in CloneRecord /\ [c EXCEPT !.staged = b] \in CloneRecord
    BY DEF CloneRecord
  <2>3. clone.ref \in Nat
    BY <1>0 DEF CloneRecord
  <2>4. \/ clone' \in {clone, MadeBy(t)}
        \/ \E n \in Nat : clone' = [clone EXCEPT !.commit = n]
        \/ \E b \in BOOLEAN : clone' = [clone EXCEPT !.staged = b]
    <3>1. CASE Prepares(t) \/ Stages(t) \/ Launched(t)
      BY <3>1 DEF Prepares, Stages, Launched, Restored
    <3>2. CASE Branches(t)
      BY <1>0, <2>3, <3>2 DEF Branches
    <3>3. CASE Installs(t) \/ Records(t) \/ Starts(t)
      BY <3>3 DEF Installs, Records, Starts, disk
    <3>4. CASE SpawnFails(t)
      BY <3>4 DEF SpawnFails, Restored, disk
    <3>5. QED
      BY <3>1, <3>2, <3>3, <3>4 DEF SpawnStep
  <2>5. clone' \in CloneRecord
    BY <1>0, <2>1, <2>2, <2>4
  <2>6. box' \in {box, t}
    BY DEF SpawnStep, Prepares, Branches, Installs, Stages, Launched, Records, Starts, SpawnFails,
           disk
  <2>7. QED
    BY <1>0, <2>5, <2>6 DEF DiskTypes
<1>8. QED
  BY <1>1, <1>2, <1>6, <1>7, OneTaskMoves

\* One step of a task's run, of its cleanup or of its recovery.
LEMMA TendingTypes ==
    ASSUME BaseInv, NEW t \in Tasks,
           RunEnds(t) \/ CleanupBegins(t) \/ RemovesBox(t) \/ RemovesClone(t) \/ CleanupEnds(t)
               \/ Purges(t) \/ Recovers(t)
    PROVE  /\ BaseInv' /\ task[t].state # "none"
           /\ job' = job /\ recovering' \subseteq recovering
           /\ \A u \in Tasks \ {t} :
                  /\ task'[u] = task[u] /\ running'[u] = running[u]
                  /\ cleaning'[u] = cleaning[u]
                  /\ u \in recovering' <=> u \in recovering
<1>0. /\ WorkTypes /\ DiskTypes /\ clone \in CloneRecord /\ task[t] \in Row
      /\ task[t].conf \in Conf /\ Redriven(t) \in Nat /\ NoClone \in CloneRecord
  BY DEF BaseInv, WorkTypes, DiskTypes, Row, Conf, Redriven, CloneRecord, NoClone
<1>1. UNCHANGED <<place, entry, base, ask, stops, job>>
  BY DEF RunEnds, CleanupBegins, RemovesBox, RemovesClone, CleanupEnds, Purges, Recovers, work
<1>2. task[t].state # "none"
  BY DEF RunEnds, CleanupBegins, RemovesBox, RemovesClone, CleanupEnds, Purges, Recovers,
         BaseInv, Unborn
<1>3. recovering' \in {recovering, recovering \ {t}}
  BY DEF RunEnds, CleanupBegins, RemovesBox, RemovesClone, CleanupEnds, Purges, Recovers
<1>4. \/ task' = task
      \/ task' = [task EXCEPT ![t] = [task[t] EXCEPT !.flow = "ended"]]
      \/ task' = [task EXCEPT ![t] = [task[t] EXCEPT !.state = "archived"]]
      \/ task' = [task EXCEPT ![t] = [task[t] EXCEPT !.state = "failed", !.spawned = TRUE]]
      \/ task' = [task EXCEPT ![t] = [NoRow EXCEPT !.state = "purged"]]
  BY DEF RunEnds, CleanupBegins, RemovesBox, RemovesClone, CleanupEnds, Purges, Recovers, work,
         MarkedFailed
<1>5. \E n \in {0, Redriven(t)} : running' = running \/ running' = [running EXCEPT ![t] = n]
  BY DEF RunEnds, CleanupBegins, RemovesBox, RemovesClone, CleanupEnds, Purges, Recovers, work
<1>6. \E to \in {"no", "box", "clone", "row"} :
          cleaning' = cleaning \/ cleaning' = [cleaning EXCEPT ![t] = to]
  BY DEF RunEnds, CleanupBegins, RemovesBox, RemovesClone, CleanupEnds, Purges, Recovers
<1>7. task' \in [Tasks -> Row] /\ task'[t].state # "none"
      /\ \A u \in Tasks \ {t} : task'[u] = task[u]
  <2>1. [NoRow EXCEPT !.state = "purged"].state = "purged"
    BY DEF NoRow
  <2>2. PICK y \in Row : y.state # "none" /\ (task' = task \/ task' = [task EXCEPT ![t] = y])
    BY <1>0, <1>2, <1>4, <2>1, RowMoves, NewRows
  <2>3. QED
    BY <1>0, <1>2, <2>2 DEF WorkTypes
<1>8. WorkTypes' /\ \A u \in Tasks \ {t} : running'[u] = running[u] /\ cleaning'[u] = cleaning[u]
  <2>1. running' \in [Tasks -> Nat] /\ \A u \in Tasks \ {t} : running'[u] = running[u]
    BY <1>0, <1>5 DEF WorkTypes
  <2>2. cleaning' \in [Tasks -> {"no", "box", "clone", "row"}]
        /\ \A u \in Tasks \ {t} : cleaning'[u] = cleaning[u]
    BY <1>0, <1>6 DEF WorkTypes
  <2>3. QED
    BY <1>0, <1>1, <1>3, <1>7, <2>1, <2>2 DEF WorkTypes
<1>9. DiskTypes'
  <2>1. clone' \in {clone, NoClone} /\ box' \in {box, "nobody"}
    BY DEF RunEnds, CleanupBegins, RemovesBox, RemovesClone, CleanupEnds, Purges, Recovers, disk
  <2>2. QED
    BY <1>0, <2>1 DEF DiskTypes
<1>10. BaseInv'
  BY <1>1, <1>2, <1>3, <1>7, <1>8, <1>9, OneTaskMoves
<1>11. QED
  BY <1>1, <1>2, <1>3, <1>7, <1>8, <1>10

\* After a stop, rows and directories are what they were.
LEMMA RestartTypes == BaseInv /\ Restarts => BaseInv'
<1> SUFFICES ASSUME BaseInv, Restarts PROVE BaseInv'
  OBVIOUS
<1>0. PlaceTypes /\ Checkout /\ WorkTypes /\ DiskTypes
  BY DEF BaseInv
<1>1. PlaceTypes'
  <2>1. stops' \in Nat /\ base' \in Nat
    <3>1. stops' = stops + 1 /\ base' = base
      BY DEF Restarts
    <3>2. QED
      BY <1>0, <3>1 DEF PlaceTypes
  <2>2. setup' \in [job : {"none", "preparing", "cloning", "moved"},
                    staging : BOOLEAN, dest : BOOLEAN]
    BY <1>0 DEF Restarts, PlaceTypes
  <2>3. project' \in [state : {"none", "cloning", "ready", "failed"}, ver : Nat]
    <3>1. CASE project' = project
      BY <1>0, <3>1 DEF PlaceTypes
    <3>2. CASE \E state \in {"ready", "failed"} : project' = [project EXCEPT !.state = state]
      BY <1>0, <3>2 DEF PlaceTypes
    <3>3. QED
      BY <3>1, <3>2 DEF Restarts, SetupAtStartup
  <2>4. entry' \in [origin : {"custom", "builtin"}, rev : Nat, archived : BOOLEAN]
    <3>1. \A r \in Nat : [entry EXCEPT !.rev = r]
              \in [origin : {"custom", "builtin"}, rev : Nat, archived : BOOLEAN]
      BY <1>0 DEF PlaceTypes
    <3>2. stops + 2 \in Nat
      BY <1>0 DEF PlaceTypes
    <3>3. entry' = entry \/ \E r \in {0, stops + 2} : entry' = [entry EXCEPT !.rev = r]
      BY DEF Restarts, Packaged
    <3>4. QED
      BY <1>0, <3>1, <3>2, <3>3 DEF PlaceTypes
  <2>5. QED
    BY <2>1, <2>2, <2>3, <2>4 DEF PlaceTypes
<1>2. Checkout'
  <2>1. setup'.job = "none" /\ setup'.dest = setup.dest
    BY <1>0 DEF Restarts, PlaceTypes
  <2>2. project'.state = "ready" => project.state = "ready" \/ setup.dest
    BY <1>0 DEF Restarts, PlaceTypes, SetupAtStartup
  <2>3. QED
    BY <1>0, <2>1, <2>2 DEF Checkout, ReadyHasCheckout
<1>3. ask' \in [Tasks -> Request]
  BY DEF Restarts, NoAsk, NoConf, Request, Conf
<1>4. /\ task' \in [Tasks -> Row]
      /\ \A t \in Tasks : task'[t].state = "none" <=> task[t].state = "none"
  <2>1. PICK gone \in SUBSET Resumable :
            task' = [t \in Tasks |-> IF t \in Unfinished \cup gone
                        THEN [task[t] EXCEPT !.state = "failed", !.spawned = TRUE] ELSE task[t]]
    BY DEF Restarts
  <2>2. \A t \in Tasks : task[t] \in Row
    BY <1>0 DEF WorkTypes
  <2>3. \A t \in Unfinished \cup gone : task[t].state = "created"
    BY <2>1 DEF Unfinished, Resumable
  <2>4. \A t \in Tasks : task'[t] = IF t \in Unfinished \cup gone
             THEN [task[t] EXCEPT !.state = "failed", !.spawned = TRUE] ELSE task[t]
    BY <2>1
  <2>5. QED
    BY <2>1, <2>2, <2>3, <2>4, RowMoves
<1>5. WorkTypes' /\ Unborn'
  <2>1. recovering' \subseteq Resumable
    BY DEF Restarts
  <2>2. \A t \in recovering' : t \in Tasks /\ task[t].state = "created"
    BY <2>1 DEF Resumable
  <2>3. WorkTypes'
    BY <1>4, <2>2 DEF Restarts, WorkTypes
  <2>4. Unborn'
    BY <1>4, <2>2 DEF Restarts, Unborn, NoAsk
  <2>5. QED
    BY <2>3, <2>4
<1>6. DiskTypes'
  <2>1. PICK kept \in {clone} \cup {MadeBy(t) : t \in {u \in Tasks : job[u] = "queued" /\ Free}} :
            clone' = [kept EXCEPT !.staged = FALSE]
    BY DEF Restarts
  <2>2. kept \in CloneRecord
    <3>1. \A t \in Tasks : MadeBy(t) \in CloneRecord
      BY <1>0 DEF MadeBy, CloneRecord, PlaceTypes
    <3>2. kept = clone \/ \E t \in Tasks : kept = MadeBy(t)
      BY <2>1
    <3>3. QED
      BY <1>0, <3>1, <3>2 DEF DiskTypes
  <2>3. clone' \in CloneRecord
    BY <2>1, <2>2 DEF CloneRecord
  <2>4. box' \in {box} \cup Tasks
    BY DEF Restarts
  <2>5. QED
    BY <1>0, <2>3, <2>4 DEF DiskTypes
<1>7. QED
  BY <1>1, <1>2, <1>3, <1>5, <1>6 DEF BaseInv

LEMMA BaseInit == Init => BaseInv
<1> SUFFICES ASSUME Init PROVE BaseInv
  OBVIOUS
<1>1. PlaceTypes /\ Checkout
  <2>1. entry \in [origin : {"custom", "builtin"}, rev : Nat, archived : BOOLEAN]
    <3>1. entry \in [origin : {"custom", "builtin"}, rev : {1}, archived : {FALSE}]
      BY DEF Init
    <3>2. {1} \subseteq Nat /\ {FALSE} \subseteq BOOLEAN
      OBVIOUS
    <3>3. \A A, B : A \subseteq Nat /\ B \subseteq BOOLEAN
              => [origin : {"custom", "builtin"}, rev : A, archived : B]
                     \subseteq [origin : {"custom", "builtin"}, rev : Nat, archived : BOOLEAN]
      OBVIOUS
    <3>4. QED
      BY <3>1, <3>2, <3>3, Zenon
  <2>2. QED
    BY <2>1 DEF Init, PlaceTypes, Checkout, ReadyHasCheckout
<1>2. ask \in [Tasks -> Request]
  BY DEF Init, NoAsk, NoConf, Request, Conf
<1>3. WorkTypes /\ Unborn
  BY NewRows DEF Init, WorkTypes, Unborn, NoRow, NoAsk
<1>4. DiskTypes
  BY DEF Init, DiskTypes, CloneRecord, NoClone
<1>5. QED
  BY <1>1, <1>2, <1>3, <1>4 DEF BaseInv

LEMMA BaseKept == BaseInv /\ [Next]_vars => BaseInv'
<1> SUFFICES ASSUME BaseInv, [Next]_vars PROVE BaseInv'
  OBVIOUS
<1>1. CASE UNCHANGED vars
  <2>1. UNCHANGED <<place, entry, base, stops, ask, work, disk, cleaning, recovering>>
    BY <1>1 DEF vars
  <2>2. WorkTypes' /\ DiskTypes' /\ Unborn'
    BY <2>1 DEF BaseInv, WorkTypes, DiskTypes, Unborn, work, disk
  <2>3. QED
    BY <2>1, <2>2, PlaceStays DEF BaseInv
<1>2. CASE Next
  BY <1>2, PlaceKeeps, AskingKeeps, AcceptingKeeps, SpawningTypes, TendingTypes, RestartTypes
     DEF Next
<1>3. QED
  BY <1>1, <1>2

\* A project that is ready to launch from has its checkout, wherever its
\* setup was stopped: `work/setup.py` moves the clone to its place
\* before it marks the row, and believes the filesystem at startup.
THEOREM ReadyProjectsHaveTheirs == Spec => []ReadyHasCheckout
<1>1. BaseInv => ReadyHasCheckout
  BY DEF BaseInv, Checkout
<1>2. QED
  BY <1>1, BaseInit, BaseKept, PTL DEF Spec

-----------------------------------------------------------------------------
(* Whose clone it is                                                        *)

AtReviewed(t) ==
    /\ task[t].conf.kind # "plain" => clone.commit = task[t].conf.commit
    /\ task[t].conf.kind = "attached" => clone.ref = task[t].conf.commit

\* What a preparation that succeeds leaves, and what is no longer all of it.
Prepared(t) == clone.by = t /\ box = t /\ ~clone.staged /\ AtReviewed(t)
Torn == clone.by = "nobody" \/ box = "nobody"

\* The rows of the slug that are not archived.
OneLive == \A t, u \in Tasks : Live(t) /\ Live(u) => t = u

\* How far the preparation has come is how far the clone has.
Phase(t) ==
    /\ job[t] = "cloned" => clone.by = t /\ ~clone.staged
    /\ job[t] = "branched" => /\ clone.by = t /\ ~clone.staged
                              /\ clone.commit = task[t].conf.commit
    /\ job[t] = "ready" => clone.by = t /\ ~clone.staged /\ AtReviewed(t)
    /\ job[t] = "staged" => clone.by = t /\ AtReviewed(t)
    /\ job[t] \in {"launched", "completed"} => Prepared(t)

\* Preparation, cleanup and recovery of a task exclude each other.
Owned(t) ==
    /\ job[t] # "none" => /\ task[t].state = "created" /\ cleaning[t] = "no"
                          /\ running[t] = 0 /\ t \notin recovering
    /\ cleaning[t] # "no" => Live(t) /\ t \notin recovering
    /\ t \in recovering => /\ task[t].state = "created" /\ task[t].spawned
                           /\ running[t] = 0 /\ Prepared(t)

\* A prepared task keeps its clone until a cleanup takes it.
Sound(t) == task[t].state = "created" =>
    /\ task[t].spawned <=> job[t] \in {"none", "completed"}
    /\ task[t].spawned => task[t].workshop /\ (Torn \/ Prepared(t))
    /\ task[t].workshop => job[t] \in {"none", "launched", "completed"}
    /\ cleaning[t] \in {"clone", "row"} => Torn
    /\ running[t] # 0 => running[t] = task[t].conf.rev
    /\ running[t] # 0 /\ cleaning[t] \notin {"clone", "row"} => Prepared(t)

CloneInv == OneLive /\ \A t \in Tasks : Phase(t) /\ Owned(t) /\ Sound(t)

\* One task moves.  Only the live task of the slug touches the disk.
LEMMA OneTaskOwns ==
    ASSUME CloneInv, NEW t \in Tasks,
           \A u \in Tasks \ {t} : /\ task'[u] = task[u] /\ job'[u] = job[u]
                                  /\ running'[u] = running[u] /\ cleaning'[u] = cleaning[u]
                                  /\ u \in recovering' <=> u \in recovering,
           disk' = disk \/ Live(t),
           task'[t].state \in {"created", "failed"} => Live(t) \/ \A u \in Tasks : ~Live(u),
           Phase(t)' /\ Owned(t)' /\ Sound(t)'
    PROVE  CloneInv'
<1>1. OneLive'
  BY DEF CloneInv, OneLive, Live
<1>2. ASSUME NEW u \in Tasks, u # t PROVE Phase(u)' /\ Owned(u)' /\ Sound(u)'
  <2>1. /\ task'[u] = task[u] /\ job'[u] = job[u]
        /\ running'[u] = running[u] /\ cleaning'[u] = cleaning[u]
        /\ u \in recovering' <=> u \in recovering
    BY <1>2
  <2>2. Phase(u) /\ Owned(u) /\ Sound(u)
    BY DEF CloneInv
  <2>3. CASE disk' = disk
    <3>1. AtReviewed(u)' <=> AtReviewed(u)
      BY <2>1, <2>3 DEF AtReviewed, disk
    <3>2. (Prepared(u)' <=> Prepared(u)) /\ (Torn' <=> Torn)
      BY <2>3, <3>1 DEF Prepared, Torn, disk
    <3>3. QED
      BY <2>1, <2>2, <2>3, <3>1, <3>2 DEF Phase, Owned, Sound, Live, disk
  <2>4. CASE Live(t)
    <3>1. ~Live(u)
      BY <1>2, <2>4 DEF CloneInv, OneLive
    <3>2. /\ task[u].state # "created" /\ job[u] = "none" /\ cleaning[u] = "no"
          /\ u \notin recovering
      BY <2>2, <3>1 DEF Owned, Live
    <3>3. QED
      BY <2>1, <3>2 DEF Phase, Owned, Sound
  <2>5. QED
    BY <2>3, <2>4
<1>3. QED
  BY <1>1, <1>2 DEF CloneInv

\* A new row's preparation begins.
LEMMA AcceptingOwns == ASSUME BaseInv, CloneInv, NEW t \in Tasks, Accepts(t) PROVE CloneInv'
<1>1. UNCHANGED <<running, disk, cleaning, recovering>>
  BY DEF Accepts
<1>2. CASE UNCHANGED <<task, job>>
  BY <1>1, <1>2 DEF CloneInv, OneLive, Phase, Owned, Sound, Live, AtReviewed, Prepared, Torn, disk
<1>3. CASE /\ Agreed(t) /\ SlugFree
           /\ task' = [task EXCEPT ![t] =
                          [NoRow EXCEPT !.state = "created", !.conf = ask[t].token]]
           /\ job' = [job EXCEPT ![t] = "queued"]
  <2>1. task[t].state = "none"
    BY DEF Accepts, BaseInv, Unborn
  <2>2. QED
    <3>1. cleaning[t] = "no" /\ running[t] = 0 /\ t \notin recovering
      BY <2>1 DEF BaseInv, Unborn
    <3>2. /\ job'[t] = "queued" /\ task'[t].state = "created"
          /\ ~task'[t].spawned /\ ~task'[t].workshop
      BY <1>3 DEF BaseInv, WorkTypes, NoRow
    <3>3. Phase(t)' /\ Owned(t)' /\ Sound(t)'
      BY <1>1, <3>1, <3>2 DEF Phase, Owned, Sound
    <3>4. QED
      BY <1>1, <1>3, <3>3, OneTaskOwns DEF SlugFree, BaseInv, WorkTypes
<1>4. QED
  BY <1>2, <1>3 DEF Accepts

\* Preparation: a phase at a time.
LEMMA SpawningOwns ==
    ASSUME BaseInv, BaseInv', CloneInv, NEW t \in Tasks, SpawnStep(t) PROVE CloneInv'
<1>0. /\ WorkTypes /\ task[t] \in Row /\ clone \in CloneRecord
      /\ t # "nobody" /\ task[t].conf.commit \in Nat
  BY LifecycleAssumption DEF BaseInv, WorkTypes, DiskTypes, Row, Conf
<1>1. UNCHANGED <<cleaning, recovering>>
  BY DEF SpawnStep
<1>2. /\ job[t] # "none" /\ task[t].state = "created" /\ cleaning[t] = "no"
      /\ running[t] = 0 /\ t \notin recovering
      /\ Phase(t) /\ Owned(t) /\ Sound(t)
  BY SpawningTypes DEF CloneInv, Owned
<1>3. Live(t)
  BY <1>2 DEF Live
<1>4. \A u \in Tasks \ {t} : /\ task'[u] = task[u] /\ job'[u] = job[u]
                             /\ running'[u] = running[u] /\ cleaning'[u] = cleaning[u]
                             /\ u \in recovering' <=> u \in recovering
  BY <1>1, SpawningTypes
<1>5. SUFFICES Phase(t)' /\ Owned(t)' /\ Sound(t)'
  BY <1>3, <1>4, OneTaskOwns
<1>6. cleaning'[t] = "no" /\ t \notin recovering'
  BY <1>1, <1>2
<1>7. ASSUME task' = task, running' = running PROVE Owned(t)'
  BY <1>2, <1>6, <1>7 DEF Owned
<1>8. ASSUME task' = task, running' = running,
             job'[t] \in {"cloned", "branched", "ready", "staged"}, job[t] \in {"queued", "cloned", "branched", "ready"}
      PROVE  Sound(t)'
  BY <1>2, <1>6, <1>8 DEF Sound
<1>9. CASE Prepares(t)
  <2>1. /\ job'[t] = "cloned" /\ clone' = MadeBy(t) /\ job[t] = "queued"
        /\ task' = task /\ running' = running
    BY <1>0, <1>9 DEF Prepares, Free, Reaches, Turn, WorkTypes
  <2>2. Phase(t)'
    BY <2>1 DEF Phase, MadeBy
  <2>3. QED
    BY <1>7, <1>8, <2>1, <2>2
<1>10. CASE Branches(t)
  <2>1. /\ job'[t] = IF task[t].conf.kind = "attached" THEN "branched" ELSE "ready"
        /\ job[t] = "cloned" /\ task' = task /\ running' = running
    BY <1>0, <1>10 DEF Branches, Reaches, Turn, WorkTypes
  <2>2. clone' = [clone EXCEPT !.commit = IF task[t].conf.kind = "plain" THEN clone.ref
                                                                        ELSE task[t].conf.commit]
    BY <1>10 DEF Branches
  <2>3. clone'.by = t /\ ~clone'.staged
        /\ (task[t].conf.kind # "plain" => clone'.commit = task[t].conf.commit)
    BY <1>0, <1>2, <2>1, <2>2 DEF Phase, CloneRecord
  <2>4. Phase(t)'
    BY <2>1, <2>3 DEF Phase, AtReviewed
  <2>5. QED
    BY <1>7, <1>8, <2>1, <2>4
<1>11. CASE Installs(t)
  <2>1. /\ job'[t] = "ready" /\ job[t] = "branched" /\ task' = task /\ running' = running
        /\ UNCHANGED disk /\ clone.ref = task[t].conf.commit
    BY <1>0, <1>11 DEF Installs, Verified, Reaches, Turn, WorkTypes
  <2>2. Phase(t)'
    BY <1>2, <2>1 DEF Phase, AtReviewed, disk
  <2>3. QED
    BY <1>7, <1>8, <2>1, <2>2
<1>12. CASE Stages(t)
  <2>1. /\ job'[t] = "staged" /\ job[t] = "ready" /\ task' = task /\ running' = running
        /\ clone' = [clone EXCEPT !.staged = TRUE]
    BY <1>0, <1>12 DEF Stages, Reaches, Turn, WorkTypes
  <2>2. clone'.by = clone.by /\ clone'.commit = clone.commit /\ clone'.ref = clone.ref
    BY <1>0, <2>1 DEF CloneRecord
  <2>3. Phase(t)'
    BY <1>2, <2>1, <2>2 DEF Phase, AtReviewed
  <2>4. QED
    BY <1>7, <1>8, <2>1, <2>3
<1>13. CASE Launched(t)
  <2>1. /\ job'[t] = "launched" /\ job[t] = "staged" /\ task' = task /\ running' = running
        /\ box' = t /\ clone' = [clone EXCEPT !.staged = FALSE]
    BY <1>0, <1>13 DEF Launched, Restored, Reaches, Turn, WorkTypes
  <2>2. clone'.by = clone.by /\ clone'.commit = clone.commit /\ clone'.ref = clone.ref
        /\ ~clone'.staged
    BY <1>0, <2>1 DEF CloneRecord
  <2>3. Phase(t)'
    BY <1>2, <2>1, <2>2 DEF Phase, AtReviewed, Prepared
  <2>4. Sound(t)'
    BY <1>2, <1>6, <2>1 DEF Sound
  <2>5. QED
    BY <1>7, <2>1, <2>3, <2>4
<1>14. CASE Records(t)
  <2>1. job[t] = "launched" /\ running' = running /\ UNCHANGED disk
    BY <1>14 DEF Records, Turn
  <2>2. Prepared(t)
    BY <1>2, <2>1 DEF Phase
  <2>3. /\ task'[t].state = "created" /\ task'[t].conf = task[t].conf
        /\ \/ /\ task'[t].spawned /\ task'[t].workshop /\ job'[t] = "completed"
           \/ /\ ~task'[t].spawned /\ task'[t].workshop /\ job'[t] = "launched"
    <3>1. CASE task[t].workshop
      <4>1. job'[t] = "completed" /\ task'[t] = [task[t] EXCEPT !.spawned = TRUE]
        BY <1>0, <1>14, <3>1 DEF Records, Reaches, WorkTypes
      <4>2. QED
        BY <1>0, <1>2, <3>1, <4>1 DEF Row
    <3>2. CASE ~task[t].workshop
      <4>1. job'[t] = "launched" /\ task'[t] = [task[t] EXCEPT !.workshop = TRUE]
        BY <1>0, <1>14, <2>1, <3>2 DEF Records, WorkTypes
      <4>2. ~task[t].spawned
        BY <1>2, <2>1 DEF Sound
      <4>3. QED
        BY <1>0, <1>2, <4>1, <4>2 DEF Row
    <3>3. QED
      BY <3>1, <3>2
  <2>4. Prepared(t)'
    BY <2>1, <2>2, <2>3 DEF Prepared, AtReviewed, disk
  <2>5. Phase(t)' /\ Owned(t)' /\ Sound(t)'
    BY <1>2, <1>6, <2>1, <2>3, <2>4 DEF Phase, Owned, Sound
  <2>6. QED
    BY <2>5
<1>15. CASE Starts(t)
  <2>1. /\ job[t] = "completed" /\ job'[t] = "none" /\ running'[t] = task[t].conf.rev
        /\ task'[t] = [task[t] EXCEPT !.flow = "running"] /\ UNCHANGED disk
    BY <1>0, <1>15 DEF Starts, Turn, Reaches, Pinned, WorkTypes
  <2>2. task'[t].state = "created" /\ task'[t].conf = task[t].conf
        /\ task'[t].spawned = task[t].spawned /\ task'[t].workshop = task[t].workshop
    BY <1>0, <1>2, <2>1 DEF Row
  <2>3. Prepared(t)'
    BY <1>2, <2>1, <2>2 DEF Phase, Prepared, AtReviewed, disk
  <2>4. Phase(t)' /\ Owned(t)' /\ Sound(t)'
    BY <1>2, <1>6, <2>1, <2>2, <2>3 DEF Phase, Owned, Sound
  <2>5. QED
    BY <2>4
<1>16. CASE SpawnFails(t)
  <2>1. job'[t] = "none" /\ task'[t] = [task[t] EXCEPT !.state = "failed", !.spawned = TRUE]
    BY <1>0, <1>16 DEF SpawnFails, Reaches, MarkedFailed, WorkTypes
  <2>2. task'[t].state = "failed"
    BY <1>0, <2>1 DEF Row
  <2>3. QED
    BY <1>6, <2>1, <2>2 DEF Phase, Owned, Sound
<1>17. QED
  BY <1>9, <1>10, <1>11, <1>12, <1>13, <1>14, <1>15, <1>16 DEF SpawnStep

\* The run ends, the task is cleaned up, or its session is resumed.
LEMMA TendingOwns ==
    ASSUME CleanupOnce, BaseInv, BaseInv', CloneInv, NEW t \in Tasks,
           RunEnds(t) \/ CleanupBegins(t) \/ RemovesBox(t) \/ RemovesClone(t) \/ CleanupEnds(t)
               \/ Purges(t) \/ Recovers(t)
    PROVE  CloneInv'
<1>0. /\ WorkTypes /\ task[t] \in Row /\ Phase(t) /\ Owned(t) /\ Sound(t) /\ t # "nobody"
  BY LifecycleAssumption DEF BaseInv, WorkTypes, CloneInv
<1>1. \A u \in Tasks \ {t} : /\ task'[u] = task[u] /\ job'[u] = job[u]
                             /\ running'[u] = running[u] /\ cleaning'[u] = cleaning[u]
                             /\ u \in recovering' <=> u \in recovering
  BY TendingTypes
<1>2. job' = job
  BY TendingTypes
<1>3. ASSUME disk' = disk \/ Live(t), task'[t].state \in {"created", "failed"} => Live(t),
             Phase(t)' /\ Owned(t)' /\ Sound(t)'
      PROVE  CloneInv'
  BY <1>1, <1>3, OneTaskOwns
<1>4. CASE RunEnds(t)
  <2>1. /\ running[t] # 0 /\ running'[t] = 0 /\ UNCHANGED <<disk, cleaning, recovering>>
        /\ task'[t] = [task[t] EXCEPT !.flow = "ended"]
    BY <1>0, <1>4 DEF RunEnds, WorkTypes
  <2>2. /\ task'[t].state = task[t].state /\ task'[t].conf = task[t].conf
        /\ task'[t].spawned = task[t].spawned /\ task'[t].workshop = task[t].workshop
    BY <1>0, <2>1 DEF Row
  <2>3. job[t] = "none" /\ t \notin recovering
    BY <1>0, <2>1 DEF Owned
  <2>4. (Prepared(t) <=> Prepared(t)') /\ (Torn <=> Torn')
    BY <2>1, <2>2 DEF Prepared, Torn, AtReviewed, disk
  <2>5. Phase(t)' /\ Owned(t)' /\ Sound(t)'
    BY <1>0, <1>2, <2>1, <2>2, <2>3, <2>4 DEF Phase, Owned, Sound, Live
  <2>6. QED
    BY <1>3, <2>1, <2>2, <2>5 DEF Live
<1>5. CASE CleanupBegins(t)
  <2>1. /\ UNCHANGED <<task, running, disk, recovering>> /\ AtRest(t)
        /\ task[t].state \notin {"none", "purged"}
        /\ cleaning'[t] = IF task[t].workshop THEN "box" ELSE "clone"
    BY <1>0, <1>5 DEF CleanupBegins, work, WorkTypes
  <2>2. Live(t) /\ job[t] = "none" /\ t \notin recovering
    BY <1>0, <2>1 DEF AtRest, Live, Row
  <2>3. (Prepared(t) <=> Prepared(t)') /\ (Torn <=> Torn')
    BY <2>1 DEF Prepared, Torn, AtReviewed, disk
  <2>4. task[t].state = "created" => cleaning'[t] = "box"
    BY <1>0, <2>1, <2>2 DEF Sound
  <2>5. Phase(t)' /\ Owned(t)'
    BY <1>0, <1>2, <2>1, <2>2 DEF Phase, Owned, Live
  <2>6. Sound(t)'
    <3> SUFFICES ASSUME task'[t].state = "created" PROVE Sound(t)'
      BY DEF Sound
    <3>1. /\ task' = task /\ running' = running /\ task[t].state = "created"
          /\ cleaning'[t] = "box" /\ cleaning[t] = "no"
      BY <1>5, <2>1, <2>4 DEF CleanupBegins
    <3>2. QED
      BY <1>0, <1>2, <2>3, <3>1 DEF Sound
  <2>7. QED
    BY <1>3, <2>1, <2>2, <2>5, <2>6
<1>6. ASSUME cleaning[t] # "no" PROVE Live(t) /\ job[t] = "none" /\ t \notin recovering
  BY <1>0, <1>6 DEF Owned
<1>7. CASE RemovesBox(t)
  <2>1. /\ UNCHANGED <<task, running, clone, recovering>> /\ cleaning[t] = "box"
        /\ \/ /\ box' = IF clone.by = "nobody" THEN box ELSE "nobody"
              /\ cleaning'[t] = "clone"
           \/ box' = box /\ cleaning'[t] = "no"
    BY <1>0, <1>7 DEF RemovesBox, work, WorkTypes
  <2>2. Live(t) /\ job[t] = "none" /\ t \notin recovering
    BY <1>6, <2>1
  <2>3. CASE box' = box /\ cleaning'[t] = "no"
    <3>1. (Prepared(t) <=> Prepared(t)') /\ (Torn <=> Torn')
      BY <2>1, <2>3 DEF Prepared, Torn, AtReviewed
    <3>2. Phase(t)' /\ Owned(t)' /\ Sound(t)'
      BY <1>0, <1>2, <2>1, <2>2, <2>3, <3>1 DEF Phase, Owned, Sound, Live
    <3>3. QED
      BY <1>3, <2>1, <2>2, <3>2
  <2>4. CASE box' = (IF clone.by = "nobody" THEN box ELSE "nobody") /\ cleaning'[t] = "clone"
    <3>1. Torn'
      BY <2>1, <2>4 DEF Torn
    <3>2. Phase(t)' /\ Owned(t)' /\ Sound(t)'
      BY <1>0, <1>2, <2>1, <2>2, <2>4, <3>1 DEF Phase, Owned, Sound, Live
    <3>3. QED
      BY <1>3, <2>1, <2>2, <3>2
  <2>5. QED
    BY <2>1, <2>3, <2>4
<1>8. CASE RemovesClone(t)
  <2>1. /\ UNCHANGED <<task, running, box, recovering>> /\ cleaning[t] = "clone"
        /\ cleaning'[t] = "row" /\ clone' \in {clone, NoClone}
    BY <1>0, <1>8 DEF RemovesClone, work, WorkTypes
  <2>2. Live(t) /\ job[t] = "none" /\ t \notin recovering
    BY <1>6, <2>1
  <2>3. Torn => Torn'
    BY <2>1 DEF Torn, NoClone
  <2>4. Phase(t)' /\ Owned(t)' /\ Sound(t)'
    BY <1>0, <1>2, <2>1, <2>2, <2>3 DEF Phase, Owned, Sound, Live
  <2>5. QED
    BY <1>3, <2>1, <2>2, <2>4
<1>9. CASE CleanupEnds(t)
  <2>1. /\ UNCHANGED <<running, disk, recovering>> /\ cleaning[t] = "row"
        /\ cleaning'[t] = "no" /\ task'[t] = [task[t] EXCEPT !.state = "archived"]
    BY <1>0, <1>9 DEF CleanupEnds, WorkTypes
  <2>2. Live(t) /\ job[t] = "none" /\ t \notin recovering /\ task'[t].state = "archived"
    BY <1>0, <1>6, <2>1 DEF Row
  <2>3. Phase(t)' /\ Owned(t)' /\ Sound(t)'
    BY <1>2, <2>1, <2>2 DEF Phase, Owned, Sound
  <2>4. QED
    BY <1>3, <2>1, <2>2, <2>3
<1>10. CASE Purges(t)
  <2>1. /\ UNCHANGED <<running, disk, recovering, cleaning>> /\ task[t].state = "archived"
        /\ task'[t] = [NoRow EXCEPT !.state = "purged"]
    BY <1>0, <1>10 DEF Purges, WorkTypes
  <2>2. /\ job[t] = "none" /\ t \notin recovering /\ cleaning[t] = "no"
        /\ task'[t].state = "purged"
    BY <1>0, <2>1 DEF Owned, Live, NoRow
  <2>3. Phase(t)' /\ Owned(t)' /\ Sound(t)'
    BY <1>2, <2>1, <2>2 DEF Phase, Owned, Sound
  <2>4. QED
    BY <1>3, <2>1, <2>2, <2>3
<1>11. CASE Recovers(t)
  <2>1. /\ UNCHANGED <<disk, cleaning>> /\ t \in recovering /\ t \notin recovering'
        /\ \/ task'[t] = task[t] /\ running'[t] \in {running[t], task[t].conf.rev}
           \/ /\ task'[t] = [task[t] EXCEPT !.state = "failed", !.spawned = TRUE]
              /\ running' = running
    BY <1>0, <1>11 DEF Recovers, Redriven, MarkedFailed, work, WorkTypes
  <2>2. /\ task[t].state = "created" /\ job[t] = "none" /\ cleaning[t] = "no"
        /\ running[t] = 0 /\ Prepared(t) /\ Live(t)
    BY <1>0, <2>1 DEF Owned, Live
  <2>3. CASE task'[t] = task[t] /\ running'[t] \in {running[t], task[t].conf.rev}
    <3>1. Prepared(t)'
      BY <2>1, <2>2, <2>3 DEF Prepared, AtReviewed, disk
    <3>2. Phase(t)' /\ Owned(t)' /\ Sound(t)'
      BY <1>0, <1>2, <2>1, <2>2, <2>3, <3>1 DEF Phase, Owned, Sound, Live
    <3>3. QED
      BY <1>3, <2>1, <2>2, <3>2
  <2>4. CASE task'[t] = [task[t] EXCEPT !.state = "failed", !.spawned = TRUE]
    <3>1. task'[t].state = "failed"
      BY <1>0, <2>4 DEF Row
    <3>2. Phase(t)' /\ Owned(t)' /\ Sound(t)'
      BY <1>2, <2>1, <2>2, <3>1 DEF Phase, Owned, Sound
    <3>3. QED
      BY <1>3, <2>1, <2>2, <3>2
  <2>5. QED
    BY <2>1, <2>3, <2>4
<1>12. QED
  BY <1>4, <1>5, <1>7, <1>8, <1>9, <1>10, <1>11

\* A stop leaves the disk of a prepared task alone, and its next life begins
\* only where both its clone and its container are left.
LEMMA RestartOwns == BaseInv /\ CloneInv /\ Restarts => CloneInv'
<1> SUFFICES ASSUME BaseInv, CloneInv, Restarts PROVE CloneInv'
  OBVIOUS
<1>0. /\ WorkTypes /\ clone \in CloneRecord /\ "nobody" \notin Tasks
      /\ \A t \in Tasks : Owned(t) /\ Sound(t) /\ Phase(t) /\ task[t] \in Row
  BY LifecycleAssumption DEF BaseInv, WorkTypes, DiskTypes, CloneInv
<1>1. PICK gone \in SUBSET Resumable :
          /\ box' = "nobody" => gone = Resumable
          /\ recovering' = Resumable \ gone
          /\ task' = [t \in Tasks |-> IF t \in Unfinished \cup gone
                        THEN [task[t] EXCEPT !.state = "failed", !.spawned = TRUE] ELSE task[t]]
  BY DEF Restarts
<1>2. \A t \in Tasks : job'[t] = "none" /\ running'[t] = 0 /\ cleaning'[t] = "no"
  BY DEF Restarts
<1>3. \A t \in Tasks :
          \/ /\ t \in Unfinished \cup gone /\ task[t].state = "created"
             /\ task'[t].state = "failed"
          \/ t \notin Unfinished \cup gone /\ task'[t] = task[t]
  <2>1. \A r \in Row : [r EXCEPT !.state = "failed", !.spawned = TRUE].state = "failed"
    BY DEF Row
  <2>2. \A t \in Unfinished \cup gone : task[t].state = "created"
    BY <1>1 DEF Unfinished, Resumable
  <2>3. QED
    BY <1>0, <1>1, <2>1, <2>2
<1>4. OneLive'
  <2>1. \A t \in Tasks : task'[t].state \in {"created", "failed"} => Live(t)
    BY <1>3 DEF Live
  <2>2. QED
    BY <2>1 DEF CloneInv, OneLive, Live
<1>5. ASSUME NEW t \in Tasks, task[t].state = "created", task[t].spawned, task'[t] = task[t]
      PROVE  (Torn /\ Torn') \/ (Prepared(t)' /\ ~Torn)
  <2>1. \A u \in Tasks : job[u] \notin {"queued", "staged"}
    <3>1. ASSUME NEW u \in Tasks, job[u] # "none" PROVE u = t
      BY <1>0, <1>5, <3>1 DEF Owned, CloneInv, OneLive, Live
    <3>2. job[t] \in {"none", "completed"}
      BY <1>0, <1>5 DEF Sound
    <3>3. QED
      BY <3>1, <3>2
  <2>2. box' = box /\ clone' = [clone EXCEPT !.staged = FALSE]
    BY <2>1 DEF Restarts
  <2>3. clone'.by = clone.by /\ clone'.ref = clone.ref /\ clone'.commit = clone.commit
        /\ ~clone'.staged
    BY <1>0, <2>2 DEF CloneRecord
  <2>4. Torn \/ Prepared(t)
    BY <1>0, <1>5 DEF Sound
  <2>5. Torn => Torn'
    BY <2>2, <2>3 DEF Torn
  <2>6. Prepared(t) => Prepared(t)' /\ ~Torn
    BY <1>0, <1>5, <2>2, <2>3 DEF Prepared, AtReviewed, Torn
  <2>7. QED
    BY <2>4, <2>5, <2>6
<1>6. ASSUME NEW t \in Tasks PROVE Phase(t)' /\ Owned(t)' /\ Sound(t)'
  <2>1. Phase(t)'
    BY <1>2 DEF Phase
  <2>2. Owned(t)'
    <3> SUFFICES ASSUME t \in recovering'
                 PROVE  /\ task'[t].state = "created" /\ task'[t].spawned
                        /\ running'[t] = 0 /\ Prepared(t)'
      BY <1>2 DEF Owned
    <3>1. t \in Resumable /\ t \notin gone /\ box' # "nobody" /\ clone.by # "nobody"
      BY <1>1 DEF Resumable
    <3>2. task[t].state = "created" /\ task[t].spawned /\ task'[t] = task[t]
      BY <1>3, <3>1 DEF Resumable, Unfinished
    <3>3. ~(Torn /\ Torn')
      <4>1. clone'.by # "nobody"
        <5>1. PICK kept \in {clone} \cup {MadeBy(u) : u \in {v \in Tasks : job[v] = "queued" /\ Free}} :
                  clone' = [kept EXCEPT !.staged = FALSE]
          BY DEF Restarts
        <5>2. kept = clone
          BY <3>1, <5>1 DEF Free
        <5>3. QED
          BY <1>0, <3>1, <5>1, <5>2 DEF CloneRecord
      <4>2. QED
        BY <3>1, <4>1 DEF Torn
    <3>4. QED
      BY <1>2, <1>5, <3>2, <3>3
  <2>3. Sound(t)'
    <3> SUFFICES ASSUME task'[t].state = "created" PROVE Sound(t)'
      BY DEF Sound
    <3>1. task'[t] = task[t] /\ task[t].state = "created" /\ task[t].spawned
      BY <1>3 DEF Unfinished
    <3>2. task[t].workshop
      BY <1>0, <3>1 DEF Sound
    <3>3. Torn' \/ Prepared(t)'
      BY <1>5, <3>1
    <3>4. QED
      BY <1>2, <3>1, <3>2, <3>3 DEF Sound
  <2>4. QED
    BY <2>1, <2>2, <2>3
<1>7. QED
  BY <1>4, <1>6 DEF CloneInv

LEMMA CloneInit == Init => CloneInv
<1> SUFFICES ASSUME Init PROVE CloneInv
  OBVIOUS
<1>1. \A t \in Tasks : /\ task[t].state = "none" /\ job[t] = "none" /\ cleaning[t] = "no"
                       /\ t \notin recovering
  BY DEF Init, NoRow
<1>2. QED
  BY <1>1 DEF CloneInv, OneLive, Live, Phase, Owned, Sound

LEMMA CloneKept == CleanupOnce /\ BaseInv /\ CloneInv /\ [Next]_vars => CloneInv'
<1> SUFFICES ASSUME CleanupOnce, BaseInv, CloneInv, [Next]_vars PROVE CloneInv'
  OBVIOUS
<1>0. BaseInv'
  BY BaseKept
<1>1. ASSUME UNCHANGED <<work, disk, cleaning, recovering>> PROVE CloneInv'
  <2>1. UNCHANGED <<task, job, running, clone, box, cleaning, recovering>>
    BY <1>1 DEF work, disk
  <2>2. \A t \in Tasks : Live(t)' <=> Live(t)
    BY <2>1 DEF Live
  <2>3. OneLive'
    BY <2>2 DEF CloneInv, OneLive
  <2>4. ASSUME NEW t \in Tasks PROVE Phase(t)' /\ Owned(t)' /\ Sound(t)'
    <3>1. Phase(t) /\ Owned(t) /\ Sound(t)
      BY DEF CloneInv
    <3>2. (AtReviewed(t)' <=> AtReviewed(t)) /\ (Prepared(t)' <=> Prepared(t)) /\ (Torn' <=> Torn)
      BY <2>1 DEF AtReviewed, Prepared, Torn
    <3>3. QED
      BY <2>1, <2>2, <3>1, <3>2 DEF Phase, Owned, Sound
  <2>5. QED
    BY <2>3, <2>4 DEF CloneInv
<1>2. CASE UNCHANGED vars
  BY <1>1, <1>2 DEF vars
<1>3. CASE Registers \/ Changes \/ CloneStep \/ Retries \/ DeleteChecks \/ Deletes
           \/ Saves \/ Archives \/ BaseMoves
  BY <1>1, <1>3, PlaceKeeps
<1>4. CASE Restarts
  BY <1>4, RestartOwns
<1>5. ASSUME NEW t \in Tasks, Previews(t) \/ Submits(t) PROVE CloneInv'
  BY <1>1, <1>5, AskingKeeps
<1>6. ASSUME NEW t \in Tasks, Accepts(t) PROVE CloneInv'
  BY <1>6, AcceptingOwns
<1>7. ASSUME NEW t \in Tasks, SpawnStep(t) PROVE CloneInv'
  BY <1>0, <1>7, SpawningOwns
<1>8. ASSUME NEW t \in Tasks,
             RunEnds(t) \/ CleanupBegins(t) \/ RemovesBox(t) \/ RemovesClone(t) \/ CleanupEnds(t)
                 \/ Purges(t) \/ Recovers(t)
      PROVE  CloneInv'
  BY <1>0, <1>8, TendingOwns
<1>9. QED
  BY <1>2, <1>3, <1>4, <1>5, <1>6, <1>7, <1>8 DEF Next

\* A run executes the revision its task was accepted under, in the clone and
\* the container that were made for the task, at the reviewed commit and with
\* nothing of the daemon left staged: across edits, launches that fail at any
\* phase, cleanups that fail or are cut short, and restarts.  `CleanupOnce` is
\* needed: a second cleanup of a task can take the clone of its successor.
THEOREM RunsInItsOwnClone == ASSUME CleanupOnce PROVE Spec => []RunsInItsClone
<1>1. Init => BaseInv /\ CloneInv
  BY BaseInit, CloneInit
<1>2. BaseInv /\ CloneInv /\ [Next]_vars => BaseInv' /\ CloneInv'
  BY BaseKept, CloneKept
<1>3. CloneInv => RunsInItsClone
  BY DEF CloneInv, RunsInItsClone, Sound, Prepared, AtReviewed
<1>4. QED
  BY <1>1, <1>2, <1>3, PTL DEF Spec

\* A step of a preparation leaves what the task has made where it is.
LEMMA SpawningLeaves ==
    ASSUME BaseInv, NEW t \in Tasks, SpawnStep(t)
    PROVE  /\ clone.by = t => clone'.by = t
           /\ box = t => box' = t
<1>0. clone \in CloneRecord /\ "nobody" \notin Tasks
  BY LifecycleAssumption DEF BaseInv, DiskTypes
<1>1. CASE Prepares(t)
  BY <1>1 DEF Prepares, MadeBy
<1>2. CASE Branches(t) \/ Stages(t) \/ Launched(t)
  BY <1>0, <1>2 DEF Branches, Stages, Launched, Restored, CloneRecord
<1>3. CASE Installs(t) \/ Records(t) \/ Starts(t)
  BY <1>3 DEF Installs, Records, Starts, disk
<1>4. CASE SpawnFails(t)
  BY <1>0, <1>4 DEF SpawnFails, Restored, MadeBy, disk, CloneRecord
<1>5. QED
  BY <1>1, <1>2, <1>3, <1>4 DEF SpawnStep

\* A stop leaves the clone with whom it was, and the container but for the one
\* the live task was launching.
LEMMA RestartLeaves ==
    ASSUME BaseInv, CloneInv, Restarts, NEW u \in Tasks, Live(u)
    PROVE  /\ clone.by = u => clone'.by = u
           /\ box = u => box' = u
<1>0. clone \in CloneRecord /\ "nobody" \notin Tasks
  BY LifecycleAssumption DEF BaseInv, DiskTypes
<1>1. ASSUME clone.by = u PROVE clone'.by = u
  <2>1. PICK kept \in {clone} \cup {MadeBy(t) : t \in {v \in Tasks : job[v] = "queued" /\ Free}} :
            clone' = [kept EXCEPT !.staged = FALSE]
    BY DEF Restarts
  <2>2. kept = clone
    BY <1>0, <1>1, <2>1 DEF Free
  <2>3. QED
    BY <1>0, <1>1, <2>1, <2>2 DEF CloneRecord
<1>2. ASSUME box = u, NEW t \in Tasks, job[t] = "staged" PROVE t = u
  BY <1>2 DEF CloneInv, Owned, OneLive, Live
<1>3. QED
  BY <1>1, <1>2 DEF Restarts

\* A clone or a container that belongs to a live task is taken down by that
\* task's own cleanup and by nothing else (the unique slug of `db.py`, the
\* refusal of an existing destination in `isolation/workspace.py`, and the
\* order of `application/cleanup.py`), whatever fails, and wherever the daemon
\* stops.  `CleanupOnce` is needed, as above.
THEOREM ClonesAreTheirOwn == ASSUME CleanupOnce PROVE Spec => CleanupTakesItsOwn
<1>1. Init => BaseInv /\ CloneInv
  BY BaseInit, CloneInit
<1>2. BaseInv /\ CloneInv /\ [Next]_vars => BaseInv' /\ CloneInv'
  BY BaseKept, CloneKept
<1>3. ASSUME BaseInv, CloneInv, [Next]_vars, NEW u \in Tasks, Live(u)
      PROVE  /\ clone.by = u /\ clone'.by # u => cleaning[u] = "clone"
             /\ box = u /\ box' # u => cleaning[u] = "box"
  <2>1. CASE UNCHANGED disk
    BY <2>1 DEF disk
  <2>2. CASE Restarts
    BY <1>3, <2>2, RestartLeaves
  <2>3. ASSUME NEW t \in Tasks, SpawnStep(t)
        PROVE  (clone.by = u => clone'.by = u) /\ (box = u => box' = u)
    <3>1. t = u
      BY <1>3, <2>3, SpawningTypes DEF CloneInv, Owned, OneLive, Live
    <3>2. QED
      BY <1>3, <2>3, <3>1, SpawningLeaves
  <2>4. ASSUME NEW t \in Tasks, RemovesBox(t) \/ RemovesClone(t)
        PROVE  /\ clone.by = u /\ clone'.by # u => cleaning[u] = "clone"
               /\ box = u /\ box' # u => cleaning[u] = "box"
    <3>1. t = u
      BY <1>3, <2>4 DEF RemovesBox, RemovesClone, CloneInv, Owned, OneLive
    <3>2. QED
      BY <2>4, <3>1 DEF RemovesBox, RemovesClone
  <2>5. ASSUME NEW t \in Tasks,
               Previews(t) \/ Submits(t) \/ Accepts(t) \/ RunEnds(t) \/ CleanupBegins(t)
                   \/ CleanupEnds(t) \/ Purges(t) \/ Recovers(t)
        PROVE  UNCHANGED disk
    BY <2>5 DEF Previews, Submits, Accepts, RunEnds, CleanupBegins, CleanupEnds, Purges,
                Recovers, disk
  <2>6. CASE Registers \/ Changes \/ CloneStep \/ Retries \/ DeleteChecks \/ Deletes
             \/ Saves \/ Archives \/ BaseMoves
    BY <1>3, <2>1, <2>6, PlaceKeeps
  <2>7. CASE UNCHANGED vars
    BY <2>1, <2>7 DEF vars
  <2>8. QED
    BY <1>3, <2>1, <2>2, <2>3, <2>4, <2>5, <2>6, <2>7 DEF Next
<1>4. BaseInv /\ CloneInv /\ [Next]_vars
          => [\A u \in Tasks : Live(u) =>
                 /\ clone.by = u /\ clone'.by # u => cleaning[u] = "clone"
                 /\ box = u /\ box' # u => cleaning[u] = "box"]_vars
  BY <1>3
<1>5. QED
  BY <1>1, <1>2, <1>4, PTL DEF Spec, CleanupTakesItsOwn
=============================================================================
