-------------------------- MODULE ResultExportProofs --------------------------
(***************************************************************************)
(* What is proved of ResultExport for any number of exports, files, stops  *)
(* and edits, and any surprises: its types, that a file recorded as        *)
(* created was put there by that very export, that the checkout root has   *)
(* one owner, and that what is not known is never concluded.               *)
(***************************************************************************)
EXTENDS ResultExport, WellFoundedInduction, TLAPS

States == {"running", "completed", "incomplete", "unresolved"}
Seen   == {"created", "not-installed", "unknown"}
Fates  == {"ran", "stopped", "refused", "broke"}

-----------------------------------------------------------------------------
(* Types.                                                                   *)

Held(e) == worker[e] # Idle \/ job[e] # "none"

Places_3 == {"staging", "installing", "renamed"}

\* What types need besides TypeOK: a thread or job has a row, a row has files,
\* and a reconciliation under way is of a row and of its files.
ObservedOK ==
    observed # Nothing =>
        /\ observed.export \in Exports /\ Known(observed.export)
        /\ observed.state \in States \ {"running"}
        /\ DOMAIN observed.seen \in SUBSET Selected(observed.export)
        /\ observed.seen \in [DOMAIN observed.seen -> Seen]

TypeInv ==
    /\ TypeOK
    /\ \A e \in Exports : Held(e) => Known(e)
    /\ \A e \in Exports : Known(e) => Selected(e) # {}
    /\ ObservedOK

\* A row is a record of functions over one set of files.
LEMMA RowShape ==
    ASSUME NEW r \in Rows
    PROVE  /\ DOMAIN r.outcome \in SUBSET Files
           /\ r.outcome \in [DOMAIN r.outcome -> Outcomes]
           /\ r.approved \in [DOMAIN r.approved -> {"create", "identical"}]
           /\ r.state \in States /\ r.staged \in SUBSET Files
           /\ r.acknowledged \in BOOLEAN
           /\ r # NoRow
<1>1. /\ r.outcome \in UNION {[s -> Outcomes] : s \in SUBSET Files}
      /\ r.approved \in UNION {[s -> {"create", "identical"}] : s \in SUBSET Files}
      /\ r.state \in States /\ r.staged \in SUBSET Files
      /\ r.acknowledged \in BOOLEAN
  BY DEF Rows, States
<1>2. PICK s \in SUBSET Files : r.outcome \in [s -> Outcomes]
  BY <1>1
<1>3. PICK t \in SUBSET Files : r.approved \in [t -> {"create", "identical"}]
  BY <1>1
<1>4. r.state # NoRow.state
  BY <1>1 DEF States, NoRow
<1> QED
  BY <1>1, <1>2, <1>3, <1>4

\* A row with another state, other outcomes, staged files and acknowledgement.
Edited(r, st, out, stg, ack) ==
    [r EXCEPT !.state = st, !.outcome = out, !.staged = stg, !.acknowledged = ack]

LEMMA RowEdit ==
    ASSUME NEW r \in Rows, NEW st \in States,
           NEW out \in [DOMAIN r.outcome -> Outcomes],
           NEW stg \in SUBSET Files, NEW ack \in BOOLEAN
    PROVE  LET q == Edited(r, st, out, stg, ack)
           IN  /\ q \in Rows
               /\ q.state = st /\ q.outcome = out /\ q.approved = r.approved
               /\ q.staged = stg /\ q.acknowledged = ack
<1>1. DOMAIN r.outcome \in SUBSET Files
  BY RowShape
<1>2. out \in UNION {[s -> Outcomes] : s \in SUBSET Files}
  BY <1>1
<1> QED
  BY <1>2 DEF Rows, States, Edited

\* The files of a thread are numbered, so a nonempty set of them has an
\* earliest one.
LEMMA EarliestIn ==
    ASSUME NEW todo \in SUBSET Files, todo # {}
    PROVE  Earliest(todo) \in todo
<1> DEFINE Less == OpToRel(<, Nat)
<1>1. todo \subseteq Nat
  BY ExportConstants DEF Files
<1>2. PICK b \in todo : \A c \in todo : ~(<<c, b>> \in Less)
  <2>1. IsWellFoundedOn(Less, Nat)
    BY NatLessThanWellFounded
  <2> HIDE DEF Less
  <2> QED
    BY <1>1, <2>1, WFMin
<1>3. \A c \in todo : b <= c
  <2>1. SUFFICES ASSUME NEW c \in todo, c < b PROVE FALSE
    BY <1>1
  <2>2. <<c, b>> \in {ss \in Nat \X Nat : ss[1] < ss[2]}
    BY <1>1, <2>1
  <2> QED
    BY <1>2, <2>2 DEF OpToRel
<1> QED
  BY <1>3 DEF Earliest

-----------------------------------------------------------------------------
(* The shapes of change to a row.                                           *)

\* Only e's row changes, and it keeps its files and their approval.
Edits(e) ==
    /\ row' \in [Exports -> {NoRow} \cup Rows]
    /\ \A o \in Exports \ {e} : row'[o] = row[o]
    /\ row'[e].state \in States
    /\ DOMAIN row'[e].outcome = Selected(e)
    /\ row'[e].approved = row[e].approved

LEMMA EditShape ==
    ASSUME TypeInv, NEW e \in Exports, Known(e), NEW q \in Rows,
           row' = [row EXCEPT ![e] = q],
           q.approved = row[e].approved, DOMAIN q.outcome = Selected(e)
    PROVE  Edits(e)
<1>1. row \in [Exports -> {NoRow} \cup Rows] /\ q.state \in States
  BY RowShape DEF TypeInv, TypeOK
<1> QED
  BY <1>1 DEF Edits

LEMMA KnownRow ==
    ASSUME TypeInv, NEW e \in Exports, Known(e)
    PROVE  /\ row[e] \in Rows /\ Selected(e) \in SUBSET Files
           /\ row[e].outcome \in [Selected(e) -> Outcomes]
           /\ row[e].state \in States /\ row[e].staged \in SUBSET Files
           /\ row[e].acknowledged \in BOOLEAN
           /\ DOMAIN row[e].approved = Selected(e)
           /\ row[e].approved \in [Selected(e) -> {"create", "identical"}]
<1>1. row[e] \in Rows /\ DOMAIN row[e].approved = Selected(e)
  BY DEF TypeInv, TypeOK, Known, NoRow
<1> QED
  BY <1>1, RowShape DEF Selected

\* A new state, and perhaps an acknowledgement.
LEMMA StateEdit ==
    ASSUME TypeInv, NEW e \in Exports, Known(e), NEW st \in States,
           NEW ack \in BOOLEAN,
           row' = [row EXCEPT ![e].state = st, ![e].acknowledged = ack]
    PROVE  /\ Edits(e) /\ row'[e].state = st /\ row'[e].outcome = row[e].outcome
           /\ row'[e].acknowledged = ack
<1> DEFINE q == Edited(row[e], st, row[e].outcome,
                       row[e].staged, ack)
<1>0. /\ row[e] \in Rows /\ row[e].staged \in SUBSET Files
      /\ row[e].state \in States /\ row[e].acknowledged \in BOOLEAN
      /\ row[e].outcome \in [DOMAIN row[e].outcome -> Outcomes]
      /\ row \in [Exports -> {NoRow} \cup Rows]
  BY KnownRow DEF Selected, TypeInv, TypeOK
<1>1. /\ q \in Rows /\ q.approved = row[e].approved
      /\ q.state = st /\ q.outcome = row[e].outcome /\ q.acknowledged = ack
  BY <1>0, RowEdit
<1>2. row' = [row EXCEPT ![e] = q] /\ row'[e] = q
  BY <1>0 DEF Rows, Edited
<1> QED
  BY <1>1, <1>2, EditShape DEF Selected

LEMMA FinishEdit ==
    ASSUME TypeInv, NEW e \in Exports, Known(e),
           NEW claimed \in {"completed", "incomplete", "unresolved"},
           NEW leftover \in BOOLEAN, Finish(e, claimed, leftover)
    PROVE  /\ Edits(e) /\ row'[e].outcome = row[e].outcome
           /\ row'[e].state = FinishState(e, claimed, leftover)
           /\ row'[e].acknowledged = row[e].acknowledged
           /\ row'[e].state # "running"
<1> DEFINE st == FinishState(e, claimed, leftover)
<1>1. st \in States \ {"running"}
  BY DEF FinishState, States
<1>2. row' = [row EXCEPT ![e].state = st, ![e].acknowledged = row[e].acknowledged]
  BY KnownRow DEF Finish, TypeInv, TypeOK, Rows
<1> HIDE DEF st
<1>3. /\ Edits(e) /\ row'[e].state = st /\ row'[e].outcome = row[e].outcome
      /\ row'[e].acknowledged = row[e].acknowledged
  BY <1>1, <1>2, StateEdit, KnownRow
<1> QED
  BY <1>1, <1>3 DEF st

\* One file's outcome.
LEMMA JournalEdit ==
    ASSUME TypeInv, NEW e \in Exports, Known(e), NEW f \in Selected(e),
           NEW out \in Outcomes, Journals(e, f, out)
    PROVE  /\ Edits(e) /\ row'[e].state = row[e].state
           /\ row'[e].acknowledged = row[e].acknowledged
           /\ row'[e].outcome = [row[e].outcome EXCEPT ![f] = out]
<1> DEFINE outs == [row[e].outcome EXCEPT ![f] = out]
           q == Edited(row[e], row[e].state, outs,
                       row[e].staged, row[e].acknowledged)
<1>0. /\ row[e] \in Rows /\ row[e].staged \in SUBSET Files
      /\ row[e].state \in States /\ row[e].acknowledged \in BOOLEAN
      /\ row[e].outcome \in [DOMAIN row[e].outcome -> Outcomes]
      /\ row \in [Exports -> {NoRow} \cup Rows]
  BY KnownRow DEF Selected, TypeInv, TypeOK
<1>1. outs \in [DOMAIN row[e].outcome -> Outcomes] /\ DOMAIN outs = Selected(e)
  BY <1>0 DEF Selected
<1>2. /\ q \in Rows /\ q.approved = row[e].approved
      /\ q.state = row[e].state /\ q.outcome = outs
      /\ q.acknowledged = row[e].acknowledged
  BY <1>0, <1>1, RowEdit
<1>3. row' = [row EXCEPT ![e] = q] /\ row'[e] = q
  BY <1>0 DEF Journals, Rows, Edited
<1> QED
  BY <1>1, <1>2, <1>3, EditShape

\* One more staged file.
LEMMA StageEdit ==
    ASSUME TypeInv, NEW e \in Exports, Known(e), NEW f \in Files,
           row' = [row EXCEPT ![e].staged = @ \cup {f}]
    PROVE  /\ Edits(e) /\ row'[e].state = row[e].state
           /\ row'[e].outcome = row[e].outcome
           /\ row'[e].acknowledged = row[e].acknowledged
<1> DEFINE stg == row[e].staged \cup {f}
           q == Edited(row[e], row[e].state, row[e].outcome,
                       stg, row[e].acknowledged)
<1>0. /\ row[e] \in Rows /\ row[e].staged \in SUBSET Files
      /\ row[e].state \in States /\ row[e].acknowledged \in BOOLEAN
      /\ row[e].outcome \in [DOMAIN row[e].outcome -> Outcomes]
      /\ row \in [Exports -> {NoRow} \cup Rows]
  BY KnownRow DEF Selected, TypeInv, TypeOK
<1>1. stg \in SUBSET Files
  BY <1>0
<1>2. /\ q \in Rows /\ q.approved = row[e].approved
      /\ q.state = row[e].state /\ q.outcome = row[e].outcome
      /\ q.acknowledged = row[e].acknowledged
  BY <1>0, <1>1, RowEdit
<1>3. row' = [row EXCEPT ![e] = q] /\ row'[e] = q
  BY <1>0 DEF Rows, Edited
<1> QED
  BY <1>2, <1>3, EditShape DEF Selected

-----------------------------------------------------------------------------
(* Every step keeps the types.                                              *)

\* The rows known, their files and what was approved for them stay.
Keeps ==
    /\ row' \in [Exports -> {NoRow} \cup Rows]
    /\ \A o \in Exports :
        /\ Known(o)' <=> Known(o)
        /\ Known(o) => Selected(o)' = Selected(o)
                       /\ row'[o].approved = row[o].approved

LEMMA EditsKeeps ==
    ASSUME TypeInv, NEW e \in Exports, Known(e), Edits(e) \/ row' = row
    PROVE  Keeps
<1>1. CASE row' = row
  BY <1>1 DEF TypeInv, TypeOK, Keeps, Known, Selected
<1>2. CASE Edits(e)
  BY <1>2 DEF Edits, Keeps, Known, Selected, States
<1> QED
  BY <1>1, <1>2

\* What is left to show of TypeOK once the rows keep their files.
LEMMA KeepsType ==
    ASSUME TypeInv, Keeps,
           job' \in [Exports -> {"none", "scheduled", "awaiting"}],
           worker' \in [Exports -> Threads],
           installed' \in [Exports -> SUBSET Files],
           \A e \in Exports : Held(e)' => Known(e),
           \A e \in Exports : worker'[e].pc \in Places_3 =>
               worker'[e].todo \in (SUBSET Selected(e)) \ {{}},
           daemon' \in {"up", "stopping", "down", "starting"},
           root' \in BOOLEAN, retained' \in BOOLEAN,
           place' \in [Files -> Places], staging' \subseteq Exports,
           stops' \in 0 .. MaxStops, edits' \in 0 .. MaxEdits,
           ObservedOK'
    PROVE  TypeInv'
<1>1. \A e \in Exports : Held(e) => Known(e)
  BY DEF TypeInv
<1>2. \A e \in Exports : worker'[e].pc \in Places_3 => Known(e)
  BY DEF Held, Idle, Places_3
<1>3. \A e \in Exports : Known(e) => DOMAIN row[e].approved = Selected(e)
                                    /\ Selected(e) # {}
  BY DEF TypeInv, TypeOK
<1>4. \A e \in Exports : Known(e)' => DOMAIN row'[e].approved = Selected(e)'
                                     /\ Selected(e)' # {}
  BY <1>3 DEF Keeps
<1>5. \A e \in Exports : worker'[e].pc \in Places_3 =>
          worker'[e].todo \in (SUBSET Selected(e)') \ {{}}
  BY <1>2 DEF Keeps
<1>6. observed' = Nothing \/ observed'.export \in Exports
  BY DEF ObservedOK
<1>7. TypeOK'
  BY <1>4, <1>5, <1>6 DEF TypeOK, Keeps, Places_3
<1> QED
  BY <1>4, <1>7 DEF TypeInv, Keeps

\* An observation stays of a known row and of its files.
LEMMA ObservedKept ==
    ASSUME TypeInv, Keeps, observed' = observed
    PROVE  ObservedOK'
  BY DEF TypeInv, ObservedOK, Keeps

\* A step of e's job or thread.
Works(e) ==
    /\ Held(e)
    /\ Edits(e) \/ row' = row
    /\ worker' \in [Exports -> Threads]
    /\ \A o \in Exports \ {e} : worker'[o] = worker[o] /\ job'[o] = job[o]
    /\ worker'[e].pc \in Places_3 =>
           worker'[e].todo \in (SUBSET Selected(e)) \ {{}}
    /\ job' \in [Exports -> {"none", "scheduled", "awaiting"}]
    /\ installed' \in [Exports -> SUBSET Files]
    /\ place' \in [Files -> Places]
    /\ staging' \subseteq Exports
    /\ UNCHANGED <<aside, root, edits>>

LEMMA WorksType ==
    ASSUME TypeInv, NEW e \in Exports, Works(e)
    PROVE  TypeInv' /\ Keeps
<1>1. Known(e)
  BY DEF TypeInv, Works
<1>2. Keeps
  BY <1>1, EditsKeeps DEF Works
<1>3. ObservedOK'
  BY <1>2, ObservedKept DEF Works, aside
<1>4. \A o \in Exports : Held(o)' => Known(o)
  BY <1>1 DEF TypeInv, Works, Held
<1>5. \A o \in Exports : worker'[o].pc \in Places_3 =>
          worker'[o].todo \in (SUBSET Selected(o)) \ {{}}
  BY DEF TypeInv, TypeOK, Works, Places_3
<1> QED
  BY <1>2, <1>3, <1>4, <1>5, KeepsType
  DEF Works, aside, process, TypeInv, TypeOK

\* Where a thread goes.
LEMMA GoType ==
    ASSUME TypeInv, NEW e \in Exports,
           NEW pc \in {"opening", "staging", "installing", "renamed",
                       "unwinding", "finishing", "raised"},
           NEW todo \in SUBSET Files, NEW fate \in Fates,
           Go(e, pc, todo, fate)
    PROVE  /\ worker' \in [Exports -> Threads]
           /\ \A o \in Exports \ {e} : worker'[o] = worker[o]
           /\ worker'[e] = [pc |-> pc, todo |-> todo, fate |-> fate]
           /\ worker'[e].pc = pc /\ worker'[e].todo = todo
           /\ worker'[e].fate = fate
  BY DEF Go, TypeInv, TypeOK, Threads, Fates

\* Where a thread that has something left to do stands.
LEMMA CurrentIn ==
    ASSUME TypeInv, NEW e \in Exports, worker[e].pc \in Places_3
    PROVE  /\ Held(e) /\ Known(e)
           /\ worker[e].todo \in SUBSET Selected(e) /\ worker[e].todo \in SUBSET Files
           /\ Current(e) \in worker[e].todo /\ Current(e) \in Selected(e)
           /\ Current(e) \in Files
<1>1. worker[e].todo \in (SUBSET Selected(e)) \ {{}}
  BY DEF TypeInv, TypeOK, Places_3
<1>2. Held(e)
  BY DEF Held, Idle, Places_3
<1>3. Known(e)
  BY <1>2 DEF TypeInv
<1>4. Selected(e) \in SUBSET Files
  BY <1>3, KnownRow
<1>5. Current(e) \in worker[e].todo
  BY <1>1, <1>4, EarliestIn DEF Current
<1> QED
  BY <1>1, <1>2, <1>3, <1>4, <1>5

\* A thread at any of its positions belongs to a known export.
LEMMA HeldAt ==
    ASSUME TypeInv, NEW e \in Exports,
           \/ At(e, "opening") \/ At(e, "unwinding") \/ At(e, "finishing")
           \/ At(e, "raised") \/ job[e] # "none"
    PROVE  Held(e) /\ Known(e) /\ Selected(e) \in SUBSET Files /\ Selected(e) # {}
<1>1. Held(e)
  BY DEF Held, At, Idle
<1> QED
  BY <1>1, KnownRow DEF TypeInv

LEMMA GoesOnType ==
    ASSUME TypeInv, NEW e \in Exports, worker[e].pc \in Places_3, GoesOn(e)
    PROVE  /\ worker' \in [Exports -> Threads]
           /\ \A o \in Exports \ {e} : worker'[o] = worker[o]
           /\ worker'[e].pc \in {"unwinding", "installing"}
           /\ worker'[e].pc \in Places_3 =>
                  worker'[e].todo \in (SUBSET Selected(e)) \ {{}}
<1> DEFINE rest == worker[e].todo \ {Current(e)}
<1>1. rest \in SUBSET Selected(e) /\ rest \in SUBSET Files
  BY CurrentIn
<1>2. CASE rest = {}
  <2>1. Go(e, "unwinding", {}, "ran")
    BY <1>2 DEF GoesOn, Unwinds
  <2> QED
    BY <2>1, GoType DEF Places_3, Fates
<1>3. CASE rest # {}
  <2>1. Go(e, "installing", rest, "ran")
    BY <1>3 DEF GoesOn
  <2> HIDE DEF rest
  <2> QED
    BY <1>1, <1>3, <2>1, GoType DEF Fates
<1> QED
  BY <1>2, <1>3

\* A thread leaves its installation.
LEMMA UnwindsType ==
    ASSUME TypeInv, NEW e \in Exports,
           NEW fate \in Fates, Unwinds(e, fate)
    PROVE  /\ worker' \in [Exports -> Threads]
           /\ \A o \in Exports \ {e} : worker'[o] = worker[o]
           /\ worker'[e].pc = "unwinding"
  BY DEF Unwinds, Go, TypeInv, TypeOK, Threads, Fates

-----------------------------------------------------------------------------
(* The steps of a job and its thread, one by one.                           *)

LEMMA BeginWorks ==
    ASSUME TypeInv, NEW e \in Exports, Begin(e)
    PROVE  Works(e) /\ row' = row
<1>1. Held(e)
  BY DEF Begin, Held
<1>2. Go(e, "opening", {}, "ran")
  BY DEF Begin
<1>3. /\ worker' \in [Exports -> Threads]
      /\ \A o \in Exports \ {e} : worker'[o] = worker[o]
      /\ worker'[e].pc = "opening"
  BY <1>2, GoType DEF Fates
<1> QED
  BY <1>1, <1>3
  DEF Begin, Works, Places_3, TypeInv, TypeOK, aside, checkout, process

LEMMA BytesRefusedWorks ==
    ASSUME TypeInv, NEW e \in Exports, BytesRefused(e)
    PROVE  Works(e) /\ Edits(e) /\ row'[e].outcome = row[e].outcome
           /\ row'[e].state # "running"
<1>1. Held(e) /\ Known(e)
  BY HeldAt DEF BytesRefused
<1>2. Edits(e) /\ row'[e].outcome = row[e].outcome /\ row'[e].state # "running"
  BY <1>1, FinishEdit DEF BytesRefused
<1> QED
  BY <1>1, <1>2
  DEF BytesRefused, Works, Places_3, TypeInv, TypeOK, aside, checkout, process, thread

LEMMA RootReplacedWorks ==
    ASSUME TypeInv, NEW e \in Exports, RootReplaced(e)
    PROVE  Works(e) /\ row' = row
<1>1. Held(e)
  BY HeldAt DEF RootReplaced
<1>2. Go(e, "raised", {}, "refused")
  BY DEF RootReplaced
<1>3. /\ worker' \in [Exports -> Threads]
      /\ \A o \in Exports \ {e} : worker'[o] = worker[o]
      /\ worker'[e].pc = "raised"
  BY <1>2, GoType DEF Fates
<1> QED
  BY <1>1, <1>3
  DEF RootReplaced, Works, Places_3, TypeInv, TypeOK, aside, checkout, process

LEMMA CreateStagingWorks ==
    ASSUME TypeInv, NEW e \in Exports, CreateStaging(e)
    PROVE  Works(e) /\ row' = row
<1>1. Held(e) /\ Selected(e) \in SUBSET Files /\ Selected(e) # {}
  BY HeldAt DEF CreateStaging
<1>2. Creates(e) \in SUBSET Selected(e) /\ Creates(e) \in SUBSET Files
  BY <1>1 DEF Creates
<1>3. /\ worker' \in [Exports -> Threads]
      /\ \A o \in Exports \ {e} : worker'[o] = worker[o]
      /\ worker'[e].todo \in (SUBSET Selected(e)) \ {{}}
  <2>1. CASE Creates(e) = {}
    <3>1. Go(e, "installing", Selected(e), "ran")
      BY <2>1 DEF CreateStaging
    <3> QED
      BY <1>1, <3>1, GoType DEF Fates
  <2>2. CASE Creates(e) # {}
    <3>1. Go(e, "staging", Creates(e), "ran")
      BY <2>2 DEF CreateStaging
    <3> QED
      BY <1>2, <2>2, <3>1, GoType DEF Fates
  <2> QED
    BY <2>1, <2>2
<1> QED
  BY <1>1, <1>3
  DEF CreateStaging, Works, TypeInv, TypeOK, aside, checkout, process

LEMMA StagingFailsWorks ==
    ASSUME TypeInv, NEW e \in Exports, StagingFails(e)
    PROVE  Works(e) /\ row' = row
<1>1. Held(e)
  BY HeldAt DEF StagingFails
<1>2. \/ Go(e, "raised", {}, "refused")
      \/ Go(e, "raised", {}, "broke")
      \/ Go(e, "unwinding", {}, "refused")
      \/ Go(e, "unwinding", {}, "broke")
  BY DEF StagingFails, Unwinds
<1>3. /\ worker' \in [Exports -> Threads]
      /\ \A o \in Exports \ {e} : worker'[o] = worker[o]
      /\ worker'[e].pc \in {"raised", "unwinding"}
  BY <1>2 DEF Go, TypeInv, TypeOK, Threads
<1>4. staging' \subseteq Exports
  BY DEF StagingFails, TypeInv, TypeOK
<1> QED
  BY <1>1, <1>3, <1>4
  DEF StagingFails, Works, Places_3, TypeInv, TypeOK, aside, checkout, process

LEMMA StageFileWorks ==
    ASSUME TypeInv, NEW e \in Exports, StageFile(e)
    PROVE  Works(e) /\ Edits(e) /\ row'[e].outcome = row[e].outcome
           /\ row'[e].state = row[e].state
           /\ row'[e].acknowledged = row[e].acknowledged
<1> DEFINE rest == worker[e].todo \ {Current(e)}
<1>1. worker[e].pc \in Places_3
  BY DEF StageFile, At, Places_3
<1>2. /\ Held(e) /\ Known(e) /\ Current(e) \in Files
      /\ Selected(e) \in SUBSET Files /\ Selected(e) # {}
      /\ rest \in SUBSET Selected(e) /\ rest \in SUBSET Files
  BY <1>1, CurrentIn, KnownRow DEF TypeInv
<1>3. row' = [row EXCEPT ![e].staged = @ \cup {Current(e)}]
  BY DEF StageFile
<1>4. /\ Edits(e) /\ row'[e].state = row[e].state
      /\ row'[e].outcome = row[e].outcome
      /\ row'[e].acknowledged = row[e].acknowledged
  BY <1>2, <1>3, StageEdit
<1>5. /\ worker' \in [Exports -> Threads]
      /\ \A o \in Exports \ {e} : worker'[o] = worker[o]
      /\ worker'[e].todo \in (SUBSET Selected(e)) \ {{}}
  <2>1. CASE rest = {}
    <3>1. Go(e, "installing", Selected(e), "ran")
      BY <2>1 DEF StageFile
    <3> QED
      BY <1>2, <3>1, GoType DEF Fates
  <2>2. CASE rest # {}
    <3>1. Go(e, "staging", rest, "ran")
      BY <2>2 DEF StageFile
    <3> HIDE DEF rest
    <3> QED
      BY <1>2, <2>2, <3>1, GoType DEF Fates
  <2> QED
    BY <2>1, <2>2
<1> QED
  BY <1>2, <1>4, <1>5
  DEF StageFile, Works, TypeInv, TypeOK, aside, checkout, process

\* The ways out of staging and installing that journal nothing.
LEMMA BreaksWorks ==
    ASSUME TypeInv, NEW e \in Exports, StageFails(e) \/ RenameFails(e) \/ Vanished(e)
    PROVE  Works(e) /\ row' = row
<1>1. worker[e].pc \in Places_3
  BY DEF StageFails, RenameFails, Vanished, Approved, At, Places_3
<1>2. Held(e)
  BY <1>1, CurrentIn
<1>3. PICK fate \in Fates : Unwinds(e, fate)
  BY DEF StageFails, RenameFails, Vanished, Fates
<1>4. /\ worker' \in [Exports -> Threads]
      /\ \A o \in Exports \ {e} : worker'[o] = worker[o]
      /\ worker'[e].pc = "unwinding"
  BY <1>3, UnwindsType
<1> QED
  BY <1>2, <1>4
  DEF StageFails, RenameFails, Vanished, Works, Places_3, TypeInv, TypeOK,
      aside, checkout, process

\* A file's outcome is journaled; as created only once it is renamed.
LEMMA JournalWorks ==
    ASSUME TypeInv, NEW e \in Exports,
           VerifyIdentical(e) \/ NotInstalled(e) \/ RecordCreated(e)
    PROVE  /\ Works(e) /\ Edits(e) /\ row'[e].state = row[e].state
           /\ worker'[e].pc \in {"unwinding", "installing"}
           /\ \E out \in Outcomes :
                /\ row'[e].outcome = [row[e].outcome EXCEPT ![Current(e)] = out]
                /\ out = "created" <=> At(e, "renamed")
                /\ out # "unknown"
           /\ row'[e].acknowledged = row[e].acknowledged
<1>1. worker[e].pc \in Places_3
  BY DEF VerifyIdentical, NotInstalled, RecordCreated, Approved, At, Places_3
<1>2. Held(e) /\ Known(e) /\ Current(e) \in Selected(e)
  BY <1>1, CurrentIn
<1>3. PICK out \in Outcomes :
        /\ Journals(e, Current(e), out)
        /\ out = "created" <=> At(e, "renamed")
        /\ out # "unknown"
  BY DEF VerifyIdentical, NotInstalled, RecordCreated, Approved, At, Outcomes,
         Delivered
<1>4. /\ Edits(e) /\ row'[e].state = row[e].state
      /\ row'[e].acknowledged = row[e].acknowledged
      /\ row'[e].outcome = [row[e].outcome EXCEPT ![Current(e)] = out]
  <2>1. PICK f \in Selected(e) : f = Current(e)
    BY <1>2
  <2>2. Journals(e, f, out)
    BY <1>3, <2>1 DEF Journals
  <2>3. /\ Edits(e) /\ row'[e].state = row[e].state
        /\ row'[e].acknowledged = row[e].acknowledged
        /\ row'[e].outcome = [row[e].outcome EXCEPT ![f] = out]
    BY <1>2, <2>2, JournalEdit
  <2> QED
    BY <2>1, <2>3
<1>5. GoesOn(e) \/ Unwinds(e, "stopped")
  BY DEF VerifyIdentical, NotInstalled, RecordCreated
<1>6. /\ worker' \in [Exports -> Threads]
      /\ \A o \in Exports \ {e} : worker'[o] = worker[o]
      /\ worker'[e].pc \in {"unwinding", "installing"}
      /\ worker'[e].pc \in Places_3 =>
             worker'[e].todo \in (SUBSET Selected(e)) \ {{}}
  <2>1. CASE GoesOn(e)
    BY <1>1, <2>1, GoesOnType
  <2>2. CASE Unwinds(e, "stopped")
    BY <2>2, UnwindsType DEF Places_3, Fates
  <2> QED
    BY <1>5, <2>1, <2>2
<1>7. UNCHANGED <<aside, checkout, job, staging, installed>>
  BY DEF VerifyIdentical, NotInstalled, RecordCreated
<1>8. Works(e)
  BY <1>2, <1>4, <1>6, <1>7
  DEF Works, TypeInv, TypeOK, aside, checkout, process
<1>9. \E res \in Outcomes :
         /\ row'[e].outcome = [row[e].outcome EXCEPT ![Current(e)] = res]
         /\ res = "created" <=> At(e, "renamed")
         /\ res # "unknown"
  <2> WITNESS out \in Outcomes
  <2> QED
    BY <1>3, <1>4
<1> QED
  BY <1>4, <1>6, <1>8, <1>9

LEMMA InstallOneWorks ==
    ASSUME TypeInv, NEW e \in Exports, InstallOne(e)
    PROVE  /\ Works(e) /\ row' = row
           /\ place' = [place EXCEPT ![Current(e)] = [owner |-> e, same |-> TRUE]]
           /\ installed' = [installed EXCEPT ![e] = @ \cup {Current(e)}]
           /\ worker'[e].todo = worker[e].todo
           /\ Current(e) \in Files
<1>1. worker[e].pc \in Places_3
  BY DEF InstallOne, Approved, At, Places_3
<1>2. /\ Held(e) /\ Current(e) \in Files
      /\ worker[e].todo \in SUBSET Files /\ worker[e].todo \in (SUBSET Selected(e)) \ {{}}
  BY <1>1, CurrentIn
<1>3. Go(e, "renamed", worker[e].todo, "ran")
  BY DEF InstallOne
<1>4. /\ worker' \in [Exports -> Threads]
      /\ \A o \in Exports \ {e} : worker'[o] = worker[o]
      /\ worker'[e].todo = worker[e].todo
  BY <1>2, <1>3, GoType DEF Fates
<1>5. [owner |-> e, same |-> TRUE] \in Places
  BY DEF Places
<1>6. /\ place' = [place EXCEPT ![Current(e)] = [owner |-> e, same |-> TRUE]]
      /\ installed' = [installed EXCEPT ![e] = @ \cup {Current(e)}]
      /\ UNCHANGED <<aside, root, edits, row, job, staging>>
  BY DEF InstallOne
<1>7. place' \in [Files -> Places]
  BY <1>2, <1>5, <1>6 DEF TypeInv, TypeOK
<1>8. installed' \in [Exports -> SUBSET Files]
  BY <1>2, <1>6 DEF TypeInv, TypeOK
<1> QED
  BY <1>2, <1>4, <1>6, <1>7, <1>8
  DEF Works, TypeInv, TypeOK, aside, process

LEMMA UnwindWorks ==
    ASSUME TypeInv, NEW e \in Exports, Unwind(e)
    PROVE  Works(e) /\ row' = row
<1>1. Held(e)
  BY HeldAt DEF Unwind
<1>2. worker[e].fate \in Fates
  BY DEF Unwind, At, TypeInv, TypeOK, Threads, Idle, Fates
<1>3. PICK pc \in {"finishing", "raised"} : Go(e, pc, {}, worker[e].fate)
  BY DEF Unwind
<1>4. /\ worker' \in [Exports -> Threads]
      /\ \A o \in Exports \ {e} : worker'[o] = worker[o]
      /\ worker'[e].pc \in {"finishing", "raised"}
  BY <1>2, <1>3 DEF Go, TypeInv, TypeOK, Threads, Fates
<1> QED
  BY <1>1, <1>4
  DEF Unwind, Works, Places_3, TypeInv, TypeOK, aside, checkout, process

\* The thread ends: what it did is settled, unless its job was cancelled.
LEMMA EndsWorks ==
    ASSUME TypeInv, NEW e \in Exports, FinishExport(e) \/ Raised(e)
    PROVE  /\ Works(e)
           /\ row' = row \/ (/\ Edits(e) /\ row'[e].outcome = row[e].outcome
                              /\ row'[e].state # "running")
           /\ worker'[e] = Idle /\ job'[e] = "none"
           /\ job[e] = "awaiting" => row'[e].state # "running"
<1>1. Held(e) /\ Known(e)
  BY HeldAt DEF FinishExport, Raised
<1>2. /\ worker' = [worker EXCEPT ![e] = Idle]
      /\ job' = [job EXCEPT ![e] = "none"]
      /\ UNCHANGED <<aside, checkout, staging, installed>>
  BY DEF FinishExport, Raised
<1>3. /\ worker' \in [Exports -> Threads] /\ worker'[e] = Idle
      /\ \A o \in Exports \ {e} : worker'[o] = worker[o] /\ job'[o] = job[o]
      /\ job' \in [Exports -> {"none", "scheduled", "awaiting"}]
      /\ job'[e] = "none" /\ worker'[e].pc \notin Places_3
  BY <1>2 DEF TypeInv, TypeOK, Threads, Idle, Places_3
<1>4. CASE Raised(e) /\ ~Catches(e)
  <2>1. row' = row /\ job[e] # "awaiting"
    BY <1>4 DEF Raised, Catches
  <2> QED
    BY <1>1, <1>2, <1>3, <2>1
    DEF Works, TypeInv, TypeOK, aside, checkout, process
<1>5. CASE FinishExport(e) \/ Catches(e)
  <2>1. PICK claimed \in {"completed", "incomplete", "unresolved"},
             left \in BOOLEAN : Finish(e, claimed, left)
    <3>1. CASE FinishExport(e)
      <4>1. (e \in staging) \in BOOLEAN
        OBVIOUS
      <4>2. Finish(e, "completed", e \in staging)
            \/ Finish(e, "incomplete", e \in staging)
        BY <3>1 DEF FinishExport
      <4> QED
        BY <4>1, <4>2
    <3>2. CASE ~FinishExport(e)
      BY <1>5, <3>2 DEF Raised
    <3> QED
      BY <3>1, <3>2
  <2>2. /\ Edits(e) /\ row'[e].outcome = row[e].outcome
        /\ row'[e].state # "running"
    BY <1>1, <2>1, FinishEdit
  <2> QED
    BY <1>1, <1>2, <1>3, <2>2
    DEF Works, TypeInv, TypeOK, aside, checkout, process
<1> QED
  BY <1>4, <1>5

-----------------------------------------------------------------------------
(* The other steps.                                                         *)

LEMMA InstallWorks ==
    ASSUME TypeInv, NEW e \in Exports, Install(e)
    PROVE  Works(e)
  BY BeginWorks, BytesRefusedWorks, RootReplacedWorks, CreateStagingWorks,
     StagingFailsWorks, StageFileWorks, BreaksWorks, JournalWorks, InstallOneWorks, UnwindWorks,
     EndsWorks
  DEF Install

LEMMA StartType ==
    ASSUME TypeInv, NEW e \in Exports, Start(e)
    PROVE  /\ TypeInv'
           /\ \A o \in Exports \ {e} : row'[o] = row[o] /\ job'[o] = job[o]
           /\ ~Known(e) /\ row'[e].state = "running" /\ job'[e] = "scheduled"
           /\ \A f \in Selected(e)' : row'[e].outcome[f] = "pending"
<1>1. PICK selection \in (SUBSET Files) \ {{}} :
         row' = [row EXCEPT ![e] =
               [state |-> "running",
                approved |-> [f \in selection |-> Classification(f)],
                outcome |-> [f \in selection |-> "pending"],
                staged |-> {}, acknowledged |-> FALSE]]
  BY DEF Start
<1> DEFINE r == [state |-> "running",
                 approved |-> [f \in selection |-> Classification(f)],
                 outcome |-> [f \in selection |-> "pending"],
                 staged |-> {}, acknowledged |-> FALSE]
<1>2. r \in Rows
  <2>1. \A f \in selection : Classification(f) \in {"create", "identical"}
    BY DEF Classification
  <2>2. [f \in selection |-> Classification(f)] \in
            UNION {[s -> {"create", "identical"}] : s \in SUBSET Files}
    BY <2>1
  <2>3. [f \in selection |-> "pending"] \in UNION {[s -> Outcomes] : s \in SUBSET Files}
    BY DEF Outcomes, Uncertain
  <2> QED
    BY <2>2, <2>3 DEF Rows
<1>3. /\ row' \in [Exports -> {NoRow} \cup Rows] /\ row'[e] = r
      /\ \A o \in Exports \ {e} : row'[o] = row[o]
  BY <1>1, <1>2 DEF TypeInv, TypeOK
<1>4. /\ r.state = "running" /\ r.outcome = [f \in selection |-> "pending"]
      /\ DOMAIN r.outcome = selection /\ DOMAIN r.approved = selection
      /\ selection # {}
  OBVIOUS
<1> HIDE DEF r
<1>5. /\ job' = [job EXCEPT ![e] = "scheduled"] /\ ~Known(e)
      /\ UNCHANGED <<aside, checkout, thread>>
  BY DEF Start, Known, NoRow
<1>6. /\ job' \in [Exports -> {"none", "scheduled", "awaiting"}]
      /\ \A o \in Exports \ {e} : job'[o] = job[o]
      /\ job'[e] = "scheduled"
  BY <1>5 DEF TypeInv, TypeOK
<1>7. Known(e)' /\ Selected(e)' = selection
  BY <1>3, <1>4 DEF Known, Selected
<1>8. \A o \in Exports : Known(o) => o # e /\ Known(o)' /\ Selected(o)' = Selected(o)
  BY <1>3, <1>5 DEF Known, Selected
<1>9. ObservedOK'
  BY <1>5, <1>8 DEF TypeInv, ObservedOK, aside
<1>10. \A o \in Exports : Known(o)' => DOMAIN row'[o].approved = Selected(o)'
                                     /\ Selected(o)' # {}
  BY <1>3, <1>4, <1>7 DEF TypeInv, TypeOK, Known, Selected
<1>11. \A o \in Exports : worker'[o].pc \in Places_3 =>
           worker'[o].todo \in (SUBSET Selected(o)') \ {{}}
  BY <1>5, <1>8 DEF TypeInv, TypeOK, Held, Idle, Places_3, thread
<1>12. \A o \in Exports : Held(o)' => Known(o)'
  BY <1>5, <1>6, <1>7, <1>8 DEF TypeInv, Held, thread
<1>13. TypeOK'
  BY <1>3, <1>5, <1>6, <1>10, <1>11
  DEF TypeInv, TypeOK, Places_3, aside, process, checkout, thread
<1> QED
  BY <1>3, <1>4, <1>5, <1>6, <1>7, <1>9, <1>10, <1>12, <1>13 DEF TypeInv

\* What classifying an observation yields.
LEMMA SeesType ==
    ASSUME TypeInv, NEW e \in Exports, Known(e),
           NEW S \in SUBSET Selected(e), Sees(e, S)
    PROVE  \E seen \in [S -> Seen] :
              /\ observed' = [export |-> e, seen |-> seen, state |-> Classify(e, seen)]
              /\ \A f \in S : seen[f] = "created" => place[f].owner = e
<1>1. PICK hidden \in SUBSET S :
        observed' = [export |-> e,
                     seen |-> [f \in S |-> IF f \in hidden THEN Uninspected(e, f)
                                                          ELSE ObserveEffect(e, f)],
                     state |-> Classify(e, [f \in S |->
                                   IF f \in hidden THEN Uninspected(e, f)
                                                   ELSE ObserveEffect(e, f)])]
  BY DEF Sees
<1> DEFINE seen == [f \in S |-> IF f \in hidden THEN Uninspected(e, f)
                                                ELSE ObserveEffect(e, f)]
<1>2. \A f \in S : seen[f] \in Seen /\ (seen[f] = "created" => place[f].owner = e)
  BY DEF ObserveEffect, Uninspected, Seen
<1>3. seen \in [S -> Seen]
  BY <1>2
<1>4. observed' = [export |-> e, seen |-> seen, state |-> Classify(e, seen)]
  BY <1>1
<1> HIDE DEF seen
<1> QED
  BY <1>2, <1>3, <1>4

LEMMA ClassifyType ==
    ASSUME NEW e, NEW seen
    PROVE  Classify(e, seen) \in States \ {"running"}
  BY DEF Classify, States

LEMMA ObserveType ==
    ASSUME TypeInv, NEW e \in Exports, Reconcile(e) \/ Recheck(e)
    PROVE  /\ TypeInv' /\ observed' # Nothing /\ observed'.export = e /\ Known(e)
           /\ observed'.state = Classify(e, observed'.seen)
           /\ \A f \in DOMAIN observed'.seen :
                observed'.seen[f] = "created" => place[f].owner = e
<1>1. Known(e)
  BY DEF Reconcile, Recheck, Known
<1>2. PICK S \in SUBSET Selected(e) : Sees(e, S)
  BY DEF Reconcile, Recheck, PendingIn, UncertainIn
<1>2a. PICK seen \in [S -> Seen] :
        /\ observed' = [export |-> e, seen |-> seen, state |-> Classify(e, seen)]
        /\ \A f \in S : seen[f] = "created" => place[f].owner = e
  BY <1>1, <1>2, SeesType
<1>2b. /\ seen \in [S -> Seen] /\ observed' # Nothing
       /\ observed'.state = Classify(e, observed'.seen)
       /\ \A f \in S : seen[f] = "created" => place[f].owner = e
  BY <1>2a DEF Nothing
<1>3. /\ observed'.export = e /\ observed'.seen = seen
      /\ observed'.state \in States \ {"running"}
  BY <1>2a, ClassifyType
<1>4. UNCHANGED <<process, checkout, thread, retained, row, job>>
  BY DEF Reconcile, Recheck
<1>5. Known(e)' /\ Selected(e)' = Selected(e)
  BY <1>1, <1>4 DEF Known, Selected
<1>6. ObservedOK'
  BY <1>2b, <1>3, <1>5 DEF ObservedOK
<1>7. Keeps
  BY <1>4 DEF Keeps, TypeInv, TypeOK, Known, Selected
<1>8. TypeInv'
  BY <1>4, <1>6, <1>7, KeepsType
  DEF TypeInv, TypeOK, process, checkout, thread, Held, Places_3
<1> QED
  BY <1>1, <1>2b, <1>3, <1>8

\* Recording an observation: refused, or the outcomes seen and their state.
LEMMA RecordEdit ==
    ASSUME TypeInv, RecordReconciliation
    PROVE  LET e == observed.export
           IN  /\ e \in Exports /\ Known(e) /\ observed # Nothing
               /\ observed.state \in States \ {"running"}
               /\ observed.seen \in [DOMAIN observed.seen -> Seen]
               /\ \/ row' = row /\ RootTaken(e, observed.state)
                  \/ /\ Edits(e) /\ ~RootTaken(e, observed.state)
                     /\ row'[e].state = observed.state
                     /\ row'[e].outcome =
                            [f \in Selected(e) |->
                                IF f \in DOMAIN observed.seen
                                THEN observed.seen[f] ELSE row[e].outcome[f]]
<1> DEFINE e == observed.export
<1>1. /\ observed # Nothing /\ e \in Exports /\ Known(e)
      /\ observed.state \in States \ {"running"}
      /\ DOMAIN observed.seen \in SUBSET Selected(e)
      /\ observed.seen \in [DOMAIN observed.seen -> Seen]
  BY DEF RecordReconciliation, TypeInv, ObservedOK
<1> DEFINE out == [f \in Selected(e) |-> IF f \in DOMAIN observed.seen
                                         THEN observed.seen[f]
                                         ELSE row[e].outcome[f]]
           q == Edited(row[e], observed.state, out, row[e].staged,
                       row[e].acknowledged)
<1>2. /\ row[e] \in Rows /\ row[e].staged \in SUBSET Files
      /\ row[e].state \in States /\ row[e].acknowledged \in BOOLEAN
      /\ row[e].outcome \in [DOMAIN row[e].outcome -> Outcomes]
      /\ row \in [Exports -> {NoRow} \cup Rows]
  BY <1>1, KnownRow DEF Selected, TypeInv, TypeOK
<1>3. Seen \subseteq Outcomes
  BY DEF Seen, Outcomes, Delivered, Uncertain
<1>4. out \in [DOMAIN row[e].outcome -> Outcomes] /\ DOMAIN out = Selected(e)
  BY <1>1, <1>2, <1>3 DEF Selected
<1>5. CASE RootTaken(e, observed.state)
  BY <1>1, <1>5 DEF RecordReconciliation
<1>6. CASE ~RootTaken(e, observed.state)
  <2>1. row' = [row EXCEPT ![e].outcome = [f \in Selected(e) |->
                                IF f \in DOMAIN observed.seen
                                THEN observed.seen[f] ELSE @[f]],
                           ![e].state = observed.state]
    BY <1>6 DEF RecordReconciliation
  <2>2. /\ q \in Rows /\ q.approved = row[e].approved
        /\ q.state = observed.state /\ q.outcome = out
    <3> HIDE DEF out
    <3> QED
      BY <1>1, <1>2, <1>4, RowEdit
  <2>3. row' = [row EXCEPT ![e] = q] /\ row'[e] = q
    <3>1. row' = [row EXCEPT ![e].outcome = out, ![e].state = observed.state]
      BY <1>1, <1>2, <2>1
    <3> HIDE DEF out
    <3> QED
      BY <1>1, <1>2, <3>1 DEF Rows, Edited
  <2>4. Edits(e)
    <3> HIDE DEF q, out
    <3> QED
      BY <1>1, <1>4, <2>2, <2>3, EditShape
  <2> QED
    BY <1>1, <1>6, <2>2, <2>3, <2>4
<1> QED
  BY <1>5, <1>6

LEMMA RecordType ==
    ASSUME TypeInv, RecordReconciliation
    PROVE  TypeInv'
<1>1. /\ observed.export \in Exports /\ Known(observed.export)
      /\ Edits(observed.export) \/ row' = row
  BY RecordEdit
<1>2. Keeps
  BY <1>1, EditsKeeps
<1>3. ObservedOK'
  BY DEF RecordReconciliation, ObservedOK
<1> QED
  BY <1>2, <1>3, KeepsType
  DEF RecordReconciliation, TypeInv, TypeOK, process, checkout, thread, Held,
      Places_3

LEMMA AcknowledgeEdit ==
    ASSUME TypeInv, NEW e \in Exports, Acknowledge(e)
    PROVE  /\ Known(e) /\ Edits(e) /\ row'[e].outcome = row[e].outcome
           /\ row[e].state = "unresolved" /\ row'[e].state = "incomplete"
           /\ row'[e].acknowledged = TRUE
<1>1. row[e].state = "unresolved" /\ Known(e)
  BY DEF Acknowledge, Known
<1>2. row' = [row EXCEPT ![e].state = "incomplete", ![e].acknowledged = TRUE]
  BY DEF Acknowledge
<1> QED
  BY <1>1, <1>2, StateEdit DEF States

LEMMA AcknowledgeType ==
    ASSUME TypeInv, NEW e \in Exports, Acknowledge(e)
    PROVE  TypeInv'
<1>1. Keeps
  BY AcknowledgeEdit, EditsKeeps
<1>2. ObservedOK'
  BY <1>1, ObservedKept DEF Acknowledge, aside
<1> QED
  BY <1>1, <1>2, KeepsType
  DEF Acknowledge, TypeInv, TypeOK, aside, process, checkout, thread, Held,
      Places_3

\* A step of the process, the operator or the store, which no row shows.
LEMMA AsideType ==
    ASSUME TypeInv,
           PurgeResult \/ Shutdown \/ Killed \/ Exits \/ Boot \/ Serve \/ Operator
    PROVE  /\ TypeInv' /\ row' = row /\ installed' = installed
           /\ observed' \in {observed, Nothing}
           /\ \A e \in Exports : worker'[e] \in {worker[e], Idle}
                                 /\ job'[e] \in {job[e], "none"}
<1>1. row' = row /\ installed' = installed
  BY DEF PurgeResult, Shutdown, Killed, Exits, Dies, Boot, Serve, Operator,
         WriteFile, EditInPlace, RemoveFile, MoveRoot, Elsewhere, thread
<1>2. observed' \in {observed, Nothing}
  BY DEF PurgeResult, Shutdown, Killed, Exits, Dies, Boot, Serve, Operator,
         WriteFile, EditInPlace, RemoveFile, MoveRoot, Elsewhere
<1>3. /\ \/ worker' = worker
         \/ worker' = [e \in Exports |-> Idle]
      /\ \/ job' = job
         \/ job' = [e \in Exports |-> "none"]
  BY DEF PurgeResult, Shutdown, Killed, Exits, Dies, Boot, Serve, Operator,
         WriteFile, EditInPlace, RemoveFile, MoveRoot, Elsewhere, thread
<1>4. /\ worker' \in [Exports -> Threads]
      /\ job' \in [Exports -> {"none", "scheduled", "awaiting"}]
      /\ \A e \in Exports : worker'[e] \in {worker[e], Idle}
                            /\ job'[e] \in {job[e], "none"}
  BY <1>3 DEF TypeInv, TypeOK, Threads
<1>5. /\ daemon' \in {"up", "stopping", "down", "starting"}
      /\ root' \in BOOLEAN /\ retained' \in BOOLEAN /\ staging' = staging
  BY DEF PurgeResult, Shutdown, Killed, Exits, Dies, Boot, Serve, Operator,
         WriteFile, EditInPlace, RemoveFile, MoveRoot, Elsewhere, thread,
         process, checkout, TypeInv, TypeOK
<1>6. stops' \in 0 .. MaxStops
  <2>1. stops' = stops \/ (stops < MaxStops /\ stops' = stops + 1)
    BY DEF PurgeResult, Shutdown, Killed, Exits, Dies, Boot, Serve, Operator,
           WriteFile, EditInPlace, RemoveFile, MoveRoot, Elsewhere, process,
           CanStop
  <2> QED
    BY <2>1, ExportConstants DEF TypeInv, TypeOK
<1>7. edits' \in 0 .. MaxEdits
  <2>1. edits' = edits \/ (edits < MaxEdits /\ edits' = edits + 1)
    BY DEF PurgeResult, Shutdown, Killed, Exits, Dies, Boot, Serve, Operator,
           WriteFile, EditInPlace, RemoveFile, MoveRoot, Touches, checkout
  <2> QED
    BY <2>1, ExportConstants DEF TypeInv, TypeOK
<1>8. place' \in [Files -> Places]
  <2>1. CASE UNCHANGED place
    BY <2>1 DEF TypeInv, TypeOK
  <2>2. CASE \E f \in Files : WriteFile(f)
    BY <2>2 DEF WriteFile, Freed, TypeInv, TypeOK, Places
  <2>3. CASE \E f \in Files : EditInPlace(f)
    <3>1. PICK f \in Files : EditInPlace(f)
      BY <2>3
    <3>2. place[f] \in [owner : Exports \cup {"operator"}, same : BOOLEAN]
      BY <3>1 DEF EditInPlace, Occupied, TypeInv, TypeOK, Places
    <3>3. [place[f] EXCEPT !.same = ~@] \in Places
      BY <3>2 DEF Places
    <3> QED
      BY <3>1, <3>3 DEF EditInPlace, TypeInv, TypeOK
  <2>4. CASE \E f \in Files : RemoveFile(f)
    BY <2>4 DEF RemoveFile, TypeInv, TypeOK, Places
  <2> QED
    BY <2>1, <2>2, <2>3, <2>4
    DEF PurgeResult, Shutdown, Killed, Exits, Dies, Boot, Serve, Operator,
        MoveRoot, checkout
<1>9. Keeps
  BY <1>1 DEF Keeps, TypeInv, TypeOK, Known, Selected
<1>10. ObservedOK'
  BY <1>2, <1>9, ObservedKept DEF ObservedOK
<1>11. \A e \in Exports : Held(e)' => Known(e)
  BY <1>4 DEF TypeInv, Held
<1>12. \A e \in Exports : worker'[e].pc \in Places_3 =>
           worker'[e].todo \in (SUBSET Selected(e)) \ {{}}
  BY <1>4 DEF TypeInv, TypeOK, Places_3, Idle
<1>13. installed' \in [Exports -> SUBSET Files] /\ staging' \subseteq Exports
  BY <1>1, <1>5 DEF TypeInv, TypeOK
<1> QED
  BY <1>1, <1>2, <1>4, <1>5, <1>6, <1>7, <1>8, <1>9, <1>10, <1>11, <1>12, <1>13,
     KeepsType

LEMMA TypeInit == Init => TypeInv
<1> SUFFICES ASSUME Init PROVE TypeInv
  OBVIOUS
<1>1. place \in [Files -> Places]
  BY DEF Init
<1>2. TypeOK
  BY <1>1, ExportConstants
  DEF Init, TypeOK, Threads, Known, NoRow, Idle, Nothing
<1> QED
  BY <1>2 DEF Init, TypeInv, Held, Known, NoRow, ObservedOK, Idle

LEMMA TypeStep == TypeInv /\ [Next]_vars => TypeInv'
<1> SUFFICES ASSUME TypeInv, [Next]_vars PROVE TypeInv'
  OBVIOUS
<1>1. CASE UNCHANGED vars
  BY <1>1
  DEF vars, TypeInv, TypeOK, Held, Known, Selected, ObservedOK, Places_3
<1>2. ASSUME NEW e \in Exports, Start(e) PROVE TypeInv'
  BY <1>2, StartType
<1>3. ASSUME NEW e \in Exports, Install(e) PROVE TypeInv'
  BY <1>3, InstallWorks, WorksType
<1>4. ASSUME NEW e \in Exports, Reconcile(e) \/ Recheck(e) PROVE TypeInv'
  BY <1>4, ObserveType
<1>5. ASSUME NEW e \in Exports, Acknowledge(e) PROVE TypeInv'
  BY <1>5, AcknowledgeType
<1>6. CASE RecordReconciliation
  BY <1>6, RecordType
<1>7. CASE PurgeResult \/ Shutdown \/ Killed \/ Exits \/ Boot \/ Serve \/ Operator
  BY <1>7, AsideType
<1> QED
  BY <1>1, <1>2, <1>3, <1>4, <1>5, <1>6, <1>7 DEF Next

LEMMA TypesHold == Spec => []TypeInv
<1> QED
  BY TypeInit, TypeStep, PTL DEF Spec

\* Every variable of the export keeps its type, whatever fails, stops or is
\* edited in the checkout: a row's outcomes are those of its approved files,
\* and a thread that stages or installs has one of them to work on.
THEOREM ExportTypeCorrect == Spec => []TypeOK
<1>1. TypeInv => TypeOK
  BY DEF TypeInv
<1> QED
  BY <1>1, TypesHold, PTL

-----------------------------------------------------------------------------
(* A file recorded as created was put there by this export.                 *)

PlaceOwned ==
    \A f \in Files : place[f].owner \in Exports => f \in installed[place[f].owner]
RenamedInstalled ==
    \A e \in Exports : At(e, "renamed") => Current(e) \in installed[e]
SeenInstalled ==
    observed # Nothing =>
        \A f \in DOMAIN observed.seen :
            observed.seen[f] = "created" => f \in installed[observed.export]

CreatedInv ==
    /\ TypeInv
    /\ PlaceOwned
    /\ RenamedInstalled
    /\ SeenInstalled
    /\ CreatedHappened

\* What a step has to show of a row: what it records as created is installed.
CreatedIsInstalled(e) ==
    \A f \in Selected(e)' : row'[e].outcome[f] = "created" => f \in installed[e]

LEMMA SameOutcomes ==
    ASSUME CreatedInv, NEW e \in Exports, Known(e), row'[e].outcome = row[e].outcome
    PROVE  CreatedIsInstalled(e)
  BY DEF CreatedInv, CreatedHappened, Selected, CreatedIsInstalled

\* Only the record of a rename makes an outcome created.
LEMMA InstallCreated ==
    ASSUME CreatedInv, NEW e \in Exports, Install(e)
    PROVE  CreatedIsInstalled(e)
<1>1. TypeInv
  BY DEF CreatedInv
<1>2. Known(e)
  BY <1>1, InstallWorks DEF Works, TypeInv
<1>3. CASE VerifyIdentical(e) \/ NotInstalled(e) \/ RecordCreated(e)
  <2>1. PICK out \in Outcomes :
           /\ row'[e].outcome = [row[e].outcome EXCEPT ![Current(e)] = out]
           /\ out = "created" => At(e, "renamed")
    BY <1>1, <1>3, JournalWorks
  <2>2. out = "created" => Current(e) \in installed[e]
    BY <2>1 DEF CreatedInv, RenamedInstalled
  <2> QED
    BY <1>2, <2>1, <2>2
    DEF CreatedInv, CreatedHappened, Selected, CreatedIsInstalled
<1>4. CASE ~(VerifyIdentical(e) \/ NotInstalled(e) \/ RecordCreated(e))
  <2>1. row'[e].outcome = row[e].outcome
    BY <1>1, <1>4, BeginWorks, BytesRefusedWorks, RootReplacedWorks,
       CreateStagingWorks, StagingFailsWorks, StageFileWorks, BreaksWorks,
       InstallOneWorks,
       UnwindWorks, EndsWorks
    DEF Install
  <2> QED
    BY <1>2, <2>1, SameOutcomes
<1> QED
  BY <1>3, <1>4

\* The history, the checkout and the thread move together at the rename.
LEMMA InstallHistory ==
    ASSUME CreatedInv, NEW e \in Exports, Install(e)
    PROVE  /\ \A o \in Exports : installed[o] \subseteq installed'[o]
           /\ PlaceOwned' /\ RenamedInstalled'
<1>1. TypeInv /\ Works(e) /\ installed \in [Exports -> SUBSET Files]
  BY InstallWorks DEF CreatedInv, TypeInv, TypeOK
<1>2. \A o \in Exports \ {e} : worker'[o] = worker[o]
  BY <1>1 DEF Works
<1>3. CASE InstallOne(e)
  <2>1. /\ place' = [place EXCEPT ![Current(e)] = [owner |-> e, same |-> TRUE]]
        /\ installed' = [installed EXCEPT ![e] = @ \cup {Current(e)}]
        /\ worker'[e].todo = worker[e].todo /\ Current(e) \in Files
    BY <1>1, <1>3, InstallOneWorks
  <2>2. \A o \in Exports : installed[o] \subseteq installed'[o]
    BY <1>1, <2>1
  <2>3. Current(e) \in installed'[e] /\ Current(e)' = Current(e)
    BY <1>1, <2>1 DEF Current
  <2>4. PlaceOwned'
    BY <1>1, <2>1, <2>2, <2>3 DEF CreatedInv, PlaceOwned, TypeInv, TypeOK
  <2>5. RenamedInstalled'
    BY <1>2, <2>2, <2>3 DEF CreatedInv, RenamedInstalled, At, Current
  <2> QED
    BY <2>2, <2>4, <2>5
<1>4. CASE ~InstallOne(e)
  <2>1. UNCHANGED <<place, installed>>
    BY <1>4
    DEF Install, Begin, BytesRefused, RootReplaced, CreateStaging, StagingFails, StageFile,
        StageFails, VerifyIdentical, NotInstalled, RenameFails, RecordCreated,
        Vanished, Unwind, FinishExport, Raised, checkout, thread
  <2>2. worker'[e].pc # "renamed" \/ worker'[e] = worker[e]
    <3>1. CASE VerifyIdentical(e) \/ NotInstalled(e) \/ RecordCreated(e)
      BY <1>1, <3>1, JournalWorks
    <3>2. CASE BytesRefused(e)
      BY <3>2 DEF BytesRefused, thread
    <3>3. CASE FinishExport(e) \/ Raised(e)
      BY <1>1, <3>3, EndsWorks DEF Idle
    <3>4. CASE StageFails(e) \/ RenameFails(e) \/ Vanished(e) \/ Unwind(e)
      BY <1>1, <3>4
      DEF StageFails, RenameFails, Vanished, Unwind, Unwinds, Go, TypeInv, TypeOK
    <3>5. CASE \/ Begin(e) \/ RootReplaced(e) \/ CreateStaging(e)
               \/ StagingFails(e) \/ StageFile(e)
      BY <1>1, <3>5
      DEF Begin, RootReplaced, CreateStaging, StagingFails, StageFile, Unwinds,
          Go, TypeInv, TypeOK
    <3> QED
      BY <1>4, <3>1, <3>2, <3>3, <3>4, <3>5 DEF Install
  <2> QED
    BY <1>2, <2>1, <2>2
    DEF CreatedInv, PlaceOwned, RenamedInstalled, At, Current
<1> QED
  BY <1>3, <1>4

\* The other steps leave the history, and make no outcome created unless the
\* checkout was seen to hold this export's own file.
LEMMA CreatedKept ==
    ASSUME CreatedInv, TypeInv',
           \A e \in Exports : installed[e] \subseteq installed'[e],
           \A e \in Exports : Known(e)' => CreatedIsInstalled(e)
    PROVE  CreatedHappened'
  BY DEF CreatedHappened, CreatedIsInstalled

LEMMA RowsKept ==
    ASSUME CreatedInv, NEW e \in Exports, Known(e), CreatedIsInstalled(e),
           row' = row \/ Edits(e)
    PROVE  \A o \in Exports : Known(o)' => CreatedIsInstalled(o)
<1>1. SUFFICES ASSUME NEW o \in Exports, Known(o)', o # e
               PROVE  CreatedIsInstalled(o)
  OBVIOUS
<1>2. row'[o] = row[o]
  BY <1>1 DEF Edits
<1> QED
  BY <1>1, <1>2, SameOutcomes DEF Known

LEMMA CreatedInit == Init => CreatedInv
  BY TypeInit, ExportConstants
  DEF Init, CreatedInv, PlaceOwned, RenamedInstalled, SeenInstalled,
      CreatedHappened, At, Idle, Known, NoRow, Nothing

LEMMA CreatedStep ==
    ASSUME "reused" \notin Surprises
    PROVE  CreatedInv /\ [Next]_vars => CreatedInv'
<1> SUFFICES ASSUME CreatedInv, [Next]_vars PROVE CreatedInv'
  OBVIOUS
<1>1. TypeInv /\ TypeInv'
  BY TypeStep DEF CreatedInv
<1>2. CASE UNCHANGED vars
  BY <1>1, <1>2
  DEF vars, CreatedInv, PlaceOwned, RenamedInstalled, SeenInstalled,
      CreatedHappened, At, Current, Known, Selected
<1>3. ASSUME NEW e \in Exports, Start(e) PROVE CreatedInv'
  <2>1. UNCHANGED <<place, installed, worker, observed>>
    BY <1>3 DEF Start, aside, checkout, thread
  <2>2. /\ \A o \in Exports \ {e} : row'[o] = row[o]
        /\ \A f \in Selected(e)' : row'[e].outcome[f] = "pending"
    BY <1>1, <1>3, StartType
  <2>3. CreatedHappened'
    BY <2>1, <2>2 DEF CreatedInv, CreatedHappened, Known, Selected
  <2> QED
    BY <1>1, <2>1, <2>3
    DEF CreatedInv, PlaceOwned, RenamedInstalled, SeenInstalled, At, Current
<1>4. ASSUME NEW e \in Exports, Install(e) PROVE CreatedInv'
  <2>1. /\ \A o \in Exports : installed[o] \subseteq installed'[o]
        /\ PlaceOwned' /\ RenamedInstalled'
    BY <1>4, InstallHistory
  <2>2. Works(e) /\ Known(e)
    BY <1>1, <1>4, InstallWorks DEF Works, TypeInv
  <2>3. observed' = observed /\ (row' = row \/ Edits(e))
    BY <2>2 DEF Works, aside
  <2>4. CreatedHappened'
    BY <1>1, <1>4, <2>1, <2>2, <2>3, InstallCreated, RowsKept, CreatedKept
  <2>5. SeenInstalled'
    BY <1>1, <2>1, <2>3 DEF CreatedInv, SeenInstalled, TypeInv, ObservedOK
  <2> QED
    BY <1>1, <2>1, <2>4, <2>5 DEF CreatedInv
<1>5. ASSUME NEW e \in Exports, Reconcile(e) \/ Recheck(e) PROVE CreatedInv'
  <2>1. UNCHANGED <<checkout, thread, row>>
    BY <1>5 DEF Reconcile, Recheck
  <2>2. /\ observed'.export = e
        /\ \A f \in DOMAIN observed'.seen :
             observed'.seen[f] = "created" => place[f].owner = e
    BY <1>1, <1>5, ObserveType
  <2>3. DOMAIN observed'.seen \subseteq Files
    <3>1. observed' # Nothing
      BY <1>1, <1>5, ObserveType
    <3>2. DOMAIN observed'.seen \subseteq Selected(e)' /\ Known(e)'
      BY <1>1, <2>2, <3>1 DEF TypeInv, ObservedOK
    <3> QED
      BY <1>1, <2>1, <3>2, KnownRow DEF Known, Selected
  <2>4. SeenInstalled'
    BY <2>1, <2>2, <2>3
    DEF CreatedInv, PlaceOwned, SeenInstalled, thread
  <2> QED
    BY <1>1, <2>1, <2>4
    DEF CreatedInv, PlaceOwned, RenamedInstalled, CreatedHappened, At, Current,
        Known, Selected, checkout, thread
<1>6. ASSUME NEW e \in Exports, Acknowledge(e) PROVE CreatedInv'
  <2>1. UNCHANGED <<aside, checkout, thread>>
    BY <1>6 DEF Acknowledge
  <2>2. /\ Known(e) /\ Edits(e) /\ row'[e].outcome = row[e].outcome
    BY <1>1, <1>6, AcknowledgeEdit
  <2>3. CreatedHappened'
    BY <1>1, <2>1, <2>2, SameOutcomes, RowsKept, CreatedKept DEF thread
  <2> QED
    BY <1>1, <2>1, <2>3
    DEF CreatedInv, PlaceOwned, RenamedInstalled, SeenInstalled, At, Current,
        aside, checkout, thread
<1>7. CASE RecordReconciliation
  <2>0. PICK e \in Exports : e = observed.export
    BY <1>1, <1>7, RecordEdit
  <2>1. UNCHANGED <<checkout, thread>> /\ observed' = Nothing
    BY <1>7 DEF RecordReconciliation
  <2>2. /\ Known(e) /\ observed # Nothing
        /\ \/ row' = row
           \/ /\ Edits(e)
              /\ row'[e].outcome = [f \in Selected(e) |->
                                       IF f \in DOMAIN observed.seen
                                       THEN observed.seen[f]
                                       ELSE row[e].outcome[f]]
    BY <1>1, <1>7, <2>0, RecordEdit
  <2>3. CreatedIsInstalled(e)
    <3>1. CASE row' = row
      BY <2>2, <3>1, SameOutcomes
    <3>2. CASE row' # row
      <4>1. SUFFICES ASSUME NEW f \in Selected(e), row'[e].outcome[f] = "created"
                     PROVE  f \in installed[e]
        BY <2>2, <3>2 DEF CreatedIsInstalled, Edits, Selected
      <4>2. CASE f \in DOMAIN observed.seen
        BY <2>0, <2>2, <3>2, <4>1, <4>2 DEF CreatedInv, SeenInstalled
      <4>3. CASE f \notin DOMAIN observed.seen
        BY <2>2, <3>2, <4>1, <4>3 DEF CreatedInv, CreatedHappened
      <4> QED
        BY <4>2, <4>3
    <3> QED
      BY <3>1, <3>2
  <2>4. CreatedHappened'
    BY <1>1, <2>1, <2>2, <2>3, RowsKept, CreatedKept DEF thread
  <2> QED
    BY <1>1, <2>1, <2>4
    DEF CreatedInv, PlaceOwned, RenamedInstalled, SeenInstalled, At, Current,
        checkout, thread
<1>8. CASE PurgeResult \/ Shutdown \/ Killed \/ Exits \/ Boot \/ Serve \/ Operator
  <2>1. /\ row' = row /\ installed' = installed
        /\ observed' \in {observed, Nothing}
        /\ \A e \in Exports : worker'[e] \in {worker[e], Idle}
    BY <1>1, <1>8, AsideType
  <2>2. \A f \in Files : place'[f].owner \in Exports => place'[f].owner = place[f].owner
    <3>1. CASE place' = place
      BY <3>1
    <3>2. CASE \E f \in Files : WriteFile(f) \/ EditInPlace(f) \/ RemoveFile(f)
      <4>1. CASE \E f \in Files : WriteFile(f)
        <5>1. PICK g \in Files : WriteFile(g)
          BY <4>1
        <5>2. PICK same \in BOOLEAN, owner \in {"operator"} \cup Freed(g) :
                /\ owner \in Exports => "reused" \in Surprises
                /\ place' = [place EXCEPT ![g] = [owner |-> owner, same |-> same]]
          BY <5>1 DEF WriteFile
        <5> QED
          BY <1>1, <5>2 DEF TypeInv, TypeOK
      <4>2. CASE \E f \in Files : EditInPlace(f) \/ RemoveFile(f)
        BY <1>1, <4>2, ExportConstants
        DEF EditInPlace, RemoveFile, Absent, TypeInv, TypeOK, Places
      <4> QED
        BY <3>2, <4>1, <4>2
    <3> QED
      BY <1>8, <3>1, <3>2
      DEF PurgeResult, Shutdown, Killed, Exits, Dies, Boot, Serve, Operator,
          MoveRoot, checkout
  <2>3. PlaceOwned'
    BY <2>1, <2>2 DEF CreatedInv, PlaceOwned
  <2>4. RenamedInstalled'
    BY <2>1 DEF CreatedInv, RenamedInstalled, At, Current, Idle
  <2>5. SeenInstalled'
    BY <2>1 DEF CreatedInv, SeenInstalled
  <2>6. CreatedHappened'
    BY <2>1 DEF CreatedInv, CreatedHappened, Known, Selected
  <2> QED
    BY <1>1, <2>3, <2>4, <2>5, <2>6 DEF CreatedInv
<1> QED
  BY <1>2, <1>3, <1>4, <1>5, <1>6, <1>7, <1>8 DEF Next

\* A file recorded as created was renamed into place by that very export,
\* whatever the operator, a stop or a reconciliation did before it was recorded,
\* as long as no freed inode number is used again.
THEOREM ExportCreatedHappened ==
    ASSUME "reused" \notin Surprises
    PROVE  Spec => []CreatedHappened
<1>1. CreatedInv => CreatedHappened
  BY DEF CreatedInv
<1> QED
  BY <1>1, CreatedInit, CreatedStep, PTL DEF Spec

-----------------------------------------------------------------------------
(* The root has one owner.                                                  *)

ActiveAlone ==
    \A e1, e2 \in Exports : Active(e1) /\ Active(e2) => e1 = e2
HolderAlone ==
    \A e \in Exports : Held(e) =>
        \A o \in Exports \ {e} : ~Active(o) /\ ~Held(o)
RunsWhileUp ==
    \A e \in Exports : Held(e) /\ daemon = "up" => row[e].state = "running"
JobBeforeThread ==
    \A e \in Exports : job[e] = "scheduled" => worker[e] = Idle
NoneBeforeServing ==
    daemon \in {"down", "starting"} => \A e \in Exports : ~Held(e)
\* What a reconciliation read is of an export nothing runs for; at a stop, of
\* the one whose thread may still run.
ObservedAlone ==
    observed # Nothing =>
        IF daemon = "up" THEN row[observed.export].state # "running"
        ELSE \A o \in Exports \ {observed.export} : ~Held(o)

OwnerInv ==
    /\ TypeInv
    /\ ActiveAlone
    /\ HolderAlone
    /\ RunsWhileUp
    /\ JobBeforeThread
    /\ NoneBeforeServing
    /\ ObservedAlone

\* A step of an export's job or thread leaves its row running, or ends it.
LEMMA InstallOwns ==
    ASSUME TypeInv, JobBeforeThread, NEW e \in Exports, Install(e)
    PROVE  /\ job'[e] # "scheduled"
           /\ \/ row'[e].state = row[e].state
              \/ ~Held(e)' /\ row'[e].state # "running"
<1>1. CASE Begin(e)
  BY <1>1, BeginWorks DEF Begin, TypeInv, TypeOK
<1>2. CASE BytesRefused(e)
  BY <1>2, BytesRefusedWorks
  DEF BytesRefused, JobBeforeThread, Held, thread, TypeInv, TypeOK
<1>3. CASE FinishExport(e) \/ Raised(e)
  BY <1>3, EndsWorks DEF Held
<1>4. CASE ~(Begin(e) \/ BytesRefused(e) \/ FinishExport(e) \/ Raised(e))
  <2>1. row'[e].state = row[e].state
    BY <1>4, RootReplacedWorks, CreateStagingWorks, StagingFailsWorks,
       StageFileWorks, BreaksWorks,
       JournalWorks, InstallOneWorks, UnwindWorks
    DEF Install
  <2>2. job' = job /\ worker[e] # Idle
    BY <1>4
    DEF Install, RootReplaced, CreateStaging, StagingFails, StageFile, StageFails,
        VerifyIdentical, NotInstalled, RenameFails, RecordCreated, Vanished,
        InstallOne, Unwind, Approved, At, Idle
  <2> QED
    BY <2>1, <2>2 DEF JobBeforeThread
<1> QED
  BY <1>1, <1>2, <1>3, <1>4

LEMMA OwnerInit == Init => OwnerInv
  BY TypeInit
  DEF Init, OwnerInv, ActiveAlone, HolderAlone, RunsWhileUp, JobBeforeThread,
      NoneBeforeServing, ObservedAlone, Held, Active, NoRow, Idle, Nothing

LEMMA OwnerStep == OwnerInv /\ [Next]_vars => OwnerInv'
<1> SUFFICES ASSUME OwnerInv, [Next]_vars PROVE OwnerInv'
  OBVIOUS
<1> USE DEF Held, Active
<1>1. TypeInv /\ TypeInv'
  BY TypeStep DEF OwnerInv
<1>2. CASE UNCHANGED vars
  BY <1>1, <1>2
  DEF vars, OwnerInv, ActiveAlone, HolderAlone, RunsWhileUp, JobBeforeThread,
      NoneBeforeServing, ObservedAlone
<1>3. ASSUME NEW e \in Exports, Start(e) PROVE OwnerInv'
  <2>1. /\ daemon = "up" /\ \A o \in Exports : ~Active(o)
        /\ UNCHANGED <<daemon, worker, observed>>
    BY <1>3 DEF Start, aside, process, thread
  <2>2. \A o \in Exports : ~Held(o)
    BY <2>1 DEF OwnerInv, RunsWhileUp
  <2>3. /\ \A o \in Exports \ {e} : row'[o] = row[o] /\ job'[o] = job[o]
        /\ ~Known(e) /\ row'[e].state = "running" /\ job'[e] = "scheduled"
    BY <1>1, <1>3, StartType
  <2>4. observed # Nothing => observed.export \in Exports \ {e}
    BY <1>1, <2>3 DEF TypeInv, ObservedOK
  <2> QED
    BY <1>1, <2>1, <2>2, <2>3, <2>4
    DEF OwnerInv, ActiveAlone, HolderAlone, RunsWhileUp, JobBeforeThread,
        NoneBeforeServing, ObservedAlone
<1>4. ASSUME NEW e \in Exports, Install(e) PROVE OwnerInv'
  <2>1. /\ Held(e) /\ UNCHANGED <<daemon, observed>>
        /\ \A o \in Exports \ {e} :
              worker'[o] = worker[o] /\ job'[o] = job[o] /\ row'[o] = row[o]
    BY <1>1, <1>4, InstallWorks DEF Works, Edits, aside, process
  <2>2. /\ job'[e] # "scheduled"
        /\ \/ row'[e].state = row[e].state
           \/ ~Held(e)' /\ row'[e].state # "running"
    BY <1>1, <1>4, InstallOwns DEF OwnerInv
  <2>3. \A o \in Exports \ {e} : ~Active(o) /\ ~Held(o)
    BY <2>1 DEF OwnerInv, HolderAlone
  <2>4. \A o \in Exports \ {e} : ~Active(o)' /\ ~Held(o)'
    BY <2>1, <2>3
  <2>5. ObservedAlone'
    BY <1>1, <2>1, <2>2, <2>4 DEF OwnerInv, ObservedAlone, TypeInv, ObservedOK
  <2>6. RunsWhileUp' /\ NoneBeforeServing' /\ JobBeforeThread'
    BY <2>1, <2>2, <2>4
    DEF OwnerInv, RunsWhileUp, NoneBeforeServing, JobBeforeThread
  <2>7. ActiveAlone' /\ HolderAlone'
    BY <2>4 DEF ActiveAlone, HolderAlone
  <2> QED
    BY <1>1, <2>5, <2>6, <2>7 DEF OwnerInv
<1>5. ASSUME NEW e \in Exports, Reconcile(e) \/ Recheck(e) PROVE OwnerInv'
  <2>1. /\ UNCHANGED <<daemon, worker, job, row>>
        /\ \/ daemon # "up" /\ row[e].state = "running"
           \/ daemon = "up" /\ row[e].state # "running"
    BY <1>5 DEF Reconcile, Recheck, process, thread
  <2>2. observed'.export = e
    BY <1>1, <1>5, ObserveType
  <2>3. ObservedAlone'
    BY <2>1, <2>2 DEF OwnerInv, HolderAlone, ObservedAlone
  <2> QED
    BY <1>1, <2>1, <2>3
    DEF OwnerInv, ActiveAlone, HolderAlone, RunsWhileUp, JobBeforeThread,
        NoneBeforeServing
<1>6. ASSUME NEW e \in Exports, Acknowledge(e) PROVE OwnerInv'
  <2>1. UNCHANGED <<daemon, worker, job, observed>>
    BY <1>6 DEF Acknowledge, aside, process, thread
  <2>2. /\ \A o \in Exports \ {e} : row'[o] = row[o]
        /\ row[e].state = "unresolved" /\ row'[e].state = "incomplete"
    BY <1>1, <1>6, AcknowledgeEdit DEF Edits
  <2> QED
    BY <1>1, <2>1, <2>2
    DEF OwnerInv, ActiveAlone, HolderAlone, RunsWhileUp, JobBeforeThread,
        NoneBeforeServing, ObservedAlone, TypeInv, ObservedOK
<1>7. CASE RecordReconciliation
  <2>0. PICK e \in Exports : e = observed.export
    BY <1>1, <1>7, RecordEdit
  <2>1. UNCHANGED <<daemon, worker, job>> /\ observed' = Nothing
    BY <1>7 DEF RecordReconciliation, process, thread
  <2>2. CASE row' = row
    BY <1>1, <2>1, <2>2
    DEF OwnerInv, ActiveAlone, HolderAlone, RunsWhileUp, JobBeforeThread,
        NoneBeforeServing, ObservedAlone
  <2>3. CASE row' # row
    <3>1. /\ observed # Nothing
          /\ \A o \in Exports \ {e} : row'[o] = row[o]
          /\ row'[e].state = observed.state /\ row'[e].state # "running"
          /\ ~RootTaken(e, observed.state)
      BY <1>1, <1>7, <2>0, <2>3, RecordEdit DEF Edits
    <3>2. Active(e)' => \A o \in Exports \ {e} : ~Active(o)
      BY <3>1 DEF RootTaken
    <3>3. ActiveAlone'
      BY <3>1, <3>2 DEF OwnerInv, ActiveAlone
    <3>4. daemon = "up" => ~Held(e)
      BY <2>0, <3>1 DEF OwnerInv, RunsWhileUp, ObservedAlone
    <3>5. HolderAlone'
      <4>1. SUFFICES ASSUME NEW h \in Exports, Held(h), NEW o \in Exports \ {h}
                     PROVE  ~Active(o)' /\ ~Held(o)
        BY <2>1 DEF HolderAlone
      <4>2. ~Active(o) /\ ~Held(o)
        BY <4>1 DEF OwnerInv, HolderAlone
      <4>3. CASE o # e
        BY <3>1, <4>2, <4>3
      <4>4. CASE o = e
        <5>1. daemon = "up"
          BY <2>0, <3>1, <4>1, <4>4 DEF OwnerInv, ObservedAlone
        <5>2. Active(h)
          BY <4>1, <5>1 DEF OwnerInv, RunsWhileUp
        <5> QED
          BY <3>2, <4>1, <4>2, <4>4, <5>2
      <4> QED
        BY <4>3, <4>4
    <3>6. RunsWhileUp'
      BY <2>1, <3>1, <3>4 DEF OwnerInv, RunsWhileUp
    <3> QED
      BY <1>1, <2>1, <3>3, <3>5, <3>6
      DEF OwnerInv, JobBeforeThread, NoneBeforeServing, ObservedAlone
  <2> QED
    BY <2>2, <2>3
<1>8. CASE PurgeResult \/ Shutdown \/ Killed \/ Exits \/ Boot \/ Serve \/ Operator
  <2>1. /\ row' = row
        /\ observed' \in {observed, Nothing}
        /\ \A e \in Exports : worker'[e] \in {worker[e], Idle}
                              /\ job'[e] \in {job[e], "none"}
    BY <1>1, <1>8, AsideType
  <2>2. \A e \in Exports : Held(e)' => Held(e)
    BY <2>1
  <2>3. ActiveAlone' /\ HolderAlone'
    BY <2>1, <2>2 DEF OwnerInv, ActiveAlone, HolderAlone
  <2>4. JobBeforeThread'
    BY <2>1 DEF OwnerInv, JobBeforeThread
  <2>5. RunsWhileUp' /\ NoneBeforeServing' /\ ObservedAlone'
    <3>1. CASE UNCHANGED daemon
      BY <2>1, <2>2, <3>1
      DEF OwnerInv, RunsWhileUp, NoneBeforeServing, ObservedAlone
    <3>2. CASE Shutdown
      BY <3>2 DEF Shutdown, RunsWhileUp, NoneBeforeServing, ObservedAlone
    <3>3. CASE Killed \/ Exits
      BY <3>3 DEF Killed, Exits, Dies, RunsWhileUp, NoneBeforeServing, ObservedAlone
    <3>4. CASE Boot
      BY <2>2, <3>4
      DEF Boot, OwnerInv, RunsWhileUp, NoneBeforeServing, ObservedAlone
    <3>5. CASE Serve
      BY <2>2, <3>5
      DEF Serve, OwnerInv, RunsWhileUp, NoneBeforeServing, ObservedAlone
    <3> QED
      BY <1>8, <3>1, <3>2, <3>3, <3>4, <3>5
      DEF PurgeResult, Operator, MoveRoot, WriteFile, EditInPlace, RemoveFile,
          Elsewhere, process
  <2> QED
    BY <1>1, <2>3, <2>4, <2>5 DEF OwnerInv
<1> QED
  BY <1>2, <1>3, <1>4, <1>5, <1>6, <1>7, <1>8 DEF Next

\* One export at most is running or unresolved, and while the daemon serves a
\* thread that may write into the root belongs to that export: whatever was
\* rechecked, acknowledged, cancelled or restarted meanwhile.
THEOREM ExportRootHasOneOwner == Spec => []RootHasOneOwner
<1>1. OwnerInv => RootHasOneOwner
  BY DEF OwnerInv, ActiveAlone, RunsWhileUp, RootHasOneOwner, Held
<1> QED
  BY <1>1, OwnerInit, OwnerStep, PTL DEF Spec

-----------------------------------------------------------------------------
(* What is not known is never concluded.                                    *)

\* The files a job or its thread has still to verify or to rename.
Coming(e) ==
    IF job[e] = "scheduled" \/ At(e, "opening") \/ At(e, "staging")
    THEN Selected(e)
    ELSE IF At(e, "installing") THEN worker[e].todo
    ELSE IF At(e, "renamed") THEN worker[e].todo \ {Current(e)}
    ELSE {}

\* Nothing of what is to come was delivered, and an export no request has
\* reached has renamed nothing.
NotYet ==
    \A e \in Exports :
        /\ ~Known(e) => installed[e] = {}
        /\ Held(e) => \A f \in Coming(e) : /\ row[e].outcome[f] \notin Delivered
                                           /\ f \notin installed[e]

Concludes(e) ==
    /\ row[e].state = "completed" =>
           \A f \in Selected(e) : row[e].outcome[f] \in Delivered
    /\ \A f \in Selected(e) : row[e].outcome[f] = "unknown" =>
           row[e].state = "unresolved" \/ row[e].acknowledged

\* What a file's outcome is once the observation under way is recorded.
SeenAs(f) == IF f \in DOMAIN observed.seen THEN observed.seen[f]
                                           ELSE row[observed.export].outcome[f]

ObservedConcludes ==
    observed # Nothing =>
        /\ observed.state = "completed" =>
               \A f \in Selected(observed.export) : SeenAs(f) \in Delivered
        /\ \A f \in Selected(observed.export) :
               SeenAs(f) = "unknown" => observed.state = "unresolved"

ConcludeInv ==
    /\ NotYet
    /\ \A e \in Exports : Known(e) => Concludes(e)
    /\ ObservedConcludes

\* What is to come only shrinks, and what is done is no longer to come.
LEMMA ComingNext ==
    ASSUME TypeInv, JobBeforeThread, NEW e \in Exports, Install(e)
    PROVE  /\ Coming(e)' \subseteq Coming(e)
           /\ \/ InstallOne(e) \/ VerifyIdentical(e)
              \/ NotInstalled(e) \/ RecordCreated(e)
              => Current(e) \notin Coming(e)'
<1>1. Works(e) /\ Known(e) /\ Selected(e)' = Selected(e)
  BY InstallWorks, WorksType DEF Works, TypeInv, Keeps
<1>2. worker[e] # Idle => job[e] # "scheduled"
  BY DEF JobBeforeThread
<1>3. worker \in [Exports -> Threads] /\ job \in [Exports -> {"none", "scheduled", "awaiting"}]
  BY DEF TypeInv, TypeOK
<1>4. CASE Begin(e) \/ BytesRefused(e)
  <2>1. job[e] = "scheduled" /\ worker[e] = Idle
    BY <1>4 DEF Begin, BytesRefused, JobBeforeThread
  <2>2. ~(InstallOne(e) \/ VerifyIdentical(e) \/ NotInstalled(e) \/ RecordCreated(e))
    BY <2>1 DEF InstallOne, VerifyIdentical, NotInstalled, RecordCreated, Approved,
               At, Idle
  <2>3. Coming(e) = Selected(e)
    BY <2>1 DEF Coming
  <2>4. CASE Begin(e)
    BY <1>1, <1>3, <2>2, <2>3, <2>4 DEF Begin, Go, Coming, At
  <2>5. CASE BytesRefused(e)
    BY <1>3, <2>1, <2>2, <2>5 DEF BytesRefused, Coming, At, Idle, thread
  <2> QED
    BY <1>4, <2>4, <2>5
<1>5. CASE \/ RootReplaced(e) \/ StagingFails(e) \/ StageFails(e) \/ RenameFails(e)
           \/ Vanished(e) \/ Unwind(e)
  <2>1. worker'[e].pc \in {"raised", "unwinding", "finishing"} /\ job' = job
    BY <1>3, <1>5
    DEF RootReplaced, StagingFails, StageFails, RenameFails, Vanished, Unwind,
        Unwinds, Go
  <2>2. job[e] # "scheduled"
    BY <1>2, <1>5
    DEF RootReplaced, StagingFails, StageFails, RenameFails, Vanished, Unwind,
        Approved, At, Idle
  <2> QED
    BY <2>1, <2>2 DEF Coming, At
<1>6. CASE FinishExport(e) \/ Raised(e)
  <2>1. worker'[e] = Idle /\ job'[e] = "none"
    BY <1>6, EndsWorks
  <2> QED
    BY <2>1 DEF Coming, At, Idle
<1>7. CASE CreateStaging(e) \/ StageFile(e)
  <2>1. Coming(e) = Selected(e) /\ job' = job /\ job[e] # "scheduled"
    BY <1>2, <1>7 DEF CreateStaging, StageFile, Coming, At, Idle
  <2>2. ~(InstallOne(e) \/ VerifyIdentical(e) \/ NotInstalled(e) \/ RecordCreated(e))
    BY <1>7 DEF CreateStaging, StageFile, InstallOne, VerifyIdentical, NotInstalled,
                RecordCreated, Approved, At
  <2>3. \/ worker'[e].pc = "staging"
        \/ worker'[e].pc = "installing" /\ worker'[e].todo = Selected(e)
    BY <1>3, <1>7 DEF CreateStaging, StageFile, Go
  <2> QED
    BY <1>1, <2>1, <2>2, <2>3 DEF Coming, At
<1>8. CASE VerifyIdentical(e) \/ NotInstalled(e) \/ RecordCreated(e)
  <2>1. /\ job' = job /\ job[e] # "scheduled"
        /\ worker[e].todo \ {Current(e)} \subseteq Coming(e)
    BY <1>2, <1>8
    DEF VerifyIdentical, NotInstalled, RecordCreated, Approved, Coming, At, Idle
  <2>2. \/ worker'[e].pc = "unwinding"
        \/ worker'[e].pc = "installing" /\ worker'[e].todo = worker[e].todo \ {Current(e)}
    BY <1>3, <1>8
    DEF VerifyIdentical, NotInstalled, RecordCreated, GoesOn, Unwinds, Go
  <2> QED
    BY <2>1, <2>2 DEF Coming, At
<1>9. CASE InstallOne(e)
  <2>1. /\ job' = job /\ job[e] # "scheduled" /\ Coming(e) = worker[e].todo
    BY <1>2, <1>9 DEF InstallOne, Approved, Coming, At, Idle
  <2>2. worker'[e].pc = "renamed" /\ worker'[e].todo = worker[e].todo
    BY <1>3, <1>9 DEF InstallOne, Go
  <2>3. Current(e)' = Current(e)
    BY <2>2 DEF Current
  <2> QED
    BY <2>1, <2>2, <2>3 DEF Coming, At
<1> QED
  BY <1>4, <1>5, <1>6, <1>7, <1>8, <1>9 DEF Install

\* finish_export concludes from what is recorded.
LEMMA FinishConcludes ==
    ASSUME TypeInv, NEW e \in Exports, Known(e),
           NEW claimed \in {"completed", "incomplete", "unresolved"},
           NEW leftover \in BOOLEAN, Finish(e, claimed, leftover)
    PROVE  Concludes(e)'
<1>1. /\ Edits(e) /\ row'[e].outcome = row[e].outcome
      /\ row'[e].state = FinishState(e, claimed, leftover)
  BY FinishEdit
<1>2. Selected(e)' = Selected(e)
  BY <1>1 DEF Edits, Selected
<1>3. \A f \in Selected(e) :
         row[e].outcome[f] = "unknown" => FinishState(e, claimed, leftover) = "unresolved"
  BY DEF FinishState
<1>4. FinishState(e, claimed, leftover) = "completed" =>
         \A f \in Selected(e) : row[e].outcome[f] \in Delivered
  BY DEF FinishState
<1> QED
  BY <1>1, <1>2, <1>3, <1>4 DEF Concludes

\* A step of a thread that journals nothing leaves the outcomes; it concludes
\* only through finish_export.
LEMMA QuietConcludes ==
    ASSUME TypeInv, NEW e \in Exports, Known(e), Concludes(e), Install(e),
           ~(VerifyIdentical(e) \/ NotInstalled(e) \/ RecordCreated(e))
    PROVE  row'[e].outcome = row[e].outcome /\ Concludes(e)'
<1>1. CASE BytesRefused(e)
  BY <1>1, BytesRefusedWorks, FinishConcludes DEF BytesRefused
<1>2. CASE FinishExport(e)
  <2>1. (e \in staging) \in BOOLEAN
    OBVIOUS
  <2>2. Finish(e, "completed", e \in staging) \/ Finish(e, "incomplete", e \in staging)
    BY <1>2 DEF FinishExport
  <2> QED
    BY <2>1, <2>2, FinishEdit, FinishConcludes
<1>3. CASE Raised(e) /\ Catches(e)
  <2>1. Finish(e, "incomplete", FALSE) \/ Finish(e, "unresolved", FALSE)
    BY <1>3 DEF Raised
  <2> QED
    BY <2>1, FinishEdit, FinishConcludes
<1>4. CASE StageFile(e)
  BY <1>4, StageFileWorks DEF Concludes, Edits, Selected
<1>5. CASE ~(BytesRefused(e) \/ FinishExport(e) \/ StageFile(e) \/ (Raised(e) /\ Catches(e)))
  <2>1. row' = row
    BY <1>5, BeginWorks, RootReplacedWorks, CreateStagingWorks, StagingFailsWorks,
       BreaksWorks, InstallOneWorks, UnwindWorks
    DEF Install, Raised
  <2> QED
    BY <2>1 DEF Concludes, Selected
<1> QED
  BY <1>1, <1>2, <1>3, <1>4, <1>5

LEMMA ConcludeInit == Init => ConcludeInv
  BY DEF Init, ConcludeInv, NotYet, ObservedConcludes, Known, Held, NoRow, Idle,
         Nothing

LEMMA InstallConcludes ==
    ASSUME OwnerInv, CreatedInv, ConcludeInv, NEW e \in Exports, Install(e)
    PROVE  ConcludeInv'
<1>1. /\ TypeInv /\ Works(e) /\ Known(e) /\ Keeps /\ JobBeforeThread
      /\ Selected(e)' = Selected(e)
  BY InstallWorks, WorksType DEF OwnerInv, Works, TypeInv, Keeps
<1>2. /\ \A o \in Exports \ {e} : /\ worker'[o] = worker[o] /\ job'[o] = job[o]
                                  /\ row'[o] = row[o] /\ installed'[o] = installed[o]
      /\ observed' = observed
  <2>1. \A o \in Exports \ {e} : installed'[o] = installed[o]
    <3>1. CASE InstallOne(e)
      BY <3>1, <1>1 DEF InstallOne, TypeInv, TypeOK
    <3>2. CASE ~InstallOne(e)
      BY <3>2
      DEF Install, Begin, BytesRefused, RootReplaced, CreateStaging, StagingFails,
          StageFile, StageFails, VerifyIdentical, NotInstalled, RenameFails,
          RecordCreated, Vanished, Unwind, FinishExport, Raised, thread
    <3> QED
      BY <3>1, <3>2
  <2> QED
    BY <1>1, <2>1 DEF Works, Edits, aside
<1>3. /\ Coming(e)' \subseteq Coming(e)
      /\ \/ InstallOne(e) \/ VerifyIdentical(e)
         \/ NotInstalled(e) \/ RecordCreated(e)
         => Current(e) \notin Coming(e)'
  BY <1>1, ComingNext
<1>4. /\ Held(e) /\ Concludes(e)
      /\ \A f \in Coming(e) : row[e].outcome[f] \notin Delivered /\ f \notin installed[e]
  BY <1>1 DEF ConcludeInv, NotYet, Works
<1>5. SUFFICES /\ \A f \in Coming(e)' : /\ row'[e].outcome[f] \notin Delivered
                                        /\ f \notin installed'[e]
               /\ Concludes(e)'
               /\ ObservedConcludes'
  <2>1. \A o \in Exports \ {e} : /\ Coming(o)' = Coming(o)
                                 /\ Known(o)' = Known(o) /\ Held(o)' = Held(o)
                                 /\ Concludes(o)' = Concludes(o)
    BY <1>2 DEF Coming, Known, Held, Concludes, Selected, At, Current
  <2>2. Known(e)'
    BY <1>1 DEF Keeps
  <2> QED
    BY <1>2, <2>1, <2>2 DEF ConcludeInv, NotYet
<1>6. CASE VerifyIdentical(e) \/ NotInstalled(e) \/ RecordCreated(e)
  <2>1. /\ Edits(e) /\ row'[e].state = row[e].state
        /\ row'[e].acknowledged = row[e].acknowledged
    BY <1>1, <1>6, JournalWorks
  <2>2. PICK out \in Outcomes :
          /\ row'[e].outcome = [row[e].outcome EXCEPT ![Current(e)] = out]
          /\ out = "created" <=> At(e, "renamed")
          /\ out # "unknown"
    BY <1>1, <1>6, JournalWorks
  <2>3. /\ worker[e].pc \in Places_3 /\ Current(e) \in Selected(e)
        /\ Current(e) \in worker[e].todo /\ installed' = installed
        /\ DOMAIN row[e].outcome = Selected(e)
    <3>1. worker[e].pc \in Places_3
      BY <1>6 DEF VerifyIdentical, NotInstalled, RecordCreated, Approved, At, Places_3
    <3> QED
      BY <1>1, <1>6, <3>1, CurrentIn
      DEF VerifyIdentical, NotInstalled, RecordCreated, Selected
  <2>4. /\ row'[e].outcome[Current(e)] = out
        /\ \A f \in Selected(e) \ {Current(e)} : row'[e].outcome[f] = row[e].outcome[f]
    BY <2>2, <2>3
  <2>5. Coming(e) \subseteq Selected(e)
    BY <1>1, <2>3 DEF Coming, At, TypeInv, TypeOK, Places_3
  \* A thread that has not renamed the file has not been delivered it.
  <2>6. out = "created" \/ row[e].outcome[Current(e)] \notin Delivered
    <3>1. CASE At(e, "renamed")
      BY <2>2, <3>1
    <3>2. CASE ~At(e, "renamed")
      <4>1. At(e, "installing") /\ job[e] # "scheduled"
        BY <1>1, <1>6, <3>2
        DEF VerifyIdentical, NotInstalled, RecordCreated, Approved, At,
            JobBeforeThread, Idle
      <4>2. Current(e) \in Coming(e)
        BY <2>3, <4>1 DEF Coming, At
      <4> QED
        BY <1>4, <4>2
    <3> QED
      BY <3>1, <3>2
  <2>7. \A f \in Coming(e)' : row'[e].outcome[f] \notin Delivered /\ f \notin installed'[e]
    BY <1>3, <1>4, <1>6, <2>3, <2>4, <2>5
  <2>8. Concludes(e)'
    BY <1>1, <1>4, <2>1, <2>2, <2>4, <2>6, <2>3 DEF Concludes, Delivered
  <2>9. ObservedConcludes'
    <3>1. CASE observed.export # e \/ observed = Nothing
      BY <1>1, <1>2, <3>1
      DEF ConcludeInv, ObservedConcludes, SeenAs, Selected, TypeInv, ObservedOK
    <3>2. CASE observed.export = e /\ observed # Nothing
      <4>1. /\ observed.state = "completed" =>
                 \A f \in Selected(e) : SeenAs(f) \in Delivered
            /\ \A f \in Selected(e) : SeenAs(f) = "unknown" => observed.state = "unresolved"
        BY <3>2 DEF ConcludeInv, ObservedConcludes
      <4>2. PICK g \in Selected(e) : g = Current(e)
        BY <2>3
      <4>3. \A f \in Selected(e) \ {g} : SeenAs(f)' = SeenAs(f)
        BY <1>2, <2>4, <3>2, <4>2 DEF SeenAs
      <4>4. \/ SeenAs(g)' = SeenAs(g)
            \/ SeenAs(g)' = out /\ SeenAs(g) = row[e].outcome[g]
        BY <1>2, <2>4, <3>2, <4>2 DEF SeenAs
      <4>5. out = "created" \/ row[e].outcome[g] \notin Delivered
        BY <2>6, <4>2
      <4>6. /\ observed.state = "completed" =>
                 \A f \in Selected(e) : SeenAs(f)' \in Delivered
            /\ \A f \in Selected(e) : SeenAs(f)' = "unknown" =>
                 observed.state = "unresolved"
        BY <2>2, <4>1, <4>3, <4>4, <4>5 DEF Delivered
      <4> QED
        BY <1>1, <1>2, <3>2, <4>6 DEF ObservedConcludes
    <3> QED
      BY <3>1, <3>2
  <2> QED
    BY <2>7, <2>8, <2>9
<1>7. CASE ~(VerifyIdentical(e) \/ NotInstalled(e) \/ RecordCreated(e))
  <2>1. row'[e].outcome = row[e].outcome /\ Concludes(e)'
    BY <1>1, <1>4, <1>7, QuietConcludes
  <2>2. ObservedConcludes'
    BY <1>1, <1>2, <2>1
    DEF ConcludeInv, ObservedConcludes, SeenAs, Selected, TypeInv, ObservedOK
  <2>3. installed'[e] = installed[e]
        \/ (InstallOne(e) /\ installed'[e] = installed[e] \cup {Current(e)})
    <3>1. CASE InstallOne(e)
      BY <1>1, <3>1 DEF InstallOne, TypeInv, TypeOK
    <3>2. CASE ~InstallOne(e)
      BY <1>7, <3>2
      DEF Install, Begin, BytesRefused, RootReplaced, CreateStaging, StagingFails,
          StageFile, StageFails, RenameFails, Vanished, Unwind, FinishExport, Raised,
          thread
    <3> QED
      BY <3>1, <3>2
  <2>4. \A f \in Coming(e)' : row'[e].outcome[f] \notin Delivered /\ f \notin installed'[e]
    BY <1>3, <1>4, <2>1, <2>3
  <2> QED
    BY <2>1, <2>2, <2>4
<1> QED
  BY <1>6, <1>7

LEMMA ConcludeStep ==
    OwnerInv /\ CreatedInv /\ ConcludeInv /\ [Next]_vars => ConcludeInv'
<1> SUFFICES ASSUME OwnerInv, CreatedInv, ConcludeInv, [Next]_vars
             PROVE  ConcludeInv'
  OBVIOUS
<1>1. TypeInv
  BY DEF OwnerInv
<1>2. CASE UNCHANGED vars
  BY <1>2
  DEF vars, ConcludeInv, NotYet, Concludes, ObservedConcludes, SeenAs, Coming,
      Known, Held, Selected, At, Current
<1>3. ASSUME NEW e \in Exports, Start(e) PROVE ConcludeInv'
  <2>1. /\ \A o \in Exports \ {e} : row'[o] = row[o] /\ job'[o] = job[o]
        /\ ~Known(e) /\ row'[e].state = "running" /\ job'[e] = "scheduled"
        /\ \A f \in Selected(e)' : row'[e].outcome[f] = "pending"
    BY <1>1, <1>3, StartType
  <2>2. UNCHANGED <<worker, installed, observed>>
    BY <1>3 DEF Start, aside, thread
  <2>3. installed[e] = {} /\ Known(e)' /\ Coming(e)' = Selected(e)'
    BY <2>1 DEF ConcludeInv, NotYet, Known, Coming
  <2>4. \A f \in Selected(e)' : row'[e].outcome[f] \notin Delivered /\ f \notin installed'[e]
    BY <2>1, <2>2, <2>3 DEF Delivered
  <2>5. Concludes(e)'
    BY <2>1 DEF Concludes
  <2>6. observed # Nothing => observed.export \in Exports \ {e}
    BY <1>1, <2>1 DEF TypeInv, ObservedOK
  <2>7. ObservedConcludes'
    BY <2>1, <2>2, <2>6 DEF ConcludeInv, ObservedConcludes, SeenAs, Selected
  <2>8. \A o \in Exports \ {e} : /\ Coming(o)' = Coming(o)
                                 /\ Known(o)' = Known(o) /\ Held(o)' = Held(o)
                                 /\ Concludes(o)' = Concludes(o)
    BY <2>1, <2>2 DEF Coming, Known, Held, Concludes, Selected, At, Current
  <2>9. NotYet'
    <3>1. SUFFICES ASSUME NEW o \in Exports
                   PROVE  /\ ~Known(o)' => installed'[o] = {}
                          /\ Held(o)' => \A f \in Coming(o)' :
                                /\ row'[o].outcome[f] \notin Delivered
                                /\ f \notin installed'[o]
      BY DEF NotYet
    <3>2. CASE o = e
      BY <2>3, <2>4, <3>2
    <3>3. CASE o # e
      BY <2>1, <2>2, <2>8, <3>3 DEF ConcludeInv, NotYet
    <3> QED
      BY <3>2, <3>3
  <2> QED
    BY <2>5, <2>7, <2>8, <2>9 DEF ConcludeInv
<1>4. ASSUME NEW e \in Exports, Install(e) PROVE ConcludeInv'
  BY <1>4, InstallConcludes
<1>5. ASSUME NEW e \in Exports, Reconcile(e) \/ Recheck(e) PROVE ConcludeInv'
  <2>1. UNCHANGED <<row, job, worker, installed>>
    BY <1>5 DEF Reconcile, Recheck, thread
  <2>2. /\ observed'.export = e /\ Known(e)
        /\ observed'.state = Classify(e, observed'.seen)
    BY <1>1, <1>5, ObserveType
  <2>3. /\ observed'.state = "completed" =>
               \A f \in Selected(e) : SeenAs(f)' \in Delivered
        /\ \A f \in Selected(e) :
               SeenAs(f)' = "unknown" => observed'.state = "unresolved"
    BY <2>1, <2>2 DEF SeenAs, Classify
  <2>4. ObservedConcludes'
    BY <2>1, <2>2, <2>3 DEF ObservedConcludes, Selected
  <2> QED
    BY <2>1, <2>4
    DEF ConcludeInv, NotYet, Concludes, Coming, Known, Held, Selected, At, Current
<1>6. ASSUME NEW e \in Exports, Acknowledge(e) PROVE ConcludeInv'
  <2>1. /\ Known(e) /\ Edits(e) /\ row'[e].outcome = row[e].outcome
        /\ row'[e].state = "incomplete" /\ row'[e].acknowledged = TRUE
    BY <1>1, <1>6, AcknowledgeEdit
  <2>2. UNCHANGED <<job, worker, installed, observed>>
    BY <1>6 DEF Acknowledge, aside, thread
  <2>3. \A o \in Exports : /\ row'[o].outcome = row[o].outcome
                           /\ Known(o)' = Known(o) /\ Selected(o)' = Selected(o)
                           /\ Coming(o)' = Coming(o) /\ Held(o)' = Held(o)
    BY <2>1, <2>2 DEF Edits, Known, Selected, Coming, Held, At, Current, States
  <2>4. \A o \in Exports : Known(o)' => Concludes(o)'
    BY <2>1, <2>3 DEF ConcludeInv, Concludes, Edits
  <2>5. ObservedConcludes'
    BY <1>1, <2>2, <2>3
    DEF ConcludeInv, ObservedConcludes, SeenAs, TypeInv, ObservedOK
  <2> QED
    BY <2>2, <2>3, <2>4, <2>5 DEF ConcludeInv, NotYet
<1>7. CASE RecordReconciliation
  <2>0. PICK e \in Exports : e = observed.export
    BY <1>1, <1>7, RecordEdit
  <2>1. UNCHANGED <<job, worker, installed>> /\ observed' = Nothing
    BY <1>7 DEF RecordReconciliation, thread
  <2>2. ObservedConcludes'
    BY <2>1 DEF ObservedConcludes
  <2>3. CASE row' = row
    BY <2>1, <2>2, <2>3
    DEF ConcludeInv, NotYet, Concludes, Coming, Known, Held, Selected, At, Current
  <2>4. CASE row' # row
    <3>1. /\ Known(e) /\ observed # Nothing /\ Edits(e)
          /\ row'[e].state = observed.state
          /\ \A f \in Selected(e) : row'[e].outcome[f] = SeenAs(f)
          /\ observed.seen \in [DOMAIN observed.seen -> Seen]
      BY <1>1, <1>7, <2>0, <2>4, RecordEdit DEF SeenAs
    <3>2. \A o \in Exports : /\ Known(o)' = Known(o) /\ Selected(o)' = Selected(o)
                             /\ Coming(o)' = Coming(o) /\ Held(o)' = Held(o)
      BY <2>1, <3>1 DEF Edits, Known, Selected, Coming, Held, At, Current, States
    <3>3. Concludes(e)'
      BY <2>0, <3>1, <3>2 DEF ConcludeInv, ObservedConcludes, Concludes
    <3>4. Coming(e) \subseteq Selected(e)
      BY <1>1 DEF Coming, At, TypeInv, TypeOK
    <3>5. ASSUME Held(e), NEW f \in Coming(e)
          PROVE  row'[e].outcome[f] \notin Delivered
      <4>1. row[e].outcome[f] \notin Delivered /\ f \notin installed[e]
        BY <3>5 DEF ConcludeInv, NotYet
      <4>2. CASE f \in DOMAIN observed.seen
        <5>1. observed.seen[f] # "created"
          BY <2>0, <3>1, <4>1, <4>2 DEF CreatedInv, SeenInstalled
        <5> QED
          BY <3>1, <3>4, <3>5, <4>2, <5>1 DEF SeenAs, Seen, Delivered
      <4>3. CASE f \notin DOMAIN observed.seen
        BY <2>0, <3>1, <3>4, <3>5, <4>1, <4>3 DEF SeenAs
      <4> QED
        BY <4>2, <4>3
    <3>6. \A o \in Exports \ {e} : row'[o] = row[o]
      BY <3>1 DEF Edits
    <3>7. NotYet'
      BY <2>1, <3>2, <3>5, <3>6 DEF ConcludeInv, NotYet
    <3>8. \A o \in Exports : Known(o)' => Concludes(o)'
      BY <3>2, <3>3, <3>6 DEF ConcludeInv, Concludes
    <3> QED
      BY <2>2, <3>7, <3>8 DEF ConcludeInv
  <2> QED
    BY <2>3, <2>4
<1>8. CASE PurgeResult \/ Shutdown \/ Killed \/ Exits \/ Boot \/ Serve \/ Operator
  <2>1. /\ row' = row /\ installed' = installed
        /\ observed' \in {observed, Nothing}
        /\ \A e \in Exports : worker'[e] \in {worker[e], Idle}
                              /\ job'[e] \in {job[e], "none"}
    BY <1>1, <1>8, AsideType
  <2>2. \A e \in Exports : Coming(e)' \subseteq Coming(e) /\ (Held(e)' => Held(e))
    <3>1. SUFFICES ASSUME NEW e \in Exports
                   PROVE  Coming(e)' \subseteq Coming(e) /\ (Held(e)' => Held(e))
      OBVIOUS
    <3>2. worker[e].pc \in {"installing", "renamed"} => worker[e].todo \subseteq Selected(e)
      BY <1>1 DEF TypeInv, TypeOK
    <3>3. Selected(e)' = Selected(e)
      BY <2>1 DEF Selected
    <3>4. CASE worker'[e] = worker[e]
      <4>1. Current(e)' = Current(e)
        BY <3>4 DEF Current
      <4> QED
        BY <2>1, <3>2, <3>3, <3>4, <4>1 DEF Coming, Held, At
    <3>5. CASE worker'[e] = Idle
      BY <2>1, <3>3, <3>5 DEF Coming, Held, At, Idle
    <3> QED
      BY <2>1, <3>4, <3>5
  <2>3. NotYet'
    BY <2>1, <2>2 DEF ConcludeInv, NotYet, Known
  <2>4. ObservedConcludes'
    BY <2>1 DEF ConcludeInv, ObservedConcludes, SeenAs, Selected
  <2>5. \A e \in Exports : Known(e)' => Concludes(e)'
    BY <2>1 DEF ConcludeInv, Concludes, Known, Selected
  <2> QED
    BY <2>3, <2>4, <2>5 DEF ConcludeInv
<1> QED
  BY <1>2, <1>3, <1>4, <1>5, <1>6, <1>7, <1>8 DEF Next

\* A completed export delivered every approved file, and an outcome nobody
\* knows leaves it unresolved until an operator acknowledges it: whichever of
\* the thread and a reconciliation records last, and however old what it read.
THEOREM ExportConcludesFromKnown ==
    ASSUME "reused" \notin Surprises
    PROVE  Spec => []ConcludesFromKnown
<1> DEFINE Inv == OwnerInv /\ CreatedInv /\ ConcludeInv
<1>1. Init => Inv
  BY OwnerInit, CreatedInit, ConcludeInit
<1>2. Inv /\ [Next]_vars => Inv'
  BY OwnerStep, CreatedStep, ConcludeStep
<1>3. Inv => ConcludesFromKnown
  BY DEF ConcludeInv, Concludes, ConcludesFromKnown
<1> QED
  BY <1>1, <1>2, <1>3, PTL DEF Spec

=============================================================================
