--------------------------- MODULE WorkflowLibrary ---------------------------
(***************************************************************************)
(* The workflow library (registry/workflow_library.py), the revisions it   *)
(* retains (registry/workflow_definitions.py), the shared steps they may   *)
(* be composed of (workflow_composition.py) and the dashboard that follows *)
(* it (api/ws.py, events.py, the browser's reducer).                       *)
(*                                                                         *)
(* Editors save with the version they loaded.  A save commits in a request *)
(* thread; its event reaches the subscribed dashboard, and its response    *)
(* the same browser, later and in any order.  The package is replaced      *)
(* between two runs of the daemon, and the shared steps and the built-ins  *)
(* it ships with it; a task keeps the revision it was launched with.       *)
(***************************************************************************)
EXTENDS Naturals, Sequences, FiniteSets

CONSTANTS
    Editors,      \* browser tabs that edit the library
    Names,        \* workflow names
    Packages,     \* the packages the daemon may be started from
    Catalog,      \* package -> the shared step it ships, or Unshared
    Ships,        \* package -> the built-in texts it ships: name -> text, or NoText
    Sources,      \* texts an operator writes
    MaxEdits,     \* bound: committed edits
    MaxTasks,     \* bound: launched tasks
    MaxRestarts   \* bound: stops of the daemon

None     == "none"
Unshared == [body |-> None, default |-> None]
NoText   == [kind |-> None]
Nothing  == [name |-> None]

ASSUME LibraryAssumption ==
    /\ Catalog \in [Packages -> [body : STRING, default : STRING]]
    /\ MaxEdits \in Nat /\ MaxTasks \in Nat /\ MaxRestarts \in Nat

VARIABLES
    up, package,  \* the daemon, and the package it runs from
    entries,      \* workflow_library: name -> row
    retained,     \* workflow_revisions: a revision is its content
    tasks,        \* what was launched: the pinned revision and the steps it meant
    tabs,         \* editor -> the entry it loaded
    calls,        \* editor -> the committed mutation not yet published or answered
    view,         \* the dashboard: its socket, its queue, the library it shows
    edits, restarts

vars == <<up, package, entries, retained, tasks, tabs, calls, view, edits, restarts>>

Absent ==
    [origin |-> None, draft |-> NoText, current |-> Nothing, archived |-> FALSE, version |-> 0]
Closed == [name |-> None]
Idle   == [pc |-> "idle"]

-----------------------------------------------------------------------------
(* Composition: a text has steps of its own, or uses the shared step, by    *)
(* name or with a frozen snapshot of it; NoText stands for what does not    *)
(* load.                                                                    *)

\* The parameter of an invocation: bound by its author, or the default.
Bound(t, shared) == IF t.bound # None THEN t.bound ELSE shared.default

Expansion(shared, value) == <<shared.body, value>>

\* The shared step a text is expanded from: its own snapshot before the catalog.
SharedBy(t, p) == IF t.snapshot # Unshared THEN t.snapshot ELSE Catalog[p]

\* load_definition: the revision a text means under a package, or nothing.
Load(n, t, p) ==
    CASE t.kind = None   -> Nothing
      [] t.kind = "own"    -> [name |-> n, steps |-> <<t.body>>, use |-> FALSE]
      [] t.kind = "uses"   ->
           LET shared == SharedBy(t, p) IN
           IF shared = Unshared THEN Nothing
           ELSE IF Bound(t, shared) = None THEN Nothing
           ELSE [name |-> n, steps |-> Expansion(shared, Bound(t, shared)), use |-> TRUE,
                 snapshot |-> shared, bound |-> Bound(t, shared)]

\* MUTANT: a retained composition is rebuilt from the running package's steps.
Frozen_Catalog(r) == IF Catalog[package] # Unshared THEN Catalog[package] ELSE r.snapshot

\* Canonical documents are expanded from their own snapshots alone.
Frozen(r) == r.snapshot

\* get_revision: the steps a retained revision decodes to, or nothing where
\* they do not match its content.
Reads(r) ==
    IF r \notin retained THEN << >>
    ELSE IF ~r.use THEN r.steps
    ELSE IF Expansion(Frozen(r), r.bound) = r.steps THEN r.steps ELSE << >>

\* export_document: a retained revision as editable, self-contained source.
Exported(r) ==
    IF r.use THEN [kind |-> "uses", bound |-> r.bound, snapshot |-> r.snapshot, of |-> r.steps]
    ELSE [kind |-> "own", body |-> r.steps[1], of |-> r.steps]

-----------------------------------------------------------------------------
(* The library.                                                             *)

\* _summarize: the revision a launch of this name would pin, or nothing.
Launchable(n) ==
    LET e == entries[n] IN
    IF e.current # Nothing /\ ~e.archived /\ Reads(e.current) # << >> THEN e.current ELSE Nothing

\* MUTANT: the tab's revision is compared instead of its edit version.
Mutable_ByRevision(o) ==
    LET e == entries[tabs[o].name] IN
    e.origin = "custom" /\ e.current = tabs[o].seen.current

\* _require_mutable
Mutable(o) ==
    LET e == entries[tabs[o].name] IN
    e.origin = "custom" /\ e.version = tabs[o].seen.version

\* A committed mutation: the row, the tab that made it, and what is still to
\* be published and answered.
Commits(o, n, e) ==
    /\ entries' = [entries EXCEPT ![n] = e]
    /\ tabs' = [tabs EXCEPT ![o] = [name |-> n, seen |-> e]]
    /\ calls' = [calls EXCEPT ![o] = [pc |-> "publish", name |-> n, entry |-> e]]
    /\ edits' = edits + 1
    /\ UNCHANGED <<up, package, tasks, view, restarts>>

MayEdit(o) == up /\ calls[o].pc = "idle" /\ edits < MaxEdits

\* get_detail: a tab opens, or reloads, an entry.
Opens(o, n) ==
    /\ up /\ calls[o].pc = "idle" /\ entries[n].origin # None
    /\ tabs' = [tabs EXCEPT ![o] = [name |-> n, seen |-> entries[n]]]
    /\ UNCHANGED <<up, package, entries, retained, tasks, calls, view, edits, restarts>>

\* create_entry: inert text, the starter's or a retained revision's.
Creates(o, n, t) ==
    /\ MayEdit(o) /\ entries[n] = Absent
    /\ t \in Sources \cup {Exported(r) : r \in {x \in retained : Reads(x) # << >>}}
    /\ Commits(o, n, [Absent EXCEPT !.origin = "custom", !.draft = t, !.version = 1])
    /\ UNCHANGED retained

\* save_draft
SavesDraft(o, t) ==
    /\ MayEdit(o) /\ tabs[o] # Closed /\ Mutable(o)
    /\ LET n == tabs[o].name
           e == entries[n]
       IN  /\ ~e.archived
           /\ Commits(o, n, [e EXCEPT !.draft = t, !.version = e.version + 1])
    /\ UNCHANGED retained

\* save_workflow_revision_route and save_revision: the text is loaded before
\* the reservation, retained if it is new, and selected.
SavesRevision(o, t) ==
    /\ MayEdit(o) /\ tabs[o] # Closed /\ Mutable(o)
    /\ LET n == tabs[o].name
           e == entries[n]
           r == Load(n, t, package)
       IN  /\ r # Nothing /\ ~e.archived
           /\ retained' = retained \cup {r}
           /\ Commits(o, n, [e EXCEPT !.draft = t, !.current = r, !.version = e.version + 1])

\* set_archived, either way.
SetsArchived(o, flag) ==
    /\ MayEdit(o) /\ tabs[o] # Closed /\ Mutable(o)
    /\ LET n == tabs[o].name
           e == entries[n]
       IN  Commits(o, n, [e EXCEPT !.archived = flag, !.version = e.version + 1])
    /\ UNCHANGED retained

\* resolve_current, inside the acceptance: the task pins what it resolved to.
Launches(n) ==
    /\ up /\ Launchable(n) # Nothing /\ Cardinality(tasks) < MaxTasks
    /\ tasks' = tasks \cup {[revision |-> Launchable(n), steps |-> Reads(Launchable(n))]}
    /\ tasks' # tasks
    /\ UNCHANGED <<up, package, entries, retained, tabs, calls, view, edits, restarts>>

-----------------------------------------------------------------------------
(* The dashboard.                                                           *)

\* MUTANT: the reducer takes every delta as the newest.
Applied_Unordered(shown, n, e) == [shown EXCEPT ![n] = e]

\* The reducer: an entry is replaced by a newer version of it only.
Applied(shown, n, e) ==
    IF shown[n].version >= e.version THEN shown ELSE [shown EXCEPT ![n] = e]

\* websocket_endpoint: subscribed, and then the snapshot is read.
Connects ==
    /\ up /\ view.pc = "closed"
    /\ view' = [view EXCEPT !.pc = "overlap", !.snapshot = entries, !.queue = << >>]
    /\ UNCHANGED <<up, package, entries, retained, tasks, tabs, calls, edits, restarts>>

\* _drain_snapshot_overlap: library deltas are ordered by version, so all that
\* queued up while the snapshot was sent is forwarded.
Overlap == view.queue

\* The page takes the snapshot for the library; the drain and then the forwarder
\* send what is queued behind it, event by event.
Drains ==
    /\ up /\ view.pc = "overlap"
    /\ view' = [view EXCEPT !.pc = "live", !.queue = Overlap, !.snapshot = << >>,
                            !.shown = view.snapshot]
    /\ UNCHANGED <<up, package, entries, retained, tasks, tabs, calls, edits, restarts>>

\* _forward_events, and the drain before it.
Forwards ==
    /\ up /\ view.pc = "live" /\ view.queue # << >>
    /\ view' = [view EXCEPT !.queue = Tail(@),
                            !.shown = Applied(@, Head(view.queue).name, Head(view.queue).entry)]
    /\ UNCHANGED <<up, package, entries, retained, tasks, tabs, calls, edits, restarts>>

Disconnected == [view EXCEPT !.pc = "closed", !.queue = << >>, !.snapshot = << >>]

\* The socket is lost; the page keeps what it shows and connects again.
Disconnects ==
    /\ view.pc # "closed"
    /\ view' = Disconnected
    /\ UNCHANGED <<up, package, entries, retained, tasks, tabs, calls, edits, restarts>>

\* _publish_entry through EventHub.publish: to whoever is subscribed by then.
Publishes(o) ==
    /\ up /\ calls[o].pc = "publish"
    /\ view' = IF view.pc = "closed" THEN view
               ELSE [view EXCEPT !.queue =
                       Append(@, [name |-> calls[o].name, entry |-> calls[o].entry])]
    /\ calls' = [calls EXCEPT ![o].pc = "respond"]
    /\ UNCHANGED <<up, package, entries, retained, tasks, tabs, edits, restarts>>

\* The response, fed through the same reducer.
Responds(o) ==
    /\ calls[o].pc = "respond"
    /\ view' = [view EXCEPT !.shown = Applied(@, calls[o].name, calls[o].entry)]
    /\ calls' = [calls EXCEPT ![o] = Idle]
    /\ UNCHANGED <<up, package, entries, retained, tasks, tabs, edits, restarts>>

-----------------------------------------------------------------------------
(* The daemon.                                                              *)

\* synchronize_builtins: a packaged name's row follows the package, unless it
\* is a custom entry's; a name no longer shipped keeps its row, unlaunchable.
Packaged(n, p) == Load(n, Ships[p][n], p)

Synchronized(n, p) ==
    LET e == entries[n]
        r == Packaged(n, p)
    IN  CASE e.origin = "custom"         -> e
          [] e = Absent /\ r = Nothing      -> e
          [] e = Absent /\ r # Nothing      ->
               [Absent EXCEPT !.origin = "builtin", !.current = r, !.version = 1]
          [] OTHER -> IF e.current = r THEN e
                      ELSE [e EXCEPT !.current = r, !.version = e.version + 1]

\* A packaged text that does not load fails the startup.
Starts(p) ==
    /\ \A n \in Names : Ships[p][n] # NoText => Packaged(n, p) # Nothing
    /\ ~up /\ up' = TRUE /\ package' = p
    /\ entries' = [n \in Names |-> Synchronized(n, p)]
    /\ retained' = retained \cup ({Packaged(n, p) : n \in Names} \ {Nothing})
    /\ UNCHANGED <<tasks, tabs, calls, view, edits, restarts>>

\* Requests and sockets go with the process; pages stay open.
Stops ==
    /\ up /\ restarts < MaxRestarts
    /\ up' = FALSE /\ restarts' = restarts + 1
    /\ calls' = [o \in Editors |-> Idle]
    /\ view' = Disconnected
    /\ UNCHANGED <<package, entries, retained, tasks, tabs, edits>>

Init ==
    /\ up = FALSE /\ package \in Packages
    /\ entries = [n \in Names |-> Absent] /\ retained = {} /\ tasks = {}
    /\ tabs = [o \in Editors |-> Closed] /\ calls = [o \in Editors |-> Idle]
    /\ view = [pc |-> "closed", queue |-> << >>, snapshot |-> << >>, shown |-> entries]
    /\ edits = 0 /\ restarts = 0

Next ==
    \/ \E o \in Editors :
         \/ \E n \in Names : Opens(o, n)
         \/ \E n \in Names, t \in Sources \cup {Exported(r) : r \in retained} : Creates(o, n, t)
         \/ \E t \in Sources : SavesDraft(o, t) \/ SavesRevision(o, t)
         \/ tabs[o] # Closed /\ tabs[o].seen.draft # NoText /\ SavesRevision(o, tabs[o].seen.draft)
         \/ \E flag \in BOOLEAN : SetsArchived(o, flag)
         \/ Publishes(o) \/ Responds(o)
    \/ \E n \in Names : Launches(n)
    \/ Connects \/ Drains \/ Forwards \/ Disconnects
    \/ \E p \in Packages : Starts(p)
    \/ Stops

Spec == Init /\ [][Next]_vars

-----------------------------------------------------------------------------
\* A launched task reads the steps it was launched with, whatever the package
\* ships now and whatever became of the entry (get_revision, _decode).
MeaningIsRetained == \A t \in tasks : Reads(t.revision) = t.steps

\* No save replaces a text its editor never saw (_require_mutable).
NoLostUpdate ==
    [][\A n \in Names :
          entries[n].origin = "custom" /\ entries'[n].draft # entries[n].draft =>
              \E o \in Editors :
                  /\ tabs[o] # Closed /\ tabs[o].name = n
                  /\ tabs[o].seen.draft = entries[n].draft
                  /\ tabs'[o].seen = entries'[n]]_vars

\* A connected dashboard with nothing left to deliver shows the library as it
\* is, however saves, snapshots, events and responses crossed (applyEnvelope).
ViewAgrees ==
    view.pc = "live" /\ view.queue = << >> /\ (\A o \in Editors : calls[o] = Idle)
        => view.shown = entries
=============================================================================
