------------------------ MODULE WorkflowLibraryProofs ------------------------
(***************************************************************************)
(* MeaningIsRetained, NoLostUpdate and ViewAgrees hold for any editors,    *)
(* names, packages and texts.                                              *)
(*                                                                         *)
(* A launched task keeps its meaning because revisions are only ever added *)
(* and one is read from its own content: Kept says both of every task.     *)
(* No save overwrites an unseen text because an entry never changes under  *)
(* an unchanged edit version: Versioned says that a tab whose version is   *)
(* current has loaded the row as it is.  The dashboard agrees because every*)
(* copy on its way to the page is the row or an older version of it, and the*)
(* row as it is has always reached the page, its queue or a call still to  *)
(* be published: Follows says both.                                        *)
(***************************************************************************)
EXTENDS WorkflowLibrary, TLAPS

\* What every task pinned is retained and still reads as its steps.
Kept == \A t \in tasks : t.revision \in retained /\ Reads(t.revision) = t.steps

RowOf(A, B, C, D) ==
    [origin : A, draft : B, current : C, archived : D, version : Nat]

IsRow(e) == \E A, B, C, D : e \in RowOf(A, B, C, D)

\* A tab has loaded a version the entry has had, and the row of that version.
Loaded(o) ==
    LET e == entries[tabs[o].name] IN
    /\ tabs[o].name \in Names
    /\ tabs[o].seen.version \in Nat /\ tabs[o].seen.version <= e.version
    /\ tabs[o].seen.version = e.version => tabs[o].seen = e

Versioned ==
    /\ entries = [n \in Names |-> entries[n]]
    /\ \A n \in Names : entries[n].version \in Nat /\ IsRow(entries[n])
    /\ tabs = [o \in Editors |-> tabs[o]]
    /\ \A o \in Editors : tabs[o] # Closed => Loaded(o)

-----------------------------------------------------------------------------
\* Retaining more changes no reading of what is retained already.
LEMMA ReadsMonotone ==
    ASSUME NEW r, r \in retained, retained \subseteq retained'
    PROVE  Reads(r)' = Reads(r)
<1>1. r \in retained'  OBVIOUS
<1>2. QED  BY <1>1 DEF Reads, Frozen

\* No step forgets a revision, and every step but a launch leaves the tasks.
LEMMA RetainedGrows ==
    ASSUME [Next]_vars
    PROVE  /\ retained \subseteq retained'
           /\ tasks' = tasks \/ \E n \in Names : Launches(n)
<1>1. CASE UNCHANGED vars  BY <1>1 DEF vars
<1>2. ASSUME NEW o \in Editors, NEW n \in Names, Opens(o, n)
      PROVE  retained \subseteq retained' /\ tasks' = tasks
  BY <1>2 DEF Opens
<1>3. ASSUME NEW o \in Editors, NEW n \in Names, NEW t, Creates(o, n, t)
      PROVE  retained \subseteq retained' /\ tasks' = tasks
  BY <1>3 DEF Creates, Commits
<1>4. ASSUME NEW o \in Editors, NEW t, SavesDraft(o, t)
      PROVE  retained \subseteq retained' /\ tasks' = tasks
  BY <1>4 DEF SavesDraft, Commits
<1>5. ASSUME NEW o \in Editors, NEW t, SavesRevision(o, t)
      PROVE  retained \subseteq retained' /\ tasks' = tasks
  BY <1>5 DEF SavesRevision, Commits
<1>6. ASSUME NEW o \in Editors, NEW flag \in BOOLEAN, SetsArchived(o, flag)
      PROVE  retained \subseteq retained' /\ tasks' = tasks
  BY <1>6 DEF SetsArchived, Commits
<1>7. ASSUME NEW o \in Editors, Publishes(o) \/ Responds(o)
      PROVE  retained \subseteq retained' /\ tasks' = tasks
  BY <1>7 DEF Publishes, Responds
<1>8. CASE Connects \/ Drains \/ Forwards \/ Disconnects \/ Stops
  BY <1>8 DEF Connects, Drains, Forwards, Disconnects, Stops
<1>9. ASSUME NEW p \in Packages, Starts(p)
      PROVE  retained \subseteq retained' /\ tasks' = tasks
  BY <1>9 DEF Starts
<1>10. ASSUME NEW n \in Names, Launches(n)
       PROVE  retained \subseteq retained'
  BY <1>10 DEF Launches
<1>11. QED
  BY <1>1, <1>2, <1>3, <1>4, <1>5, <1>6, <1>7, <1>8, <1>9, <1>10 DEF Next

\* Kept is an invariant.
THEOREM KeptAlways == Spec => []Kept
<1>1. Init => Kept  BY DEF Init, Kept
<1>2. Kept /\ [Next]_vars => Kept'
  <2> SUFFICES ASSUME Kept, [Next]_vars PROVE Kept'
    OBVIOUS
  <2>1. retained \subseteq retained'  BY RetainedGrows
  <2>2. \A t \in tasks : t.revision \in retained' /\ Reads(t.revision)' = t.steps
    BY <2>1, ReadsMonotone DEF Kept
  <2>3. CASE tasks' = tasks  BY <2>2, <2>3 DEF Kept
  <2>4. ASSUME NEW n \in Names, Launches(n) PROVE Kept'
    <3>1. PICK r : r = Launchable(n)  OBVIOUS
    <3>2. r \in retained
      BY <2>4, <3>1 DEF Launches, Launchable, Reads
    <3>3. Reads(r)' = Reads(r) /\ r \in retained'  BY <2>1, <3>2, ReadsMonotone
    <3>4. tasks' = tasks \cup {[revision |-> r, steps |-> Reads(r)]}
      BY <2>4, <3>1 DEF Launches
    <3>5. ASSUME NEW t \in tasks' PROVE t.revision \in retained' /\ Reads(t.revision)' = t.steps
      <4>1. CASE t \in tasks  BY <2>2, <4>1
      <4>2. CASE t = [revision |-> r, steps |-> Reads(r)]  BY <3>3, <4>2
      <4>3. QED  BY <3>4, <3>5, <4>1, <4>2
    <3>6. QED  BY <3>5 DEF Kept
  <2>5. QED  BY <2>3, <2>4, RetainedGrows
<1>3. QED  BY <1>1, <1>2, PTL DEF Spec

\* A launched task reads the steps it was launched with, under any sequence of
\* saves, archives, restarts and package changes.
THEOREM MeaningIsRetainedAlways == Spec => []MeaningIsRetained
<1>1. Kept => MeaningIsRetained  BY DEF Kept, MeaningIsRetained
<1>2. QED  BY <1>1, KeptAlways, PTL

-----------------------------------------------------------------------------
\* A row whose fields are set is a row, of the version it is given.
Bumped(q, e) == IsRow(e) /\ e.version = q.version + 1

LEMMA RowUpdates ==
    ASSUME NEW q, IsRow(q), NEW d, NEW c, NEW a, NEW g
    PROVE  /\ Bumped(q, [q EXCEPT !.draft = d, !.version = q.version + 1])
           /\ Bumped(q, [q EXCEPT !.draft = d, !.current = c, !.version = q.version + 1])
           /\ Bumped(q, [q EXCEPT !.archived = a, !.version = q.version + 1])
           /\ Bumped(q, [q EXCEPT !.current = c, !.version = q.version + 1])
           /\ q.version = 0 =>
                /\ Bumped(q, [q EXCEPT !.origin = g, !.draft = d, !.version = 1])
                /\ Bumped(q, [q EXCEPT !.origin = g, !.current = c, !.version = 1])
<1>1. PICK A, B, C, D : q \in RowOf(A, B, C, D)  BY DEF IsRow
<1>2. PICK A1, B1, C1, D1 : A1 = A \cup {g} /\ B1 = B \cup {d} /\ C1 = C \cup {c} /\ D1 = D \cup {a}
  OBVIOUS
<1>3. q \in RowOf(A1, B1, C1, D1)  BY <1>1, <1>2 DEF RowOf
<1>4. g \in A1 /\ d \in B1 /\ c \in C1 /\ a \in D1  BY <1>2
<1>5. q.version \in Nat /\ q.version + 1 \in Nat  BY <1>1 DEF RowOf
<1>6. ASSUME NEW v \in Nat
      PROVE  /\ [q EXCEPT !.draft = d, !.version = v] \in RowOf(A1, B1, C1, D1)
             /\ [q EXCEPT !.draft = d, !.current = c, !.version = v] \in RowOf(A1, B1, C1, D1)
             /\ [q EXCEPT !.archived = a, !.version = v] \in RowOf(A1, B1, C1, D1)
             /\ [q EXCEPT !.current = c, !.version = v] \in RowOf(A1, B1, C1, D1)
             /\ [q EXCEPT !.origin = g, !.draft = d, !.version = v] \in RowOf(A1, B1, C1, D1)
             /\ [q EXCEPT !.origin = g, !.current = c, !.version = v] \in RowOf(A1, B1, C1, D1)
  BY <1>3, <1>4 DEF RowOf
<1>7. ASSUME NEW v \in Nat
      PROVE  /\ [q EXCEPT !.draft = d, !.version = v].version = v
             /\ [q EXCEPT !.draft = d, !.current = c, !.version = v].version = v
             /\ [q EXCEPT !.archived = a, !.version = v].version = v
             /\ [q EXCEPT !.current = c, !.version = v].version = v
             /\ [q EXCEPT !.origin = g, !.draft = d, !.version = v].version = v
             /\ [q EXCEPT !.origin = g, !.current = c, !.version = v].version = v
  BY <1>3, <1>4 DEF RowOf
<1>8. ASSUME NEW e \in RowOf(A1, B1, C1, D1), e.version = q.version + 1
      PROVE  Bumped(q, e)
  BY <1>8 DEF Bumped, IsRow
<1>9. ASSUME NEW v \in Nat, v = q.version + 1
      PROVE  /\ Bumped(q, [q EXCEPT !.draft = d, !.version = v])
             /\ Bumped(q, [q EXCEPT !.draft = d, !.current = c, !.version = v])
             /\ Bumped(q, [q EXCEPT !.archived = a, !.version = v])
             /\ Bumped(q, [q EXCEPT !.current = c, !.version = v])
             /\ Bumped(q, [q EXCEPT !.origin = g, !.draft = d, !.version = v])
             /\ Bumped(q, [q EXCEPT !.origin = g, !.current = c, !.version = v])
  <2>1. Bumped(q, [q EXCEPT !.draft = d, !.version = v])  BY <1>6, <1>7, <1>8, <1>9
  <2>2. Bumped(q, [q EXCEPT !.draft = d, !.current = c, !.version = v])
    BY <1>6, <1>7, <1>8, <1>9
  <2>3. Bumped(q, [q EXCEPT !.archived = a, !.version = v])  BY <1>6, <1>7, <1>8, <1>9
  <2>4. Bumped(q, [q EXCEPT !.current = c, !.version = v])  BY <1>6, <1>7, <1>8, <1>9
  <2>5. Bumped(q, [q EXCEPT !.origin = g, !.draft = d, !.version = v])
    BY <1>6, <1>7, <1>8, <1>9
  <2>6. Bumped(q, [q EXCEPT !.origin = g, !.current = c, !.version = v])
    BY <1>6, <1>7, <1>8, <1>9
  <2>7. QED  BY <2>1, <2>2, <2>3, <2>4, <2>5, <2>6
<1>10. q.version = 0 => 1 = q.version + 1 /\ 1 \in Nat  OBVIOUS
<1>11. QED  BY <1>5, <1>9, <1>10, Zenon

\* A mutation that moves the edit version keeps Versioned, and its tab has
\* loaded what it wrote.
LEMMA CommitsKeepVersioned ==
    ASSUME Versioned, NEW o \in Editors, NEW n \in Names, NEW e, Commits(o, n, e),
           Bumped(entries[n], e)
    PROVE  Versioned'
<1>1. /\ entries' = [entries EXCEPT ![n] = e]
      /\ tabs' = [tabs EXCEPT ![o] = [name |-> n, seen |-> e]]
  BY DEF Commits
<1>2. \A m \in Names : entries'[m] = IF m = n THEN e ELSE entries[m]
  BY <1>1 DEF Versioned
<1>3. \A u \in Editors : tabs'[u] = IF u = o THEN [name |-> n, seen |-> e] ELSE tabs[u]
  BY <1>1 DEF Versioned
<1>4. entries[n].version \in Nat /\ e.version = entries[n].version + 1 /\ IsRow(e)
  BY DEF Versioned, Bumped
<1>5. ASSUME NEW u \in Editors, tabs'[u] # Closed PROVE Loaded(u)'
  <2>1. CASE u = o  BY <1>2, <1>3, <1>4, <2>1 DEF Loaded
  <2>2. CASE u # o
    <3>1. tabs'[u] = tabs[u] /\ Loaded(u)  BY <1>3, <1>5, <2>2 DEF Versioned
    <3>2. CASE tabs[u].name = n  BY <1>2, <1>4, <3>1, <3>2 DEF Loaded
    <3>3. CASE tabs[u].name # n  BY <1>2, <3>1, <3>3 DEF Loaded
    <3>4. QED  BY <3>2, <3>3
  <2>3. QED  BY <2>1, <2>2
<1>6. \A m \in Names : entries'[m].version \in Nat /\ IsRow(entries'[m])  BY <1>2, <1>4 DEF Versioned
<1>7. entries' = [m \in Names |-> entries'[m]] /\ tabs' = [u \in Editors |-> tabs'[u]]
  BY <1>1 DEF Versioned
<1>8. QED  BY <1>5, <1>6, <1>7 DEF Versioned

\* What synchronize_builtins does to one row: nothing, or a new version of it.
LEMMA SynchronizedMoves ==
    ASSUME NEW n \in Names, NEW p \in Packages, IsRow(entries[n])
    PROVE  Synchronized(n, p) = entries[n] \/ Bumped(entries[n], Synchronized(n, p))
<1>1. CASE entries[n].origin = "custom"  BY <1>1 DEF Synchronized, Absent, None
<1>2. CASE entries[n].origin # "custom" /\ entries[n] = Absent
  <2>1. CASE Packaged(n, p) = Nothing  BY <1>2, <2>1 DEF Synchronized
  <2>2. CASE Packaged(n, p) # Nothing
    <3>1. Synchronized(n, p) = [Absent EXCEPT !.origin = "builtin", !.current = Packaged(n, p),
                                              !.version = 1]
      BY <1>2, <2>2 DEF Synchronized
    <3>2. entries[n].version = 0  BY <1>2 DEF Absent
    <3>3. PICK r : r = Packaged(n, p)  OBVIOUS
    <3>4. Bumped(entries[n], [entries[n] EXCEPT !.origin = "builtin", !.current = r,
                                                !.version = 1])
      BY <3>2, RowUpdates
    <3>5. QED  BY <1>2, <3>1, <3>3, <3>4
  <2>3. QED  BY <2>1, <2>2
<1>3. CASE entries[n].origin # "custom" /\ entries[n] # Absent
  <2> DEFINE r == Packaged(n, p)
  <2>1. Synchronized(n, p) =
          IF entries[n].current = r THEN entries[n]
          ELSE [entries[n] EXCEPT !.current = r, !.version = entries[n].version + 1]
    BY <1>3 DEF Synchronized
  <2> HIDE DEF r
  <2>2. QED  BY <2>1, RowUpdates
<1>4. QED  BY <1>1, <1>2, <1>3

\* Every step keeps Versioned.
LEMMA VersionedStep ==
    ASSUME Versioned, [Next]_vars
    PROVE  Versioned'
<1>1. CASE UNCHANGED <<entries, tabs>>  BY <1>1 DEF Versioned, Loaded, IsRow
<1>2. ASSUME NEW o \in Editors, NEW n \in Names, Opens(o, n) PROVE Versioned'
  <2>1. entries' = entries /\ tabs' = [tabs EXCEPT ![o] = [name |-> n, seen |-> entries[n]]]
    BY <1>2 DEF Opens
  <2>2. \A u \in Editors :
          tabs'[u] = IF u = o THEN [name |-> n, seen |-> entries[n]] ELSE tabs[u]
    BY <2>1 DEF Versioned
  <2>3. ASSUME NEW u \in Editors, tabs'[u] # Closed PROVE Loaded(u)'
    BY <2>1, <2>2, <2>3 DEF Versioned, Loaded
  <2>4. tabs' = [u \in Editors |-> tabs'[u]]  BY <2>1 DEF Versioned
  <2>5. QED  BY <2>1, <2>3, <2>4 DEF Versioned, IsRow
<1>3. ASSUME NEW o \in Editors, NEW n \in Names, NEW t, Creates(o, n, t) PROVE Versioned'
  <2> DEFINE e == [Absent EXCEPT !.origin = "custom", !.draft = t, !.version = 1]
  <2>1. Commits(o, n, e) /\ entries[n] = Absent  BY <1>3 DEF Creates
  <2>2. IsRow(entries[n]) /\ entries[n].version = 0  BY <2>1 DEF Versioned, Absent
  <2>3. Bumped(entries[n], e)  BY <2>1, <2>2, RowUpdates
  <2> HIDE DEF e
  <2>4. QED  BY <2>1, <2>3, CommitsKeepVersioned
<1>4. ASSUME NEW o \in Editors, tabs[o] # Closed
      PROVE  tabs[o].name \in Names /\ IsRow(entries[tabs[o].name])
  BY <1>4 DEF Versioned, Loaded
<1>5. ASSUME NEW o \in Editors, NEW t, SavesDraft(o, t) PROVE Versioned'
  <2> DEFINE n == tabs[o].name
             e == [entries[n] EXCEPT !.draft = t, !.version = entries[n].version + 1]
  <2>1. Commits(o, n, e) /\ tabs[o] # Closed  BY <1>5 DEF SavesDraft
  <2>2. n \in Names /\ IsRow(entries[n])  BY <1>4, <2>1
  <2>3. Bumped(entries[n], e)  BY <2>2, RowUpdates
  <2> HIDE DEF e, n
  <2>4. QED  BY <2>1, <2>2, <2>3, CommitsKeepVersioned
<1>6. ASSUME NEW o \in Editors, NEW t, SavesRevision(o, t) PROVE Versioned'
  <2> DEFINE n == tabs[o].name
             r == Load(n, t, package)
             e == [entries[n] EXCEPT !.draft = t, !.current = r, !.version = entries[n].version + 1]
  <2>1. Commits(o, n, e) /\ tabs[o] # Closed  BY <1>6 DEF SavesRevision
  <2>2. n \in Names /\ IsRow(entries[n])  BY <1>4, <2>1
  <2> HIDE DEF r
  <2>3. Bumped(entries[n], e)  BY <2>2, RowUpdates
  <2> HIDE DEF e, n
  <2>4. QED  BY <2>1, <2>2, <2>3, CommitsKeepVersioned
<1>7. ASSUME NEW o \in Editors, NEW flag \in BOOLEAN, SetsArchived(o, flag) PROVE Versioned'
  <2> DEFINE n == tabs[o].name
             e == [entries[n] EXCEPT !.archived = flag, !.version = entries[n].version + 1]
  <2>1. Commits(o, n, e) /\ tabs[o] # Closed  BY <1>7 DEF SetsArchived
  <2>2. n \in Names /\ IsRow(entries[n])  BY <1>4, <2>1
  <2>3. Bumped(entries[n], e)  BY <2>2, RowUpdates
  <2> HIDE DEF e, n
  <2>4. QED  BY <2>1, <2>2, <2>3, CommitsKeepVersioned
<1>8. ASSUME NEW p \in Packages, Starts(p) PROVE Versioned'
  <2>1. entries' = [n \in Names |-> Synchronized(n, p)] /\ tabs' = tabs  BY <1>8 DEF Starts
  <2>2. ASSUME NEW n \in Names
        PROVE  /\ entries'[n] = entries[n] \/ entries'[n].version = entries[n].version + 1
               /\ entries'[n].version \in Nat /\ IsRow(entries'[n])
    BY <2>1, SynchronizedMoves DEF Versioned, Bumped
  <2>3. ASSUME NEW o \in Editors, tabs'[o] # Closed PROVE Loaded(o)'
    <3>1. Loaded(o) /\ entries[tabs[o].name].version \in Nat
      BY <2>1, <2>3 DEF Versioned, Loaded
    <3>2. QED  BY <2>1, <2>2, <3>1 DEF Loaded
  <2>4. entries' = [n \in Names |-> entries'[n]]  BY <2>1
  <2> HIDE DEF Versioned
  <2>5. \A n \in Names : entries'[n].version \in Nat /\ IsRow(entries'[n])  BY <2>2
  <2>6. tabs' = [o \in Editors |-> tabs'[o]]  BY <2>1 DEF Versioned
  <2>7. QED  BY <2>3, <2>4, <2>5, <2>6 DEF Versioned, IsRow
<1>9. QED
  BY <1>1, <1>2, <1>3, <1>5, <1>6, <1>7, <1>8
  DEF Next, vars, Publishes, Responds, Launches, Connects, Drains, Forwards, Disconnects, Stops

THEOREM VersionedAlways == Spec => []Versioned
<1>1. Init => Versioned
  <2> SUFFICES ASSUME Init PROVE Versioned  OBVIOUS
  <2>1. /\ entries = [n \in Names |-> Absent]
        /\ tabs = [o \in Editors |-> Closed]
    BY DEF Init
  <2>2. Absent \in RowOf({None}, {NoText}, {Nothing}, {FALSE}) /\ Absent.version = 0
    BY DEF Absent, RowOf
  <2>3. IsRow(Absent)  BY <2>2 DEF IsRow
  <2>4. entries = [n \in Names |-> entries[n]] /\ tabs = [o \in Editors |-> tabs[o]]
    BY <2>1
  <2>5. QED  BY <2>1, <2>2, <2>3, <2>4 DEF Versioned
<1>2. QED  BY <1>1, VersionedStep, PTL DEF Spec

\* A save that is committed had seen the row it replaces.
LEMMA CommitsSaw ==
    ASSUME Versioned, NEW o \in Editors, NEW e, tabs[o] # Closed, Mutable(o),
           Commits(o, tabs[o].name, e),
           NEW n \in Names, entries'[n].draft # entries[n].draft
    PROVE  /\ tabs[o].name = n /\ tabs[o].seen.draft = entries[n].draft
           /\ tabs'[o].seen = entries'[n]
<1>1. Loaded(o)  BY DEF Versioned
<1>2. tabs[o].seen = entries[tabs[o].name]  BY <1>1 DEF Loaded, Mutable
<1>3. /\ entries' = [entries EXCEPT ![tabs[o].name] = e]
      /\ tabs' = [tabs EXCEPT ![o] = [name |-> tabs[o].name, seen |-> e]]
  BY DEF Commits
<1>4. tabs[o].name = n  BY <1>3 DEF Versioned
<1>5. entries'[n] = e /\ tabs'[o] = [name |-> n, seen |-> e]  BY <1>3, <1>4 DEF Versioned
<1>6. QED  BY <1>2, <1>4, <1>5

\* No save replaces a text its editor never saw, whatever crossed it.
THEOREM NoLostUpdateAlways == Spec => NoLostUpdate
<1> DEFINE Saw(n) ==
      \E o \in Editors :
          /\ tabs[o] # Closed /\ tabs[o].name = n
          /\ tabs[o].seen.draft = entries[n].draft
          /\ tabs'[o].seen = entries'[n]
<1>1. ASSUME Versioned, [Next]_vars, NEW n \in Names,
             entries[n].origin = "custom", entries'[n].draft # entries[n].draft
      PROVE  Saw(n)
  <2>1. ASSUME NEW o \in Editors, NEW t, SavesDraft(o, t) PROVE Saw(n)
    <3>1. PICK e : Commits(o, tabs[o].name, e)  BY <2>1 DEF SavesDraft
    <3>2. tabs[o] # Closed /\ Mutable(o)  BY <2>1 DEF SavesDraft
    <3>3. QED  BY <1>1, <3>1, <3>2, CommitsSaw
  <2>2. ASSUME NEW o \in Editors, NEW t, SavesRevision(o, t) PROVE Saw(n)
    <3>1. PICK e : Commits(o, tabs[o].name, e)  BY <2>2 DEF SavesRevision
    <3>2. tabs[o] # Closed /\ Mutable(o)  BY <2>2 DEF SavesRevision
    <3>3. QED  BY <1>1, <3>1, <3>2, CommitsSaw
  <2>3. ASSUME NEW o \in Editors, NEW flag \in BOOLEAN, SetsArchived(o, flag) PROVE Saw(n)
    <3>1. PICK e : Commits(o, tabs[o].name, e)  BY <2>3 DEF SetsArchived
    <3>2. tabs[o] # Closed /\ Mutable(o)  BY <2>3 DEF SetsArchived
    <3>3. QED  BY <1>1, <3>1, <3>2, CommitsSaw
  <2>4. ASSUME NEW o \in Editors, NEW m \in Names, NEW t, Creates(o, m, t) PROVE FALSE
    <3>1. PICK e : Commits(o, m, e)  BY <2>4 DEF Creates
    <3>2. m = n  BY <1>1, <3>1 DEF Commits, Versioned
    <3>3. entries[n].origin = None  BY <2>4, <3>2 DEF Creates, Absent
    <3>4. QED  BY <1>1, <3>3 DEF None
  <2>5. ASSUME NEW p \in Packages, Starts(p) PROVE FALSE
    <3>1. entries'[n] = Synchronized(n, p)  BY <2>5 DEF Starts
    <3>2. Synchronized(n, p) = entries[n]  BY <1>1 DEF Synchronized, Absent, None
    <3>3. QED  BY <1>1, <3>1, <3>2
  <2>6. ~ (entries' = entries)  BY <1>1
  <2>7. QED
    BY <1>1, <2>1, <2>2, <2>3, <2>4, <2>5, <2>6
    DEF Next, vars, Opens, Publishes, Responds, Launches, Connects, Drains, Forwards,
        Disconnects, Stops
<1> DEFINE NoLost ==
      \A n \in Names :
          entries[n].origin = "custom" /\ entries'[n].draft # entries[n].draft => Saw(n)
<1>2. Versioned /\ [Next]_vars => [NoLost]_vars  BY <1>1
<1>3. QED  BY <1>2, VersionedAlways, PTL DEF Spec, NoLostUpdate

-----------------------------------------------------------------------------
(* The dashboard agrees.  Every copy of an entry on its way to the page is   *)
(* older than the entry or the entry itself, so that the reducer never moves *)
(* backwards; and while a socket is open each entry as it is now has reached *)
(* the page, or is queued for it, or is a mutation still to be published.    *)

\* A copy of a row, from now or from before.
Older(c, e) ==
    /\ c.version \in Nat /\ c.version <= e.version
    /\ c.version = e.version => c = e

CallsFollow(k, E) ==
    \A o \in Editors : k[o] # Idle =>
        k[o].pc \in {"publish", "respond"} /\ k[o].name \in Names /\ Older(k[o].entry, E[k[o].name])

QueueFollows(q, E) ==
    \A i \in 1 .. Len(q) : q[i].name \in Names /\ Older(q[i].entry, E[q[i].name])

LibraryFollows(s, E) ==
    /\ s = [n \in Names |-> s[n]]
    /\ \A n \in Names : Older(s[n], E[n])

\* What the page shows, or will when the snapshot reaches it.
Base(v) == IF v.pc = "overlap" THEN v.snapshot ELSE v.shown

Queued(q, n, e)   == \E i \in 1 .. Len(q) : q[i] = [name |-> n, entry |-> e]
Unpublished(k, n, e) == \E o \in Editors : k[o] = [pc |-> "publish", name |-> n, entry |-> e]

Reaching(v, k, E) ==
    \A n \in Names : Base(v)[n] = E[n] \/ Queued(v.queue, n, E[n]) \/ Unpublished(k, n, E[n])

IsQueue(q) == \E S : q \in Seq(S)
IsView(v) ==
    /\ v = [pc |-> v.pc, queue |-> v.queue, snapshot |-> v.snapshot, shown |-> v.shown]
    /\ v.pc \in {"closed", "overlap", "live"} /\ IsQueue(v.queue)
    /\ v.pc = "closed" => v.queue = << >>

\* The inductive invariant, of a view, the calls, the rows and the daemon.
Following(v, k, E, running) ==
    /\ IsView(v) /\ k = [o \in Editors |-> k[o]]
    /\ CallsFollow(k, E) /\ QueueFollows(v.queue, E) /\ LibraryFollows(v.shown, E)
    /\ v.pc = "overlap" => LibraryFollows(v.snapshot, E)
    /\ v.pc # "closed" => Reaching(v, k, E)
    /\ ~running => v.pc = "closed" /\ \A o \in Editors : k[o] = Idle

Follows == Following(view, calls, entries, up)

\* The ends of a queue.
LEMMA QueueAppended ==
    ASSUME NEW q, IsQueue(q), NEW x
    PROVE  /\ IsQueue(Append(q, x)) /\ Len(q) \in Nat
           /\ Len(Append(q, x)) = Len(q) + 1
           /\ \A i \in 1 .. Len(q) : Append(q, x)[i] = q[i]
           /\ Append(q, x)[Len(q) + 1] = x
<1>1. PICK S : q \in Seq(S)  BY DEF IsQueue
<1>2. PICK T : T = S \cup {x}  OBVIOUS
<1>3. q \in Seq(T) /\ x \in T  BY <1>1, <1>2
<1>4. Append(q, x) \in Seq(T)  BY <1>3
<1>5. IsQueue(Append(q, x))  BY <1>4 DEF IsQueue
<1>6. QED  BY <1>3, <1>5

LEMMA QueueTaken ==
    ASSUME NEW q, IsQueue(q), q # << >>
    PROVE  /\ IsQueue(Tail(q)) /\ Len(q) \in Nat \ {0}
           /\ Len(Tail(q)) = Len(q) - 1 /\ Head(q) = q[1]
           /\ \A i \in 1 .. Len(q) - 1 : Tail(q)[i] = q[i + 1]
<1>1. PICK S : q \in Seq(S)  BY DEF IsQueue
<1>2. Tail(q) \in Seq(S)  BY <1>1
<1>3. IsQueue(Tail(q))  BY <1>2 DEF IsQueue
<1>4. QED  BY <1>1, <1>3

LEMMA EmptyQueue == IsQueue(<< >>) /\ Len(<< >>) = 0
<1>1. << >> \in Seq({})  OBVIOUS
<1>2. QED  BY <1>1 DEF IsQueue

\* A copy stays one when its row gets a new version.
LEMMA OlderKept ==
    ASSUME NEW c, NEW e, NEW f, Older(c, e), e.version \in Nat,
           f = e \/ f.version = e.version + 1
    PROVE  Older(c, f)
BY DEF Older

\* Rows move on: what follows them still does.
LEMMA RowsMoved ==
    ASSUME NEW E, NEW F,
           \A n \in Names : /\ E[n].version \in Nat
                            /\ F[n] = E[n] \/ F[n].version = E[n].version + 1
    PROVE  /\ \A k : CallsFollow(k, E) => CallsFollow(k, F)
           /\ \A q : QueueFollows(q, E) => QueueFollows(q, F)
           /\ \A s : LibraryFollows(s, E) => LibraryFollows(s, F)
<1>1. \A c : \A n \in Names : Older(c, E[n]) => Older(c, F[n])  BY OlderKept
<1>2. \A k : CallsFollow(k, E) => CallsFollow(k, F)  BY <1>1 DEF CallsFollow
<1>3. \A q : QueueFollows(q, E) => QueueFollows(q, F)  BY <1>1 DEF QueueFollows
<1>4. \A s : LibraryFollows(s, E) => LibraryFollows(s, F)  BY <1>1 DEF LibraryFollows
<1>5. QED  BY <1>2, <1>3, <1>4

\* The reducer keeps a library that follows the rows, loses nothing that is
\* current in it, and takes the current row of an entry.
LEMMA AppliedFollows ==
    ASSUME NEW E, NEW s, LibraryFollows(s, E), NEW m \in Names, NEW e, Older(e, E[m]),
           \A n \in Names : E[n].version \in Nat
    PROVE  /\ LibraryFollows(Applied(s, m, e), E)
           /\ \A n \in Names : s[n] = E[n] => Applied(s, m, e)[n] = E[n]
           /\ e = E[m] => Applied(s, m, e)[m] = E[m]
<1>1. CASE s[m].version >= e.version
  <2>1. Applied(s, m, e) = s  BY <1>1 DEF Applied
  <2>2. e = E[m] => s[m] = E[m]  BY <1>1 DEF LibraryFollows, Older
  <2>3. QED  BY <2>1, <2>2
<1>2. CASE ~ (s[m].version >= e.version)
  <2>1. Applied(s, m, e) = [s EXCEPT ![m] = e]  BY <1>2 DEF Applied
  <2>2. s[m].version \in Nat /\ e.version \in Nat /\ s[m].version < e.version
        /\ e.version <= E[m].version
    BY <1>2 DEF LibraryFollows, Older
  <2>3. s[m] # E[m]  BY <2>2
  <2>4. \A n \in Names : [s EXCEPT ![m] = e][n] = IF n = m THEN e ELSE s[n]
    BY DEF LibraryFollows
  <2>5. [s EXCEPT ![m] = e] = [n \in Names |-> [s EXCEPT ![m] = e][n]]
    BY DEF LibraryFollows
  <2>6. LibraryFollows([s EXCEPT ![m] = e], E)  BY <2>4, <2>5 DEF LibraryFollows
  <2>7. QED  BY <2>1, <2>3, <2>4, <2>6
<1>3. QED  BY <1>1, <1>2
\* A committed mutation is on its way to the page before anything else happens.
LEMMA CommitFollows ==
    ASSUME Versioned, Follows, NEW o \in Editors, NEW n \in Names, NEW e,
           Commits(o, n, e), Bumped(entries[n], e), calls[o].pc = "idle", up
    PROVE  Follows'
<1> DEFINE new == [pc |-> "publish", name |-> n, entry |-> e]
<1>1. /\ entries' = [entries EXCEPT ![n] = e] /\ calls' = [calls EXCEPT ![o] = new]
      /\ view' = view /\ up' = up
  BY DEF Commits
<1>2. /\ \A m \in Names : entries[m].version \in Nat
      /\ \A m \in Names : entries'[m] = IF m = n THEN e ELSE entries[m]
      /\ e.version = entries[n].version + 1
  BY <1>1 DEF Versioned, Bumped
<1>3. /\ \A u \in Editors : calls'[u] = IF u = o THEN new ELSE calls[u]
      /\ calls' = [u \in Editors |-> calls'[u]]
  BY <1>1 DEF Follows, Following
<1>4. \A m \in Names : entries'[m] = entries[m] \/ entries'[m].version = entries[m].version + 1
  BY <1>2
<1>5. /\ CallsFollow(calls, entries') /\ QueueFollows(view.queue, entries')
      /\ LibraryFollows(view.shown, entries')
      /\ view.pc = "overlap" => LibraryFollows(view.snapshot, entries')
  BY <1>2, <1>4, RowsMoved DEF Follows, Following
<1>6. Older(e, entries'[n])  BY <1>2 DEF Older
<1>7. CallsFollow(calls', entries')
  <2> SUFFICES ASSUME NEW u \in Editors, calls'[u] # Idle
               PROVE  /\ calls'[u].pc \in {"publish", "respond"} /\ calls'[u].name \in Names
                      /\ Older(calls'[u].entry, entries'[calls'[u].name])
    BY DEF CallsFollow
  <2>1. CASE u = o  BY <1>3, <1>6, <2>1
  <2>2. CASE u # o  BY <1>3, <1>5, <2>2 DEF CallsFollow
  <2>3. QED  BY <2>1, <2>2
<1>8. ASSUME view.pc # "closed", NEW m \in Names
      PROVE  \/ Base(view)[m] = entries'[m] \/ Queued(view.queue, m, entries'[m])
             \/ Unpublished(calls', m, entries'[m])
  <2>1. CASE m = n
    <3>1. calls'[o] = [pc |-> "publish", name |-> m, entry |-> entries'[m]]
      BY <1>2, <1>3, <2>1
    <3>2. QED  BY <3>1 DEF Unpublished
  <2>2. CASE m # n
    <3>1. entries'[m] = entries[m]  BY <1>2, <2>2
    <3>2. Base(view)[m] = entries[m] \/ Queued(view.queue, m, entries[m])
          \/ Unpublished(calls, m, entries[m])
      BY <1>8 DEF Follows, Following, Reaching
    <3>3. ASSUME Unpublished(calls, m, entries[m]) PROVE Unpublished(calls', m, entries[m])
      <4>1. PICK u \in Editors : calls[u] = [pc |-> "publish", name |-> m, entry |-> entries[m]]
        BY <3>3 DEF Unpublished
      <4>2. calls[u].pc = "publish"  BY <4>1
      <4>3. calls'[u] = calls[u]  BY <1>3, <4>2
      <4>4. QED  BY <4>1, <4>3 DEF Unpublished
    <3>4. QED  BY <3>1, <3>2, <3>3
  <2>3. QED  BY <2>1, <2>2
<1>9. view.pc # "closed" => Reaching(view, calls', entries')  BY <1>8 DEF Reaching
<1>10. Following(view, calls', entries', up)
  BY <1>3, <1>5, <1>7, <1>9 DEF Follows, Following
<1>11. QED  BY <1>1, <1>10 DEF Follows

\* The socket's own steps: opening, snapshot, delivery, loss.
LEMMA SocketFollows ==
    ASSUME Versioned, Follows, Connects \/ Drains \/ Forwards \/ Disconnects
    PROVE  Follows'
<1>1. entries' = entries /\ calls' = calls /\ up' = up
  BY DEF Connects, Drains, Forwards, Disconnects
<1>2. /\ IsView(view) /\ CallsFollow(calls, entries) /\ QueueFollows(view.queue, entries)
      /\ LibraryFollows(view.shown, entries) /\ calls = [o \in Editors |-> calls[o]]
      /\ view.pc = "overlap" => LibraryFollows(view.snapshot, entries)
      /\ view.pc # "closed" => Reaching(view, calls, entries)
      /\ ~up => view.pc = "closed" /\ \A o \in Editors : calls[o] = Idle
  BY DEF Follows, Following
<1>3. /\ entries = [n \in Names |-> entries[n]]
      /\ \A n \in Names : entries[n].version \in Nat
  BY DEF Versioned
<1>4. QueueFollows(<< >>, entries)  BY EmptyQueue DEF QueueFollows
<1>5. ASSUME Following(view', calls, entries, up) PROVE Follows'
  BY <1>1, <1>5 DEF Follows
<1>6. CASE Connects
  <2>1. view' = [pc |-> "overlap", queue |-> << >>, snapshot |-> entries, shown |-> view.shown]
    BY <1>2, <1>6 DEF Connects, IsView
  <2>2. /\ view'.pc = "overlap" /\ view'.queue = << >> /\ view'.snapshot = entries
        /\ view'.shown = view.shown
    BY <2>1
  <2>3. IsView(view')  BY <2>1, <2>2, EmptyQueue DEF IsView
  <2>4. LibraryFollows(entries, entries)  BY <1>3 DEF LibraryFollows, Older
  <2>5. Reaching(view', calls, entries)  BY <2>2 DEF Reaching, Base
  <2>6. up  BY <1>6 DEF Connects
  <2>7. Following(view', calls, entries, up)
    BY <1>2, <1>4, <2>2, <2>3, <2>4, <2>5, <2>6 DEF Following
  <2>8. QED  BY <1>5, <2>7
<1>7. CASE Drains
  <2>1. up /\ view.pc = "overlap"  BY <1>7 DEF Drains
  <2>2. view' = [pc |-> "live", queue |-> view.queue, snapshot |-> << >>,
                 shown |-> view.snapshot]
    BY <1>2, <1>7 DEF Drains, Overlap, IsView
  <2>3. /\ view'.pc = "live" /\ view'.queue = view.queue /\ view'.shown = view.snapshot
    BY <2>2
  <2>4. IsView(view')  BY <1>2, <2>2, <2>3 DEF IsView
  <2>5. Base(view') = Base(view)  BY <2>1, <2>3 DEF Base
  <2>6. Reaching(view', calls, entries)  BY <1>2, <2>1, <2>3, <2>5 DEF Reaching
  <2>7. Following(view', calls, entries, up)
    BY <1>2, <2>1, <2>3, <2>4, <2>6 DEF Following
  <2>8. QED  BY <1>5, <2>7
<1>8. CASE Forwards
  <2> DEFINE x == Head(view.queue)
             q == Tail(view.queue)
             s == Applied(view.shown, x.name, x.entry)
  <2>1. up /\ view.pc = "live" /\ view.queue # << >>  BY <1>8 DEF Forwards
  <2>2. view' = [pc |-> "live", queue |-> q, snapshot |-> view.snapshot, shown |-> s]
    BY <1>2, <1>8, <2>1 DEF Forwards, IsView
  <2>3. /\ IsQueue(q) /\ Len(view.queue) \in Nat \ {0}
        /\ Len(q) = Len(view.queue) - 1 /\ x = view.queue[1]
        /\ \A i \in 1 .. Len(view.queue) - 1 : q[i] = view.queue[i + 1]
    BY <1>2, <2>1, QueueTaken DEF IsView
  <2>4. x.name \in Names /\ Older(x.entry, entries[x.name])
    BY <1>2, <2>3 DEF QueueFollows
  <2>5. /\ LibraryFollows(s, entries)
        /\ \A n \in Names : view.shown[n] = entries[n] => s[n] = entries[n]
        /\ x.entry = entries[x.name] => s[x.name] = entries[x.name]
    BY <1>2, <1>3, <2>4, AppliedFollows
  <2> HIDE DEF x, q, s
  <2>6. view'.pc = "live" /\ view'.queue = q /\ view'.shown = s /\ view'.snapshot = view.snapshot
    BY <2>2
  <2>7. IsView(view')  BY <2>2, <2>3, <2>6 DEF IsView
  <2>8. QueueFollows(q, entries)
    <3> SUFFICES ASSUME NEW i \in 1 .. Len(q)
                 PROVE  q[i].name \in Names /\ Older(q[i].entry, entries[q[i].name])
      BY DEF QueueFollows
    <3>1. i \in 1 .. Len(view.queue) - 1 /\ i + 1 \in 1 .. Len(view.queue)  BY <2>3
    <3>2. q[i] = view.queue[i + 1]  BY <2>3, <3>1
    <3>3. QED  BY <1>2, <3>1, <3>2 DEF QueueFollows
  <2>9. ASSUME NEW n \in Names
        PROVE  s[n] = entries[n] \/ Queued(q, n, entries[n]) \/ Unpublished(calls, n, entries[n])
    <3>1. view.shown[n] = entries[n] \/ Queued(view.queue, n, entries[n])
          \/ Unpublished(calls, n, entries[n])
      BY <1>2, <2>1 DEF Reaching, Base
    <3>2. CASE Queued(view.queue, n, entries[n])
      <4>1. PICK i \in 1 .. Len(view.queue) : view.queue[i] = [name |-> n, entry |-> entries[n]]
        BY <3>2 DEF Queued
      <4>2. CASE i = 1  BY <2>3, <2>5, <4>1, <4>2
      <4>3. CASE i # 1
        <5>1. i - 1 \in 1 .. Len(q) /\ q[i - 1] = view.queue[i]  BY <2>3, <4>3
        <5>2. QED  BY <4>1, <5>1 DEF Queued
      <4>4. QED  BY <4>2, <4>3
    <3>3. QED  BY <2>5, <3>1, <3>2
  <2>10. Reaching(view', calls, entries)  BY <2>6, <2>9 DEF Reaching, Base
  <2>11. Following(view', calls, entries, up)
    BY <1>2, <2>1, <2>5, <2>6, <2>7, <2>8, <2>10 DEF Following
  <2>12. QED  BY <1>5, <2>11
<1>9. CASE Disconnects
  <2>1. view' = [pc |-> "closed", queue |-> << >>, snapshot |-> << >>, shown |-> view.shown]
    BY <1>2, <1>9 DEF Disconnects, Disconnected, IsView
  <2>2. view'.pc = "closed" /\ view'.queue = << >> /\ view'.shown = view.shown  BY <2>1
  <2>3. IsView(view')  BY <2>1, <2>2, EmptyQueue DEF IsView
  <2>4. Following(view', calls, entries, up)
    BY <1>2, <1>4, <2>2, <2>3 DEF Following
  <2>5. QED  BY <1>5, <2>4
<1>10. QED  BY <1>6, <1>7, <1>8, <1>9
\* A mutation is announced, and then answered.
LEMMA CallFollows ==
    ASSUME Versioned, Follows, NEW o \in Editors, Publishes(o) \/ Responds(o)
    PROVE  Follows'
<1>1. entries' = entries /\ up' = up  BY DEF Publishes, Responds
<1>2. /\ IsView(view) /\ CallsFollow(calls, entries) /\ QueueFollows(view.queue, entries)
      /\ LibraryFollows(view.shown, entries) /\ calls = [u \in Editors |-> calls[u]]
      /\ view.pc = "overlap" => LibraryFollows(view.snapshot, entries)
      /\ view.pc # "closed" => Reaching(view, calls, entries)
      /\ ~up => view.pc = "closed" /\ \A u \in Editors : calls[u] = Idle
  BY DEF Follows, Following
<1>3. \A n \in Names : entries[n].version \in Nat  BY DEF Versioned
<1> DEFINE n == calls[o].name
           e == calls[o].entry
<1>4. /\ calls[o] # Idle /\ calls[o].pc \in {"publish", "respond"}
      /\ n \in Names /\ Older(e, entries[n])
  <2>1. calls[o].pc \in {"publish", "respond"}  BY DEF Publishes, Responds
  <2>2. calls[o] # Idle  BY <2>1 DEF Idle
  <2>3. QED  BY <1>2, <2>1, <2>2 DEF CallsFollow
<1>5. up  BY <1>2, <1>4
<1> HIDE DEF n, e
<1>6. ASSUME Following(view', calls', entries, up) PROVE Follows'
  BY <1>1, <1>6 DEF Follows
<1>7. CASE Publishes(o)
  <2> DEFINE q == Append(view.queue, [name |-> n, entry |-> e])
  <2>1. calls' = [calls EXCEPT ![o] = [calls[o] EXCEPT !.pc = "respond"]]
    BY <1>7 DEF Publishes
  <2>2. PICK k : k = [calls[o] EXCEPT !.pc = "respond"]  OBVIOUS
  <2>3. /\ \A u \in Editors : calls'[u] = IF u = o THEN k ELSE calls[u]
        /\ calls' = [u \in Editors |-> calls'[u]]
    BY <1>2, <2>1, <2>2
  <2>4. ASSUME k # Idle
        PROVE  k.pc \in {"publish", "respond"} /\ k.name \in Names /\ Older(k.entry, entries[k.name])
    <3>1. PICK c : c = calls[o]  OBVIOUS
    <3>2. c.pc = "publish" /\ c.name \in Names /\ Older(c.entry, entries[c.name])
      BY <1>4, <1>7, <3>1 DEF Publishes, n, e
    <3>3. k = [c EXCEPT !.pc = "respond"]  BY <2>2, <3>1
    <3>4. k.name = c.name /\ k.entry = c.entry /\ (k.pc = "respond" \/ k.pc = c.pc)  BY <3>3
    <3>5. QED  BY <3>2, <3>4
  <2>5. CallsFollow(calls', entries)
    <3> SUFFICES ASSUME NEW u \in Editors, calls'[u] # Idle
                 PROVE  /\ calls'[u].pc \in {"publish", "respond"} /\ calls'[u].name \in Names
                        /\ Older(calls'[u].entry, entries[calls'[u].name])
      BY DEF CallsFollow
    <3>1. CASE u = o  BY <2>3, <2>4, <3>1
    <3>2. CASE u # o  BY <1>2, <2>3, <3>2 DEF CallsFollow
    <3>3. QED  BY <3>1, <3>2
  <2>6. CASE view.pc = "closed"
    <3>1. view' = view  BY <1>7, <2>6 DEF Publishes
    <3>2. Following(view', calls', entries, up)
      BY <1>2, <1>5, <2>3, <2>5, <2>6, <3>1 DEF Following
    <3>3. QED  BY <1>6, <3>2
  <2>7. CASE view.pc # "closed"
    <3>1. view' = [view EXCEPT !.queue = q]  BY <1>7, <2>7 DEF Publishes, n, e
    <3>2. /\ IsQueue(q) /\ Len(view.queue) \in Nat /\ Len(q) = Len(view.queue) + 1
          /\ \A i \in 1 .. Len(view.queue) : q[i] = view.queue[i]
          /\ q[Len(view.queue) + 1] = [name |-> n, entry |-> e]
      BY <1>2, QueueAppended DEF IsView
    <3> HIDE DEF q
    <3>3. view' = [pc |-> view.pc, queue |-> q, snapshot |-> view.snapshot, shown |-> view.shown]
      BY <1>2, <3>1 DEF IsView
    <3>4. /\ view'.pc = view.pc /\ view'.queue = q /\ view'.snapshot = view.snapshot
          /\ view'.shown = view.shown
      BY <3>3
    <3>5. IsView(view')  BY <1>2, <2>7, <3>2, <3>3, <3>4 DEF IsView
    <3>6. QueueFollows(q, entries)
      <4> SUFFICES ASSUME NEW i \in 1 .. Len(q)
                   PROVE  q[i].name \in Names /\ Older(q[i].entry, entries[q[i].name])
        BY DEF QueueFollows
      <4>1. CASE i \in 1 .. Len(view.queue)  BY <1>2, <3>2, <4>1 DEF QueueFollows
      <4>2. CASE i = Len(view.queue) + 1  BY <1>4, <3>2, <4>2
      <4>3. QED  BY <3>2, <4>1, <4>2
    <3>7. ASSUME NEW m \in Names
          PROVE  \/ Base(view)[m] = entries[m] \/ Queued(q, m, entries[m])
                 \/ Unpublished(calls', m, entries[m])
      <4>1. CASE Base(view)[m] = entries[m]  BY <4>1
      <4>2. CASE Queued(view.queue, m, entries[m])
        <5>1. PICK i \in 1 .. Len(view.queue) : view.queue[i] = [name |-> m, entry |-> entries[m]]
          BY <4>2 DEF Queued
        <5>2. i \in 1 .. Len(q) /\ q[i] = view.queue[i]  BY <3>2
        <5>3. QED  BY <5>1, <5>2 DEF Queued
      <4>3. CASE Unpublished(calls, m, entries[m])
        <5>1. PICK u \in Editors : calls[u] = [pc |-> "publish", name |-> m, entry |-> entries[m]]
          BY <4>3 DEF Unpublished
        <5>2. CASE u = o
          <6>1. n = m /\ e = entries[m]  BY <5>1, <5>2 DEF n, e
          <6>2. Len(view.queue) + 1 \in 1 .. Len(q)  BY <3>2
          <6>3. QED  BY <3>2, <6>1, <6>2 DEF Queued
        <5>3. CASE u # o
          <6>1. calls'[u] = calls[u]  BY <2>3, <5>3
          <6>2. QED  BY <5>1, <6>1 DEF Unpublished
        <5>4. QED  BY <5>2, <5>3
      <4>4. QED  BY <1>2, <2>7, <4>1, <4>2, <4>3 DEF Reaching
    <3>8. Base(view') = Base(view)  BY <3>4 DEF Base
    <3>9. Reaching(view', calls', entries)  BY <3>4, <3>7, <3>8 DEF Reaching
    <3>10. Following(view', calls', entries, up)
      BY <1>2, <1>5, <2>3, <2>5, <3>4, <3>5, <3>6, <3>9 DEF Following
    <3>11. QED  BY <1>6, <3>10
  <2>8. QED  BY <2>6, <2>7
<1>8. CASE Responds(o)
  <2> DEFINE s == Applied(view.shown, n, e)
  <2>1. /\ LibraryFollows(s, entries)
        /\ \A m \in Names : view.shown[m] = entries[m] => s[m] = entries[m]
    BY <1>2, <1>3, <1>4, AppliedFollows
  <2>2. view' = [view EXCEPT !.shown = s] /\ calls' = [calls EXCEPT ![o] = Idle]
    BY <1>8 DEF Responds, n, e
  <2> HIDE DEF s
  <2>3. view' = [pc |-> view.pc, queue |-> view.queue, snapshot |-> view.snapshot, shown |-> s]
    BY <1>2, <2>2 DEF IsView
  <2>4. /\ view'.pc = view.pc /\ view'.queue = view.queue /\ view'.snapshot = view.snapshot
        /\ view'.shown = s
    BY <2>3
  <2>5. IsView(view')  BY <1>2, <2>3, <2>4 DEF IsView
  <2>6. /\ \A u \in Editors : calls'[u] = IF u = o THEN Idle ELSE calls[u]
        /\ calls' = [u \in Editors |-> calls'[u]]
    BY <1>2, <2>2
  <2>7. CallsFollow(calls', entries)
    <3> SUFFICES ASSUME NEW u \in Editors, calls'[u] # Idle
                 PROVE  /\ calls'[u].pc \in {"publish", "respond"} /\ calls'[u].name \in Names
                        /\ Older(calls'[u].entry, entries[calls'[u].name])
      BY DEF CallsFollow
    <3>1. u # o /\ calls'[u] = calls[u]  BY <2>6
    <3>2. QED  BY <1>2, <3>1 DEF CallsFollow
  <2>8. ASSUME view.pc # "closed", NEW m \in Names
        PROVE  \/ Base(view')[m] = entries[m] \/ Queued(view.queue, m, entries[m])
               \/ Unpublished(calls', m, entries[m])
    <3>1. CASE Base(view)[m] = entries[m]
      <4>1. CASE view.pc = "overlap"  BY <2>4, <3>1, <4>1 DEF Base
      <4>2. CASE view.pc # "overlap"  BY <2>1, <2>4, <3>1, <4>2 DEF Base
      <4>3. QED  BY <4>1, <4>2
    <3>2. CASE Unpublished(calls, m, entries[m])
      <4>1. PICK u \in Editors : calls[u] = [pc |-> "publish", name |-> m, entry |-> entries[m]]
        BY <3>2 DEF Unpublished
      <4>2. calls[u].pc = "publish" /\ calls[o].pc = "respond"  BY <1>8, <4>1 DEF Responds
      <4>3. calls'[u] = calls[u]  BY <2>6, <4>2
      <4>4. QED  BY <4>1, <4>3 DEF Unpublished
    <3>3. QED  BY <1>2, <2>8, <3>1, <3>2 DEF Reaching
  <2>9. view'.pc # "closed" => Reaching(view', calls', entries)
    BY <2>4, <2>8 DEF Reaching
  <2>10. Following(view', calls', entries, up)
    BY <1>2, <1>5, <2>1, <2>4, <2>5, <2>6, <2>7, <2>9 DEF Following
  <2>11. QED  BY <1>6, <2>10
<1>9. QED  BY <1>7, <1>8

\* Startup moves the packaged rows while nobody is connected; a stop ends every
\* socket and every request.
LEMMA DaemonFollows ==
    ASSUME Versioned, Follows, Stops \/ \E p \in Packages : Starts(p)
    PROVE  Follows'
<1>1. /\ IsView(view) /\ CallsFollow(calls, entries) /\ QueueFollows(view.queue, entries)
      /\ LibraryFollows(view.shown, entries) /\ calls = [o \in Editors |-> calls[o]]
      /\ ~up => view.pc = "closed" /\ \A o \in Editors : calls[o] = Idle
  BY DEF Follows, Following
<1>2. CASE Stops
  <2>1. /\ entries' = entries /\ up' = FALSE /\ calls' = [o \in Editors |-> Idle]
        /\ view' = [view EXCEPT !.pc = "closed", !.queue = << >>, !.snapshot = << >>]
    BY <1>2 DEF Stops, Disconnected
  <2>2. view' = [pc |-> "closed", queue |-> << >>, snapshot |-> << >>, shown |-> view.shown]
    BY <1>1, <2>1 DEF IsView
  <2>3. view'.pc = "closed" /\ view'.queue = << >> /\ view'.shown = view.shown  BY <2>2
  <2>4. IsView(view')  BY <2>2, <2>3, EmptyQueue DEF IsView
  <2>5. /\ \A o \in Editors : calls'[o] = Idle
        /\ calls' = [o \in Editors |-> calls'[o]]
    BY <2>1
  <2>6. CallsFollow(calls', entries)  BY <2>5 DEF CallsFollow
  <2>7. QueueFollows(<< >>, entries)  BY EmptyQueue DEF QueueFollows
  <2>8. Following(view', calls', entries, FALSE)
    BY <1>1, <2>3, <2>4, <2>5, <2>6, <2>7 DEF Following
  <2>9. QED  BY <2>1, <2>8 DEF Follows
<1>3. ASSUME NEW p \in Packages, Starts(p) PROVE Follows'
  <2>1. /\ ~up /\ calls' = calls /\ view' = view
        /\ entries' = [n \in Names |-> Synchronized(n, p)]
    BY <1>3 DEF Starts
  <2>2. \A n \in Names :
          /\ entries[n].version \in Nat
          /\ entries'[n] = entries[n] \/ entries'[n].version = entries[n].version + 1
    BY <2>1, SynchronizedMoves DEF Versioned, Bumped
  <2>3. /\ CallsFollow(calls, entries') /\ QueueFollows(view.queue, entries')
        /\ LibraryFollows(view.shown, entries')
    BY <1>1, <2>2, RowsMoved
  <2>4. Following(view, calls, entries', up')
    BY <1>1, <2>1, <2>3 DEF Following
  <2>5. QED  BY <2>1, <2>4 DEF Follows
<1>4. QED  BY <1>2, <1>3
\* Every step keeps Follows.
LEMMA FollowsStep ==
    ASSUME Versioned, Follows, [Next]_vars
    PROVE  Follows'
<1>1. CASE UNCHANGED <<entries, calls, view, up>>
  <2>1. entries' = entries /\ calls' = calls /\ view' = view /\ up' = up  BY <1>1
  <2>2. QED  BY <2>1 DEF Follows
<1>2. ASSUME NEW o \in Editors, tabs[o] # Closed
      PROVE  tabs[o].name \in Names /\ IsRow(entries[tabs[o].name])
  BY <1>2 DEF Versioned, Loaded
<1>3. ASSUME NEW o \in Editors, NEW n \in Names, NEW t, Creates(o, n, t) PROVE Follows'
  <2> DEFINE e == [Absent EXCEPT !.origin = "custom", !.draft = t, !.version = 1]
  <2>1. Commits(o, n, e) /\ entries[n] = Absent /\ up /\ calls[o].pc = "idle"
    BY <1>3 DEF Creates, MayEdit
  <2>2. IsRow(entries[n]) /\ entries[n].version = 0  BY <2>1 DEF Versioned, Absent
  <2>3. Bumped(entries[n], e)  BY <2>1, <2>2, RowUpdates
  <2> HIDE DEF e
  <2>4. QED  BY <2>1, <2>3, CommitFollows
<1>4. ASSUME NEW o \in Editors, NEW t, SavesDraft(o, t) PROVE Follows'
  <2> DEFINE n == tabs[o].name
             e == [entries[n] EXCEPT !.draft = t, !.version = entries[n].version + 1]
  <2>1. Commits(o, n, e) /\ tabs[o] # Closed /\ up /\ calls[o].pc = "idle"
    BY <1>4 DEF SavesDraft, MayEdit
  <2>2. n \in Names /\ IsRow(entries[n])  BY <1>2, <2>1
  <2>3. Bumped(entries[n], e)  BY <2>2, RowUpdates
  <2> HIDE DEF e, n
  <2>4. QED  BY <2>1, <2>2, <2>3, CommitFollows
<1>5. ASSUME NEW o \in Editors, NEW t, SavesRevision(o, t) PROVE Follows'
  <2> DEFINE n == tabs[o].name
             r == Load(n, t, package)
             e == [entries[n] EXCEPT !.draft = t, !.current = r, !.version = entries[n].version + 1]
  <2>1. Commits(o, n, e) /\ tabs[o] # Closed /\ up /\ calls[o].pc = "idle"
    BY <1>5 DEF SavesRevision, MayEdit
  <2>2. n \in Names /\ IsRow(entries[n])  BY <1>2, <2>1
  <2> HIDE DEF r
  <2>3. Bumped(entries[n], e)  BY <2>2, RowUpdates
  <2> HIDE DEF e, n
  <2>4. QED  BY <2>1, <2>2, <2>3, CommitFollows
<1>6. ASSUME NEW o \in Editors, NEW flag \in BOOLEAN, SetsArchived(o, flag) PROVE Follows'
  <2> DEFINE n == tabs[o].name
             e == [entries[n] EXCEPT !.archived = flag, !.version = entries[n].version + 1]
  <2>1. Commits(o, n, e) /\ tabs[o] # Closed /\ up /\ calls[o].pc = "idle"
    BY <1>6 DEF SetsArchived, MayEdit
  <2>2. n \in Names /\ IsRow(entries[n])  BY <1>2, <2>1
  <2>3. Bumped(entries[n], e)  BY <2>2, RowUpdates
  <2> HIDE DEF e, n
  <2>4. QED  BY <2>1, <2>2, <2>3, CommitFollows
<1>7. ASSUME NEW o \in Editors, Publishes(o) \/ Responds(o) PROVE Follows'
  BY <1>7, CallFollows
<1>8. CASE Connects \/ Drains \/ Forwards \/ Disconnects  BY <1>8, SocketFollows
<1>9. CASE Stops \/ \E p \in Packages : Starts(p)  BY <1>9, DaemonFollows
<1>10. QED
  BY <1>1, <1>3, <1>4, <1>5, <1>6, <1>7, <1>8, <1>9 DEF Next, vars, Opens, Launches

\* Follows is an invariant.
THEOREM FollowsAlways == Spec => []Follows
<1>1. Init => Follows
  <2> SUFFICES ASSUME Init PROVE Follows  OBVIOUS
  <2>1. /\ entries = [n \in Names |-> Absent] /\ calls = [o \in Editors |-> Idle]
        /\ view = [pc |-> "closed", queue |-> << >>, snapshot |-> << >>, shown |-> entries]
    BY DEF Init
  <2>2. view.pc = "closed" /\ view.queue = << >> /\ view.shown = entries
    BY <2>1
  <2>3. IsView(view)  BY <2>1, <2>2, EmptyQueue DEF IsView
  <2>4. LibraryFollows(entries, entries)  BY <2>1 DEF LibraryFollows, Older, Absent
  <2>5. QueueFollows(<< >>, entries)  BY EmptyQueue DEF QueueFollows
  <2>6. CallsFollow(calls, entries)  BY <2>1 DEF CallsFollow
  <2>7. QED  BY <2>1, <2>2, <2>3, <2>4, <2>5, <2>6 DEF Follows, Following
<1>2. QED  BY <1>1, VersionedAlways, FollowsStep, PTL DEF Spec

\* A connected dashboard with nothing left to deliver shows the library as it
\* is, however many editors, saves, restarts and lost sockets crossed.
THEOREM ViewAgreesAlways == Spec => []ViewAgrees
<1>1. Versioned /\ Follows => ViewAgrees
  <2> SUFFICES ASSUME Versioned, Follows, view.pc = "live", view.queue = << >>,
                      \A o \in Editors : calls[o] = Idle
               PROVE  view.shown = entries
    BY DEF ViewAgrees
  <2>1. /\ view.shown = [n \in Names |-> view.shown[n]]
        /\ Reaching(view, calls, entries)
    BY DEF Follows, Following, LibraryFollows
  <2>2. ASSUME NEW n \in Names PROVE view.shown[n] = entries[n]
    <3>1. ~ Queued(view.queue, n, entries[n])  BY EmptyQueue DEF Queued
    <3>2. ~ Unpublished(calls, n, entries[n])  BY DEF Unpublished, Idle
    <3>3. QED  BY <2>1, <3>1, <3>2 DEF Reaching, Base
  <2>3. entries = [n \in Names |-> entries[n]]  BY DEF Versioned
  <2>4. QED  BY <2>1, <2>2, <2>3
<1>2. QED  BY <1>1, VersionedAlways, FollowsAlways, PTL
=============================================================================
