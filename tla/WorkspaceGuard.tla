---------------------------- MODULE WorkspaceGuard ----------------------------
(***************************************************************************)
(* The workspace writer guard of one task, with the operations that use it:*)
(* workflow steps, reviews, the host operations (drafting, delivery,       *)
(* capture), operator turns and cleanup.                                   *)
(*                                                                         *)
(* Sources: isolation/guard.py, and its callers in workflows.py, review.py,*)
(* ship.py, results.py, application/cleanup.py and api/rest.py.            *)
(*                                                                         *)
(* Each caller is a coroutine; it is interleaved with the others where it  *)
(* awaits, which is anywhere between two actions below.  Ownership is a    *)
(* name and a kind, and is given back by name: `Name` says which callers   *)
(* share one.                                                              *)
(***************************************************************************)
EXTENDS Naturals, FiniteSets

CONSTANTS
    Step,          \* the run's coroutine, at its working steps
    Hosts,         \* coroutines of drafting, capture and delivery
    Reviews,       \* watchers of reviews: each start is a new one
    Turns,         \* operator requests that prompt the agent
    Cleanup,       \* the cleanup request
    LoopBack,      \* TRUE: reviews hand comments to the agent (formats 1, 2)
    TeardownFails  \* TRUE: removing the container may fail

Callers == {Step} \cup Hosts \cup Reviews \cup Turns \cup {Cleanup}

ASSUME CallersAssumption ==
    /\ Step \notin Hosts \cup Reviews \cup Turns \cup {Cleanup}
    /\ Cleanup \notin Hosts \cup Reviews \cup Turns
    /\ Hosts \cap (Reviews \cup Turns) = {} /\ Reviews \cap Turns = {}
    /\ "review" \notin Callers /\ "nobody" \notin Callers

ASSUME SwitchAssumption == LoopBack \in BOOLEAN /\ TeardownFails \in BOOLEAN

\* Every review holds under the one name "review"; the others under their own.
Name(c) == IF c \in Reviews THEN "review" ELSE c
Free    == [name |-> "nobody", kind |-> "none"]
Owners  == {Free} \cup [name : {Name(c) : c \in Callers}, kind : {"host", "agent"}]

VARIABLES
    owner,     \* WorkspaceGuard._owners[task]
    blocked,   \* the task is in WorkspaceGuard._blocked
    at,        \* caller -> where it is
    archived   \* the task row is archived

vars == <<owner, blocked, at, archived>>

Places == {"idle", "capturing", "working", "exiting", "loopback", "admitted",
           "prompting"}

Init ==
    /\ owner = Free /\ blocked = FALSE /\ archived = FALSE
    /\ at = [c \in Callers |-> "idle"]

Moves(c, from, to) == at[c] = from /\ at' = [at EXCEPT ![c] = to]

\* assert_available and assert_host_free, for a caller that holds nothing: no
\* caller asks for a second hold inside its own.
Available == ~blocked /\ owner = Free
HostFree  == ~blocked /\ owner.kind # "host"

Release(c) == owner' = IF owner.name = Name(c) THEN Free ELSE owner

-----------------------------------------------------------------------------
\* hold and acquire: admission, then ownership.
Hold(c, kind, place) ==
    /\ Available
    /\ Moves(c, "idle", place)
    /\ owner' = [name |-> Name(c), kind |-> kind]
    /\ UNCHANGED <<blocked, archived>>

\* An execution step; a capture, a draft or a delivery action.  A run is not
\* stopped by cleanup: only its container is gone.
StepBegins    == Hold(Step, "agent", "working")
HostBegins(c) == ~archived /\ Hold(c, "host", "working")

\* A caller leaves its hold and stops.
Leaves(c, from) ==
    /\ Moves(c, from, "idle")
    /\ Release(c)
    /\ UNCHANGED <<blocked, archived>>

\* start_review takes the guard for a watcher that outlives the request.  It
\* refuses while a reviewer process is there, and while the session it hands
\* comments to is not idle, which it is not before the loop-back is over unless
\* somebody else prompts it (Review tells when somebody can).
ReviewStarts(c) ==
    /\ ~archived
    /\ \A r \in Reviews : at[r] \notin {"working", "loopback"}
    /\ Hold(c, "host", "capturing")

\* The candidate is captured and the reviewer runs, or the capture is refused.
ReviewRuns(c) ==
    /\ Moves(c, "capturing", "working")
    /\ UNCHANGED <<owner, blocked, archived>>

ReviewRefused(c) == Leaves(c, "capturing")

\* The reviewer exits: the verdict is finalized and the hold given back last,
\* or the comments go to the agent with the hold released meanwhile.
ReviewExits(c) ==
    /\ Moves(c, "working", "exiting")
    /\ UNCHANGED <<owner, blocked, archived>>

ReviewFinal(c) == Leaves(c, "exiting")

ReviewLoopsBack(c) ==
    /\ LoopBack
    /\ Moves(c, "exiting", "loopback")
    /\ Release(c)
    /\ UNCHANGED <<blocked, archived>>

\* released restores the hold only if nobody has it, and _watch_review's
\* finally drops it again at once: together, one more release by name.
LoopBackEnds(c) == Leaves(c, "loopback")

\* _require_live_agent: admission, then the wait for the session boundary,
\* then the prompt.  A turn owns nothing.
TurnAdmitted(c) ==
    /\ ~archived /\ HostFree
    /\ Moves(c, "idle", "admitted")
    /\ UNCHANGED <<owner, blocked, archived>>

TurnPrompts(c) ==
    /\ Moves(c, "admitted", "prompting")
    /\ UNCHANGED <<owner, blocked, archived>>

TurnEnds(c) ==
    /\ Moves(c, "prompting", "idle")
    /\ UNCHANGED <<owner, blocked, archived>>

\* An effect whose outcome is unknown; only a delivery action finds one.
Block ==
    /\ \E c \in Hosts : at[c] = "working"
    /\ blocked' = TRUE
    /\ UNCHANGED <<owner, at, archived>>

\* Reconciliation settles the effect.
Unblock ==
    /\ blocked /\ blocked' = FALSE
    /\ UNCHANGED <<owner, at, archived>>

CleanupBegins_Displacing ==
    /\ ~blocked
    /\ Moves(Cleanup, "idle", "working")
    /\ owner' = [name |-> Cleanup, kind |-> "host"]
    /\ UNCHANGED <<blocked, archived>>

\* cleanup_hold admits against host work only and takes the workspace over.
CleanupBegins ==
    /\ HostFree
    /\ Moves(Cleanup, "idle", "working")
    /\ owner' = [name |-> Cleanup, kind |-> "host"]
    /\ UNCHANGED <<blocked, archived>>

CleanupFails == TeardownFails /\ Leaves(Cleanup, "working")

\* cancel_and_drop stops the reviews; discard forgets holds and blocks.
CleanupEnds ==
    /\ at[Cleanup] = "working"
    /\ at' = [c \in Callers |-> IF c \in Reviews \cup {Cleanup} THEN "idle" ELSE at[c]]
    /\ owner' = Free /\ blocked' = FALSE /\ archived' = TRUE

ReviewNext ==
    \E c \in Reviews :
        \/ ReviewStarts(c) \/ ReviewRuns(c) \/ ReviewRefused(c)
        \/ ReviewExits(c) \/ ReviewFinal(c)
        \/ ReviewLoopsBack(c) \/ LoopBackEnds(c)

TurnNext == \E c \in Turns : TurnAdmitted(c) \/ TurnPrompts(c) \/ TurnEnds(c)

HoldNext ==
    \/ StepBegins \/ Leaves(Step, "working")
    \/ \E c \in Hosts : HostBegins(c) \/ Leaves(c, "working")

CleanupNext == CleanupBegins \/ CleanupFails \/ CleanupEnds

Next ==
    \/ HoldNext \/ ReviewNext \/ TurnNext \/ CleanupNext \/ Block \/ Unblock

Spec == Init /\ [][Next]_vars

-----------------------------------------------------------------------------
HostWork ==
    {c \in Hosts \cup Reviews \cup {Cleanup} : at[c] \in {"capturing", "working", "exiting"}}

TypeOK ==
    /\ owner \in Owners /\ blocked \in BOOLEAN /\ archived \in BOOLEAN
    /\ at \in [Callers -> Places]

\* "Host work excludes everything, including each other": at most one review,
\* draft, delivery, capture or cleanup is inside its hold.
HostExclusive == \A c, d \in HostWork : c = d

\* A host operation at work owns the workspace, under its name, all along: no
\* other caller's exit gives its hold away.
HostOwns ==
    \A c \in HostWork : owner = [name |-> Name(c), kind |-> "host"]

=============================================================================
