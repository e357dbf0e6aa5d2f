------------------------------ MODULE Publication ------------------------------
(***************************************************************************)
(* What the delivery journal promises of a publication: every effect of    *)
(* the chain the operator authorized happens at most once, none begins     *)
(* before the one it builds on is proven, and an effect is given up only   *)
(* when it is known not to have happened.  DeliveryJournal implements it.  *)
(***************************************************************************)
EXTENDS Naturals, Sequences

CONSTANT Chain      \* the effects, in the order in which they build on each other

VARIABLES
    status,         \* position -> "due", "trying" or "done"
    taken           \* position -> the effect has happened

vars == <<status, taken>>

Init ==
    /\ status = [k \in DOMAIN Chain |-> "due"]
    /\ taken = [k \in DOMAIN Chain |-> FALSE]

Step(k, from, to) == status[k] = from /\ status' = [status EXCEPT ![k] = to]

Try(k) ==
    /\ Step(k, "due", "trying")
    /\ \A j \in DOMAIN Chain : j < k => status[j] = "done"
    /\ ~taken[k] /\ UNCHANGED taken

Take(k) ==
    /\ status[k] = "trying" /\ ~taken[k]
    /\ taken' = [taken EXCEPT ![k] = TRUE]
    /\ UNCHANGED status

Drop(k) == Step(k, "trying", "due") /\ ~taken[k] /\ UNCHANGED taken

Confirm(k) == Step(k, "trying", "done") /\ taken[k] /\ UNCHANGED taken

Next == \E k \in DOMAIN Chain : Try(k) \/ Take(k) \/ Drop(k) \/ Confirm(k)

Spec == Init /\ [][Next]_vars
=============================================================================
