-------------------------- MODULE MCWorkflowLibrary --------------------------
(* Two packages that ship the shared step in two versions and one built-in.  *)
EXTENDS WorkflowLibrary, TLC

Uses(bound) == [kind |-> "uses", bound |-> bound, snapshot |-> Unshared, of |-> << >>]
Own(body)   == [kind |-> "own", body |-> body, of |-> << >>]

MCNames    == {"review", "mine"}
MCPackages == {"old", "new"}
MCCatalog ==
    [old |-> [body |-> "ask", default |-> "twice"],
     new |-> [body |-> "ask-again", default |-> None]]
MCShips ==
    [old |-> [review |-> Uses(None), mine |-> NoText],
     new |-> [review |-> Uses("once"), mine |-> Own("shipped")]]
MCSymmetry == Permutations(Editors)
MCSources == {Own("work"), Uses(None)}
=============================================================================
