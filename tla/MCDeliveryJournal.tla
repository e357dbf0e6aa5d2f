-------------------------- MODULE MCDeliveryJournal --------------------------
(* DeliveryJournal with the longest ending a workflow can authorize, under  *)
(* three conditions: certain calls, everything at once, and calls that may  *)
(* land late with nothing else going wrong.                                 *)
EXTENDS DeliveryJournal

FullChain == <<"commit", "push", "pr">>

Faults       == {"retry", "uninstalled", "unverified"}
AllDecisions == {"recheck", "adopt", "retry", "abandon"}

MCConditions ==
    {[decisions |-> AllDecisions \ {"abandon"}, happens |-> Faults],
     [decisions |-> AllDecisions, happens |-> Faults \cup {"late"}],
     [decisions |-> AllDecisions, happens |-> {"late"}]}
=============================================================================
