-------------------------- MODULE MCReconciliation --------------------------
(* One project and one task from before the upgrade.                         *)
EXTENDS Reconciliation

Row(step, kind, status, outcome) ==
    [step |-> step, kind |-> kind, status |-> status, pause |-> FALSE, outcome |-> outcome]

\* Nothing yet, an interrupted turn, a declared gate, and the old escalation.
MCHistories ==
    {<< >>,
     <<Row("work", "agent", "running", FALSE)>>,
     <<Row("work", "agent", "ok", TRUE), Row("ask", "gate", "waiting", FALSE)>>,
     <<Row("route", "decision", "ok", FALSE), Row("route", "gate", "waiting", FALSE)>>}

\* The shape the history has, one that renamed a kind, and one that reads
\* results by declared name.
MCDefinition ==
    [same    |-> [steps |-> [work |-> "agent", route |-> "decision", ask |-> "gate"],
                  environment |-> FALSE, named |-> FALSE],
     rewritten |-> [steps |-> [work |-> "agent", route |-> "gate"],
                  environment |-> FALSE, named |-> FALSE],
     renewed |-> [steps |-> [work |-> "agent", route |-> "decision", ask |-> "gate"],
                  environment |-> FALSE, named |-> TRUE]]
MCRevisions == DOMAIN MCDefinition
=============================================================================
