----------------------------- MODULE MCSessions -----------------------------
EXTENDS Sessions

\* The second step wants another thinking level, the third another helper.
ThreeSteps == <<[active |-> 1, aux |-> 1], [active |-> 2, aux |-> 1], [active |-> 2, aux |-> 2]>>
=============================================================================
