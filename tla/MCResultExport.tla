----------------------------- MODULE MCResultExport -----------------------------
(* ResultExport on small checkouts.  Exports differ by their requests alone,  *)
(* so states that exchange them are one.                                      *)
EXTENDS ResultExport, TLC

Symmetry == Permutations(Exports)
=============================================================================
