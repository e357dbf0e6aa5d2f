-------------------------- MODULE MCTaskLifecycle --------------------------
(* Two tasks of one slug; none of the constants needs a definition.         *)
EXTENDS TaskLifecycle
=============================================================================
