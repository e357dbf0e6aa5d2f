-------------------------- MODULE MCResultRetention --------------------------
(* ResultRetention on one revision, one consumer and one thread.  *)
EXTENDS ResultRetention
==============================================================================
