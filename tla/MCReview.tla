------------------------------- MODULE MCReview -------------------------------
(* Review with a step, one other host operation, two reviews and one turn.  *)
EXTENDS Review

CONSTANTS deliver, r1, r2, turn

MCHosts == {deliver}
MCReviews == {r1, r2}
MCTurns == {turn}
=============================================================================
