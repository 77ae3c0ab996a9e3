--------------------------- MODULE MCFeedbackTask ---------------------------
(* Small instances of FeedbackTask for TLC.                                 *)
EXTENDS FeedbackTask

CONSTANTS w1, w2, c1, c2
=============================================================================
