---------------------------- MODULE MCCaseIndex ----------------------------
(* Small instances of CaseIndex for TLC.                                    *)
EXTENDS CaseIndex

CONSTANTS b1, b2, b3, u1, u2
=============================================================================
