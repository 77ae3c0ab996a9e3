---------------------------- MODULE MCAgentTurn ----------------------------
(* Three calls in the budget, two per response, three attempts per request,  *)
(* up to four turns of history of which two are kept.                        *)
EXTENDS AgentTurn
=============================================================================
