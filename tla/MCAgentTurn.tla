----------------------------- MODULE MCAgentTurn -----------------------------
(* TLC instances of AgentTurn.                                              *)
EXTENDS AgentTurn

CONSTANTS registered, invented   \* a tool of TOOLS and a made-up name

MCNames == {registered, invented}
MCTools == {registered}
=============================================================================
