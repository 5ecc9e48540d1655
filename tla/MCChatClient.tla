----------------------------- MODULE MCChatClient -----------------------------
(* TLC instances of ChatClient.                                             *)
EXTENDS ChatClient

CONSTANTS query, aggregate

OneName == {query}
TwoNames == {query, aggregate}
=============================================================================
