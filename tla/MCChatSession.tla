--------------------------- MODULE MCChatSession ---------------------------
(* Instances of ChatSession for TLC: contents are interchangeable. *)
EXTENDS ChatSession, TLC

Symmetric == Permutations(Content)
=============================================================================
