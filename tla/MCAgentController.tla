------------------------- MODULE MCAgentController -------------------------
(* Small instances of AgentController for TLC; the .cfg files choose them. *)
EXTENDS AgentController, TLC

AllModes == {Reliable, Fragile}
OneMode  == {Free}
=============================================================================
