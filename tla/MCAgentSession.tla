--------------------------- MODULE MCAgentSession ---------------------------
(* Instance of AgentSession: the fault sets of the configurations.          *)
EXTENDS AgentSession

NoFaults == {}
AllFaults == FaultKinds
=============================================================================
