------------------------- MODULE MCAgentInvocation -------------------------
(* An instance of AgentInvocation: two first attempts in one session.        *)
EXTENDS AgentInvocation

CONSTANTS p1, a, b, i1, i4

MCProcessOf == [c \in Calls |-> p1]
MCTargetOf == [c \in Calls |-> IF c = a THEN i1 ELSE i4]
MCParentOf == [i \in Invocations |-> None]
MCPromptOf == [c \in Calls |-> "same"]
=============================================================================
