---------------------------- MODULE MCAgentLoop ----------------------------
(***************************************************************************)
(* Instances of AgentLoop: the main agent alone, with a sub-agent, and with *)
(* the screen that carries out /compact.                                    *)
(***************************************************************************)
EXTENDS AgentLoop

CONSTANTS main, sub, screen

MCHandles == {main, sub}
MCHandleOf == [l \in Loops |-> IF l = sub THEN sub ELSE main]

=============================================================================
