---------------------------- MODULE MCSubAgents ----------------------------
(* A workflow of each kind beside a sub-agent that nobody waits for.        *)
EXTENDS SubAgents

CONSTANTS flow1, lone
MCPlans == {[f \in Flows |-> IF f = lone THEN "spawn" ELSE k] :
              k \in {"sequential", "parallel", "loop"}}
MCSize == [f \in Flows |-> IF f = lone THEN 1 ELSE 2]
=============================================================================
