----------------------------- MODULE SubAgents -----------------------------
(***************************************************************************)
(* The registry of sub-agents (subagents.go) and the workflows built on it *)
(* (workflows.go, and the spawn and delegate tools of cmd/main.go).        *)
(*                                                                         *)
(* The registry is two concurrent maps.  An entry of "running" holds the   *)
(* channel through which one waiter gets the result, an entry of           *)
(* "results" the result itself.  Each access to a map or a channel is a    *)
(* step, so that Wait, the end of a sub-agent, DeleteResult and the        *)
(* cleanup ticker interleave as the goroutines do.                         *)
(***************************************************************************)
EXTENDS Integers

CONSTANTS
  Flows,       \* calls of a workflow, or of a tool that spawns
  Plans,       \* what the flows may be: functions from Flows to Kinds
  Size         \* Size[f]: agents of the flow, or iterations of the loop

Kinds == {"spawn", "sequential", "parallel", "loop"}
ASSUME FlowAssumption ==
  /\ Plans \subseteq [Flows -> Kinds]
  /\ Size \in [Flows -> Nat \ {0}]

VARIABLES
  kind,        \* what each flow is
  agent,       \* of each id: where its goroutine is
  outcome,     \* what its run ended with
  running,     \* ids with an entry in the map running
  results,     \* ids with an entry in the map results
  channel,     \* ids whose channel holds a result
  wait,        \* of each id: where the one call of Wait is
  got,         \* what that call returned
  flow,        \* of each flow: "idle", "spawning", "waiting", "deleting", ...
  step         \* the agent the flow is at

vars == <<kind, agent, outcome, running, results, channel, wait, got, flow, step>>
registry == <<running, results, channel>>

Ids == UNION {{f} \X (1..Size[f]) : f \in Flows}
IdsOf(f) == {f} \X (1..Size[f])
Fanned(f) == kind[f] = "parallel"
Ended == {"returned", "failed"}

Init ==
  /\ kind \in Plans
  /\ agent = [a \in Ids |-> "none"]
  /\ outcome = [a \in Ids |-> "none"]
  /\ running = {}
  /\ results = {}
  /\ channel = {}
  /\ wait = [a \in Ids |-> "none"]
  /\ got = [a \in Ids |-> "none"]
  /\ flow = [f \in Flows |-> "idle"]
  /\ step = [f \in Flows |-> 1]

-----------------------------------------------------------------------------
\* The goroutine of a sub-agent.

\* agent.Run returns a text or an error.
Finish(a) ==
  /\ agent[a] = "live"
  /\ \E o \in {"text", "error"} : outcome' = [outcome EXCEPT ![a] = o]
  /\ agent' = [agent EXCEPT ![a] = "store"]
  /\ UNCHANGED <<registry, wait, got, flow, step>>

\* Mutant: the entry of running goes first.
StoreAndLeave(a) ==
  /\ agent[a] = "store"
  /\ results' = results \cup {a}
  /\ running' = running \ {a}
  /\ agent' = [agent EXCEPT ![a] = "send"]
  /\ UNCHANGED <<outcome, channel, wait, got, flow, step>>

\* finalize: results.Store, then the channel, then running.Delete.
StoreResult(a) ==
  /\ agent[a] = "store"
  /\ results' = results \cup {a}
  /\ agent' = [agent EXCEPT ![a] = "send"]
  /\ UNCHANGED <<outcome, running, channel, wait, got, flow, step>>

\* Mutant: an error is not sent.
SendTextOnly(a) ==
  /\ agent[a] = "send"
  /\ channel' = IF outcome[a] = "text" THEN channel \cup {a} ELSE channel
  /\ agent' = [agent EXCEPT ![a] = "leave"]
  /\ UNCHANGED <<outcome, running, results, wait, got, flow, step>>

SendResult(a) ==
  /\ agent[a] = "send"
  /\ channel' = channel \cup {a}
  /\ agent' = [agent EXCEPT ![a] = "leave"]
  /\ UNCHANGED <<outcome, running, results, wait, got, flow, step>>

Leave(a) ==
  /\ agent[a] = "leave"
  /\ running' = running \ {a}
  /\ agent' = [agent EXCEPT ![a] = "ended"]
  /\ UNCHANGED <<outcome, results, channel, wait, got, flow, step>>

Finalize(a) == StoreResult(a) \/ SendResult(a) \/ Leave(a)

-----------------------------------------------------------------------------
\* Wait.

\* GetResult finds the stored result, or nothing yet.
LoadResult(a) ==
  /\ wait[a] = "load"
  /\ IF a \in results
     THEN /\ wait' = [wait EXCEPT ![a] = "done"]
          /\ got' = [got EXCEPT ![a] = outcome[a]]
     ELSE /\ wait' = [wait EXCEPT ![a] = "lookup"]
          /\ UNCHANGED got
  /\ UNCHANGED <<agent, outcome, registry, flow, step>>

\* Mutant: an id without a result is unknown.
LookUpSkipped(a) ==
  /\ wait[a] = "lookup"
  /\ wait' = [wait EXCEPT ![a] = "done"]
  /\ got' = [got EXCEPT ![a] = "unknown"]
  /\ UNCHANGED <<agent, outcome, registry, flow, step>>

\* running.Load: an id without an entry is reported as unknown.
LookUp(a) ==
  /\ wait[a] = "lookup"
  /\ IF a \in running
     THEN /\ wait' = [wait EXCEPT ![a] = "receive"]
          /\ UNCHANGED got
     ELSE /\ wait' = [wait EXCEPT ![a] = "done"]
          /\ got' = [got EXCEPT ![a] = "unknown"]
  /\ UNCHANGED <<agent, outcome, registry, flow, step>>

Receive(a) ==
  /\ wait[a] = "receive"
  /\ a \in channel
  /\ channel' = channel \ {a}
  /\ wait' = [wait EXCEPT ![a] = "done"]
  /\ got' = [got EXCEPT ![a] = outcome[a]]
  /\ UNCHANGED <<agent, outcome, running, results, flow, step>>

Wait(a) == LoadResult(a) \/ LookUp(a) \/ Receive(a)

\* Mutant: results of a flow that gave up are kept.
ExpireCollected(a) ==
  /\ a \in results
  /\ wait[a] \in {"receive", "done"} \/ flow[a[1]] = "returned"
  /\ results' = results \ {a}
  /\ UNCHANGED <<agent, outcome, running, channel, wait, got, flow, step>>

\* The cleanup ticker drops a result that is older than five minutes.  By
\* then a flow that is going to wait for it has long called Wait.
Expire(a) ==
  /\ a \in results
  /\ wait[a] \in {"receive", "done"} \/ flow[a[1]] \in Ended
  /\ results' = results \ {a}
  /\ UNCHANGED <<agent, outcome, running, channel, wait, got, flow, step>>

-----------------------------------------------------------------------------
\* The flows.

Begin(f) ==
  /\ flow[f] = "idle"
  /\ flow' = [flow EXCEPT ![f] = "spawning"]
  /\ UNCHANGED <<agent, outcome, registry, wait, got, step>>

\* SpawnWithProvider: an entry in running, then a goroutine; a before_spawn
\* hook that blocks ends the sub-agent with an error at once.
AfterSpawn(f, a) ==
  IF Fanned(f) /\ a[2] < Size[f]
  THEN /\ step' = [step EXCEPT ![f] = @ + 1]
       /\ UNCHANGED <<flow, wait>>
  ELSE IF Fanned(f)
  THEN /\ wait' = [b \in Ids |-> IF b[1] = f THEN "load" ELSE wait[b]]
       /\ flow' = [flow EXCEPT ![f] = "waiting"]
       /\ UNCHANGED step
  ELSE IF kind[f] = "spawn"
  THEN /\ flow' = [flow EXCEPT ![f] = "returned"]
       /\ UNCHANGED <<step, wait>>
  ELSE /\ wait' = [wait EXCEPT ![a] = "load"]
       /\ flow' = [flow EXCEPT ![f] = "waiting"]
       /\ UNCHANGED step

Spawn(f) ==
  LET a == <<f, step[f]>>
  IN /\ flow[f] = "spawning"
     /\ running' = running \cup {a}
     /\ \/ /\ agent' = [agent EXCEPT ![a] = "live"]
           /\ UNCHANGED outcome
        \/ /\ agent' = [agent EXCEPT ![a] = "store"]
           /\ outcome' = [outcome EXCEPT ![a] = "error"]
     /\ AfterSpawn(f, a)
     /\ UNCHANGED <<results, channel, got>>

\* ForkFrom fails: the flow gives up, whatever it has already started.
SpawnFails(f) ==
  /\ flow[f] = "spawning"
  /\ flow' = [flow EXCEPT ![f] = "failed"]
  /\ UNCHANGED <<agent, outcome, registry, wait, got, step>>

\* Wait has returned, in RunParallel for all agents: DeleteResult follows.
Collect(f) ==
  /\ flow[f] = "waiting"
  /\ \A a \in IF Fanned(f) THEN IdsOf(f) ELSE {<<f, step[f]>>} : wait[a] = "done"
  /\ flow' = [flow EXCEPT ![f] = "deleting"]
  /\ step' = IF Fanned(f) THEN [step EXCEPT ![f] = 1] ELSE step
  /\ UNCHANGED <<agent, outcome, registry, wait, got>>

\* Mutant: an error does not end a sequence.
AdvanceAnyway(f, a) ==
  \/ /\ a[2] < Size[f]
     /\ flow' = [flow EXCEPT ![f] = IF Fanned(f) THEN "deleting" ELSE "spawning"]
     /\ step' = [step EXCEPT ![f] = @ + 1]
  \/ /\ a[2] = Size[f]
     /\ flow' = [flow EXCEPT ![f] = "returned"] /\ UNCHANGED step

\* The step after an agent whose result has been dropped.
Advance(f, a) ==
  \/ /\ Fanned(f) /\ a[2] < Size[f]
     /\ step' = [step EXCEPT ![f] = @ + 1] /\ UNCHANGED flow
  \/ /\ Fanned(f) /\ a[2] = Size[f]
     /\ flow' = [flow EXCEPT ![f] = "returned"] /\ UNCHANGED step
  \/ /\ ~Fanned(f) /\ got[a] # "text"
     /\ flow' = [flow EXCEPT ![f] = "failed"] /\ UNCHANGED step
  \/ /\ ~Fanned(f) /\ got[a] = "text"
     /\ a[2] = Size[f] \/ kind[f] = "loop"      \* the last one, or shouldStop
     /\ flow' = [flow EXCEPT ![f] = "returned"] /\ UNCHANGED step
  \/ /\ ~Fanned(f) /\ got[a] = "text" /\ a[2] < Size[f]
     /\ flow' = [flow EXCEPT ![f] = "spawning"]
     /\ step' = [step EXCEPT ![f] = @ + 1]

DeleteResult(f) ==
  LET a == <<f, step[f]>>
  IN /\ flow[f] = "deleting"
     /\ results' = results \ {a}
     /\ Advance(f, a)
     /\ UNCHANGED <<agent, outcome, running, channel, wait, got>>

-----------------------------------------------------------------------------
FlowStep(f) == Spawn(f) \/ SpawnFails(f) \/ Collect(f) \/ DeleteResult(f)
AgentStep(a) == Finish(a) \/ Finalize(a)
Next ==
  /\ \/ \E f \in Flows : Begin(f) \/ FlowStep(f)
     \/ \E a \in Ids : AgentStep(a) \/ Wait(a) \/ Expire(a)
  /\ UNCHANGED kind

Spec == Init /\ [][Next]_vars

\* Goroutines are scheduled, a run ends (MaxTurns bounds it) and the ticker
\* comes round.
Fairness ==
  /\ \A f \in Flows : WF_vars(FlowStep(f) /\ UNCHANGED kind)
  /\ \A a \in Ids : /\ WF_vars(AgentStep(a) /\ UNCHANGED kind)
                     /\ WF_vars(Wait(a) /\ UNCHANGED kind)
                     /\ WF_vars(Expire(a) /\ UNCHANGED kind)
FairSpec == Spec /\ Fairness

-----------------------------------------------------------------------------
(* Properties.                                                             *)

\* Every variable has values of its kind; the maps hold ids of sub-agents.
TypeOK ==
  /\ kind \in Plans
  /\ agent \in [Ids -> {"none", "live", "store", "send", "leave", "ended"}]
  /\ outcome \in [Ids -> {"none", "text", "error"}]
  /\ running \subseteq Ids /\ results \subseteq Ids /\ channel \subseteq Ids
  /\ wait \in [Ids -> {"none", "load", "lookup", "receive", "done"}]
  /\ got \in [Ids -> {"none", "text", "error", "unknown"}]
  /\ flow \in [Flows -> {"idle", "spawning", "waiting", "deleting"} \cup Ended]
  /\ step \in [Flows -> Nat] /\ \A f \in Flows : step[f] \in 1..Size[f]

\* A sequential workflow or a loop never starts an agent after one that
\* failed: no agent is given the output of an error (workflows.go:53-55).
ErrorStopsFlow ==
  \A a \in Ids :
    kind[a[1]] \in {"sequential", "loop"} /\ a[2] > 1 /\ agent[a] # "none"
      => \A i \in 1..a[2] - 1 : outcome[<<a[1], i>>] = "text"

\* A workflow that waits for its agents never returns while one of them is
\* still at work, even when Wait reports it as unknown (subagents.go:254-265).
ReturnedMeansDone ==
  \A f \in Flows :
    flow[f] = "returned" /\ kind[f] # "spawn"
      => \A a \in IdsOf(f) : agent[a] \in {"none", "send", "leave", "ended"}

\* A workflow that has waited for its agents leaves none of their results in
\* the registry: every result is stored before it can be waited for and
\* deleted after (subagents.go:222-228, workflows.go:107-109).
NothingLeftBehind ==
  \A f \in Flows :
    flow[f] = "returned" /\ kind[f] # "spawn"
      => \A a \in IdsOf(f) : a \notin results /\ agent[a] # "store"

\* Both: a workflow that has returned is over, in the registry as well.
ReturnedClean == ReturnedMeansDone /\ NothingLeftBehind

\* No result stays in the registry for ever, not even one that nobody waits
\* for or whose workflow gave up (subagents.go:273-286).
ResultsForgotten == \A a \in Ids : a \in results ~> a \notin results

\* Wait returns what the sub-agent ended with, or else calls it unknown, and that
\* only when its end falls between the two lookups: its answer has been stored and
\* sent by then, and stays in the channel, where nobody takes it from.  Wait's
\* comment promises the stored result there too (subagents.go:247-261).
WaitAnswers ==
  \A a \in Ids : wait[a] = "done" =>
    \/ got[a] = outcome[a] /\ outcome[a] # "none"
    \/ got[a] = "unknown" /\ agent[a] = "ended" /\ a \in channel

\* A workflow that was started comes to an end, with its results or with an error,
\* be it that of WaitAnswers for an agent that has answered: no waiter is left
\* behind, wherever the end of a sub-agent finds it (subagents.go:222-265).
FlowsReturn == \A f \in Flows : flow[f] = "spawning" ~> flow[f] \in Ended

=============================================================================
