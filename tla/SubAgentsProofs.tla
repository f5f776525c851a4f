-------------------------- MODULE SubAgentsProofs --------------------------
(***************************************************************************)
(* Theorems of SubAgents, for any number of flows of any size and every    *)
(* interleaving of their goroutines with the cleanup ticker.               *)
(*                                                                         *)
(* An id is in the maps as its goroutine is placed (AgentOK); whoever has  *)
(* waited for it found it past its stored result, also when it is reported *)
(* as unknown.  A flow goes through its ids in order (PlaceOK).            *)
(***************************************************************************)
EXTENDS SubAgents, TLAPS

Stored == {"send", "leave", "ended"}

\* A call of Wait that has returned, see WaitAnswers.
Answered(a) ==
  \/ got[a] = outcome[a] /\ outcome[a] # "none"
  \/ got[a] = "unknown" /\ agent[a] = "ended" /\ a \in channel

AgentOK(a) ==
  /\ a \in running <=> agent[a] \in {"live", "store", "send", "leave"}
  /\ a \in results => agent[a] \in Stored
  /\ a \in channel => agent[a] \in {"leave", "ended"}
  /\ outcome[a] = "none" <=> agent[a] \in {"none", "live"}
  /\ wait[a] # "none" => agent[a] # "none"
  /\ wait[a] = "done" => agent[a] \in Stored
  /\ got[a] = "text" => outcome[a] = "text"
  /\ wait[a] = "done" => Answered(a)
  /\ wait[a] # "done" /\ agent[a] \in {"leave", "ended"} => a \in channel

Collected(a) == wait[a] = "done" /\ a \notin results
NotYet(f) == flow[f] \in {"idle", "spawning"}

\* Behind its step a flow has collected what it started, ahead of it nothing
\* was started; RunParallel starts all its ids, then collects them all.
PlaceOK(a) ==
  LET f == a[1]
      i == a[2]
  IN /\ NotYet(f) /\ i >= step[f] => agent[a] = "none"
     /\ ~Fanned(f) /\ i > step[f] => agent[a] = "none"
     /\ ~Fanned(f) /\ i < step[f] => Collected(a) /\ got[a] = "text"
     /\ ~Fanned(f) /\ flow[f] = "deleting" /\ i = step[f] => wait[a] = "done"
     /\ Fanned(f) /\ NotYet(f) /\ i < step[f] => agent[a] # "none"
     /\ Fanned(f) /\ NotYet(f) => wait[a] = "none"
     /\ Fanned(f) /\ flow[f] = "deleting" => wait[a] = "done"
     /\ Fanned(f) /\ flow[f] = "deleting" /\ i < step[f] => Collected(a)
     /\ flow[f] = "returned" /\ kind[f] # "spawn" /\ (Fanned(f) \/ i = step[f]) => Collected(a)

Inv == TypeOK /\ \A a \in Ids : AgentOK(a) /\ PlaceOK(a)

-----------------------------------------------------------------------------
LEMMA IdsArePairs ==
  /\ \A f \in Flows : \A i \in 1..Size[f] : <<f, i>> \in Ids
  /\ \A a \in Ids : a[1] \in Flows /\ a[2] \in 1..Size[a[1]] /\ a = <<a[1], a[2]>>
  BY DEF Ids

LEMMA InitInv == Init => Inv
<1> SUFFICES ASSUME Init PROVE Inv
  OBVIOUS
<1>1. TypeOK
  BY FlowAssumption DEF Init, TypeOK
<1>2. ASSUME NEW a \in Ids PROVE AgentOK(a) /\ PlaceOK(a)
  BY IdsArePairs DEF Init, AgentOK, Answered, PlaceOK, NotYet, Collected, Stored
<1> QED
  BY <1>1, <1>2 DEF Inv

LEMMA QuietStep == Inv /\ UNCHANGED vars => Inv'
  BY DEF Inv, vars, TypeOK, AgentOK, Answered, PlaceOK, NotYet, Collected, Fanned

\* A step of one sub-agent leaves the others alone.
Others(a) == \A b \in Ids \ {a} :
  /\ agent'[b] = agent[b] /\ outcome'[b] = outcome[b] /\ wait'[b] = wait[b] /\ got'[b] = got[b]
  /\ b \in running' <=> b \in running
  /\ b \in results' <=> b \in results
  /\ b \in channel' <=> b \in channel

LEMMA OneAgent ==
  ASSUME Inv, NEW a \in Ids, Others(a), UNCHANGED <<kind, flow, step>>, TypeOK',
         AgentOK(a)', PlaceOK(a)'
  PROVE  Inv'
<1> SUFFICES ASSUME NEW b \in Ids PROVE (AgentOK(b) /\ PlaceOK(b))'
  BY DEF Inv
<1>1. CASE b = a
  BY <1>1
<1>2. CASE b # a
  BY <1>2, IdsArePairs DEF Inv, Others, AgentOK, Answered, PlaceOK, NotYet, Collected, Fanned
<1> QED
  BY <1>1, <1>2

LEMMA AgentStepInv ==
  ASSUME Inv, UNCHANGED kind, NEW a \in Ids, AgentStep(a) \/ Wait(a) \/ Expire(a)
  PROVE  Inv'
<1> USE DEF TypeOK
<1>0. TypeOK /\ AgentOK(a) /\ PlaceOK(a) /\ a[1] \in Flows
  BY IdsArePairs DEF Inv
<1> USE DEF AgentOK, Answered, PlaceOK, NotYet, Collected, Fanned, Stored, Others, registry, Ended
<1>1. CASE Finish(a)
  <2>1. TypeOK' /\ Others(a)
    BY <1>0, <1>1 DEF Finish
  <2>2. AgentOK(a)'
    BY <1>0, <1>1 DEF Finish
  <2>3. PlaceOK(a)'
    BY <1>0, <1>1 DEF Finish
  <2> QED
    BY <1>1, <2>1, <2>2, <2>3, OneAgent DEF Finish
<1>2. CASE StoreResult(a)
  <2>1. TypeOK' /\ Others(a)
    BY <1>0, <1>2 DEF StoreResult
  <2>2. AgentOK(a)'
    BY <1>0, <1>2 DEF StoreResult
  <2>3. PlaceOK(a)'
    BY <1>0, <1>2 DEF StoreResult
  <2> QED
    BY <1>2, <2>1, <2>2, <2>3, OneAgent DEF StoreResult
<1>3. CASE SendResult(a)
  <2>1. TypeOK' /\ Others(a)
    BY <1>0, <1>3 DEF SendResult
  <2>2. AgentOK(a)'
    BY <1>0, <1>3 DEF SendResult
  <2>3. PlaceOK(a)'
    BY <1>0, <1>3 DEF SendResult
  <2> QED
    BY <1>3, <2>1, <2>2, <2>3, OneAgent DEF SendResult
<1>4. CASE Leave(a)
  <2>1. TypeOK' /\ Others(a)
    BY <1>0, <1>4 DEF Leave
  <2>2. AgentOK(a)'
    BY <1>0, <1>4 DEF Leave
  <2>3. PlaceOK(a)'
    BY <1>0, <1>4 DEF Leave
  <2> QED
    BY <1>4, <2>1, <2>2, <2>3, OneAgent DEF Leave
<1>5. CASE LoadResult(a)
  <2>1. TypeOK' /\ Others(a)
    BY <1>0, <1>5 DEF LoadResult
  <2>2. AgentOK(a)'
    BY <1>0, <1>5 DEF LoadResult
  <2>3. PlaceOK(a)'
    BY <1>0, <1>5 DEF LoadResult
  <2> QED
    BY <1>5, <2>1, <2>2, <2>3, OneAgent DEF LoadResult
<1>6. CASE LookUp(a)
  <2>1. TypeOK' /\ Others(a)
    BY <1>0, <1>6 DEF LookUp
  <2>2. AgentOK(a)'
    BY <1>0, <1>6 DEF LookUp
  <2>3. PlaceOK(a)'
    BY <1>0, <1>6 DEF LookUp
  <2> QED
    BY <1>6, <2>1, <2>2, <2>3, OneAgent DEF LookUp
<1>7. CASE Receive(a)
  <2>1. TypeOK' /\ Others(a)
    BY <1>0, <1>7 DEF Receive
  <2>2. AgentOK(a)'
    BY <1>0, <1>7 DEF Receive
  <2>3. PlaceOK(a)'
    BY <1>0, <1>7 DEF Receive
  <2> QED
    BY <1>7, <2>1, <2>2, <2>3, OneAgent DEF Receive
<1>8. CASE Expire(a)
  <2>1. TypeOK' /\ Others(a)
    BY <1>0, <1>8 DEF Expire
  <2>2. AgentOK(a)'
    BY <1>0, <1>8 DEF Expire
  <2>3. PlaceOK(a)'
    BY <1>0, <1>8 DEF Expire
  <2> QED
    BY <1>8, <2>1, <2>2, <2>3, OneAgent DEF Expire
<1> QED
  BY <1>1, <1>2, <1>3, <1>4, <1>5, <1>6, <1>7, <1>8 DEF AgentStep, Finalize, Wait

-----------------------------------------------------------------------------
\* A step of a flow leaves the ids of the other flows alone.
Aside(f) ==
  /\ \A g \in Flows \ {f} : flow'[g] = flow[g] /\ step'[g] = step[g]
  /\ \A b \in Ids : b[1] # f =>
       /\ agent'[b] = agent[b] /\ outcome'[b] = outcome[b] /\ wait'[b] = wait[b]
       /\ got'[b] = got[b]
       /\ b \in running' <=> b \in running
       /\ b \in results' <=> b \in results
       /\ b \in channel' <=> b \in channel

LEMMA OneFlow ==
  ASSUME Inv, UNCHANGED kind, NEW f \in Flows, Aside(f), TypeOK',
         \A b \in Ids : b[1] = f => (AgentOK(b) /\ PlaceOK(b))'
  PROVE  Inv'
<1> SUFFICES ASSUME NEW b \in Ids PROVE (AgentOK(b) /\ PlaceOK(b))'
  BY DEF Inv
<1>1. CASE b[1] = f
  BY <1>1
<1>2. CASE b[1] # f
  BY <1>2, IdsArePairs DEF Inv, Aside, AgentOK, Answered, PlaceOK, NotYet, Collected, Fanned
<1> QED
  BY <1>1, <1>2

\* A step of a flow that starts, ends or waits only.
LEMMA TurnStep ==
  ASSUME Inv, UNCHANGED kind, NEW f \in Flows, Begin(f) \/ SpawnFails(f) \/ Collect(f)
  PROVE  Inv'
<1>1. /\ UNCHANGED <<agent, outcome, registry, wait, got>> /\ TypeOK' /\ Aside(f)
  BY FlowAssumption
  DEF Inv, TypeOK, Begin, SpawnFails, Collect, Aside, Fanned, Ended, registry
<1>2. ASSUME NEW b \in Ids, b[1] = f PROVE (AgentOK(b) /\ PlaceOK(b))'
  <2>1. AgentOK(b)'
    BY <1>1 DEF Inv, AgentOK, Answered, registry
  <2>2. /\ PlaceOK(b) /\ TypeOK /\ b[2] \in 1..Size[f] /\ step[f] \in 1..Size[f] /\ Size[f] \in Nat
        /\ b \in IdsOf(f) /\ (b[2] = step[f] => b = <<f, step[f]>>)
    BY <1>2, IdsArePairs, FlowAssumption DEF Inv, TypeOK, IdsOf
  <2>3. CASE Begin(f)
    <3>1. flow[f] = "idle" /\ flow'[f] = "spawning" /\ step'[f] = step[f]
      BY <2>2, <2>3 DEF TypeOK, Begin
    <3> QED
      BY <1>1, <1>2, <2>1, <2>2, <3>1 DEF PlaceOK, NotYet, Collected, Fanned, registry
  <2>4. CASE SpawnFails(f)
    <3>1. flow[f] = "spawning" /\ flow'[f] = "failed" /\ step'[f] = step[f]
      BY <2>2, <2>4 DEF TypeOK, SpawnFails
    <3> QED
      BY <1>1, <1>2, <2>1, <2>2, <3>1 DEF PlaceOK, NotYet, Collected, Fanned, registry
  <2>5. CASE Collect(f) /\ Fanned(f)
    <3>1. flow'[f] = "deleting" /\ step'[f] = 1 /\ wait[b] = "done"
      BY <1>2, <2>2, <2>5 DEF TypeOK, Collect
    <3> QED
      BY <1>1, <1>2, <2>1, <2>2, <2>5, <3>1 DEF PlaceOK, NotYet, Collected, Fanned, registry
  <2>6. CASE Collect(f) /\ ~Fanned(f)
    <3>1. flow'[f] = "deleting" /\ step'[f] = step[f] /\ wait[<<f, step[f]>>] = "done"
      BY <2>6 DEF Inv, TypeOK, Collect
    <3> QED
      BY <1>1, <1>2, <2>1, <2>2, <2>6, <3>1 DEF PlaceOK, NotYet, Collected, Fanned, registry
  <2> QED
    BY <2>1, <2>3, <2>4, <2>5, <2>6
<1> QED
  BY <1>1, <1>2, OneFlow

LEMMA SpawnStep ==
  ASSUME Inv, UNCHANGED kind, NEW f \in Flows, Spawn(f)
  PROVE  Inv'
<1> DEFINE a == <<f, step[f]>>
<1>1. /\ a \in Ids /\ AgentOK(a) /\ agent[a] = "none" /\ wait[a] = "none" /\ step[f] \in 1..Size[f]
      /\ Size[f] \in Nat /\ flow[f] = "spawning"
  <2>1. a \in Ids /\ flow[f] = "spawning" /\ step[f] \in 1..Size[f] /\ Size[f] \in Nat
    BY IdsArePairs, FlowAssumption DEF Inv, TypeOK, Spawn
  <2>2. AgentOK(a) /\ PlaceOK(a)
    BY <2>1 DEF Inv
  <2> QED
    BY <2>1, <2>2 DEF AgentOK, PlaceOK, NotYet
<1>2. TypeOK'
  <2>1. /\ agent' \in [Ids -> {"none", "live", "store", "send", "leave", "ended"}]
        /\ outcome' \in [Ids -> {"none", "text", "error"}]
        /\ running' \subseteq Ids /\ UNCHANGED <<results, channel, got>>
    BY <1>1 DEF Inv, TypeOK, Spawn
  <2>2. step' \in [Flows -> Nat] /\ \A g \in Flows : step'[g] \in 1..Size[g]
    BY <1>1 DEF Inv, TypeOK, Spawn, AfterSpawn
  <2>3. /\ wait' \in [Ids -> {"none", "load", "lookup", "receive", "done"}]
        /\ flow' \in [Flows -> {"idle", "spawning", "waiting", "deleting"} \cup Ended]
    BY <1>1 DEF Inv, TypeOK, Spawn, AfterSpawn, Ended
  <2> QED
    BY <2>1, <2>2, <2>3 DEF Inv, TypeOK
<1>3. /\ running' = running \cup {a} /\ UNCHANGED <<results, channel, got>>
      /\ agent'[a] \in {"live", "store"} /\ (outcome'[a] = "none" <=> agent'[a] = "live")
      /\ \A b \in Ids : b # a => agent'[b] = agent[b] /\ outcome'[b] = outcome[b]
  BY <1>1 DEF Inv, TypeOK, AgentOK, Spawn
<1>4. /\ \A g \in Flows \ {f} : flow'[g] = flow[g] /\ step'[g] = step[g]
      /\ \A b \in Ids : b[1] # f => wait'[b] = wait[b]
  BY <1>1 DEF Inv, TypeOK, Spawn, AfterSpawn
<1>5. Aside(f)
  BY <1>3, <1>4 DEF Aside
<1>6. ASSUME NEW b \in Ids, b[1] = f PROVE (AgentOK(b) /\ PlaceOK(b))'
  <2>1. /\ AgentOK(b) /\ PlaceOK(b) /\ TypeOK
        /\ b[2] \in 1..Size[f] /\ b = <<f, b[2]>> /\ (b = a <=> b[2] = step[f])
    BY <1>6, IdsArePairs DEF Inv
  <2>2. CASE Fanned(f) /\ step[f] < Size[f]
    <3>1. step'[f] = step[f] + 1 /\ UNCHANGED <<flow, wait>>
      BY <1>1, <2>1, <2>2 DEF Spawn, AfterSpawn, TypeOK
    <3>2. AgentOK(b)'
      BY <1>1, <1>3, <2>1, <3>1 DEF AgentOK, Answered, Stored
    <3>3. PlaceOK(b)'
      BY <1>1, <1>3, <1>6, <2>1, <2>2, <3>1 DEF PlaceOK, NotYet, Collected, Fanned
    <3> QED
      BY <3>2, <3>3
  <2>3. CASE Fanned(f) /\ step[f] = Size[f]
    <3>1. flow'[f] = "waiting" /\ step'[f] = step[f] /\ wait'[b] = "load"
      BY <1>1, <1>6, <2>1, <2>3 DEF Spawn, AfterSpawn, TypeOK
    <3>2. /\ b # a => agent[b] # "none"
          /\ wait[b] = "none"
      BY <1>1, <1>6, <2>1, <2>3 DEF PlaceOK, NotYet
    <3>3. AgentOK(b)'
      BY <1>1, <1>3, <2>1, <3>1, <3>2 DEF AgentOK, Answered, Stored
    <3>4. PlaceOK(b)'
      BY <1>1, <1>6, <2>1, <2>3, <3>1 DEF PlaceOK, NotYet, Collected, Fanned
    <3> QED
      BY <3>3, <3>4
  <2>4. CASE kind[f] = "spawn"
    <3>1. flow'[f] = "returned" /\ step'[f] = step[f] /\ UNCHANGED wait
      BY <1>1, <2>1, <2>4 DEF Spawn, AfterSpawn, TypeOK, Fanned
    <3>2. AgentOK(b)'
      BY <1>1, <1>3, <2>1, <3>1 DEF AgentOK, Answered, Stored
    <3>3. PlaceOK(b)'
      BY <1>1, <1>3, <1>6, <2>1, <2>4, <3>1 DEF PlaceOK, NotYet, Collected, Fanned
    <3> QED
      BY <3>2, <3>3
  <2>5. CASE ~Fanned(f) /\ kind[f] # "spawn"
    <3>1. flow'[f] = "waiting" /\ step'[f] = step[f] /\ wait'[b] = IF b = a THEN "load" ELSE wait[b]
      BY <1>1, <2>1, <2>5 DEF Spawn, AfterSpawn, TypeOK
    <3>2. AgentOK(b)'
      BY <1>1, <1>3, <2>1, <3>1 DEF AgentOK, Answered, Stored
    <3>3. PlaceOK(b)'
      BY <1>1, <1>3, <1>6, <2>1, <2>5, <3>1 DEF PlaceOK, NotYet, Collected, Fanned
    <3> QED
      BY <3>2, <3>3
  <2> QED
    BY <1>1, <2>2, <2>3, <2>4, <2>5
<1> QED
  BY <1>2, <1>5, <1>6, OneFlow

LEMMA DeleteStep ==
  ASSUME Inv, UNCHANGED kind, NEW f \in Flows, DeleteResult(f)
  PROVE  Inv'
<1> DEFINE a == <<f, step[f]>>
<1>1. /\ a \in Ids /\ a[1] = f /\ a[2] = step[f] /\ step[f] \in 1..Size[f] /\ Size[f] \in Nat
      /\ flow[f] = "deleting" /\ results' = results \ {a} /\ Advance(f, a)
      /\ UNCHANGED <<agent, outcome, running, channel, wait, got>>
  BY IdsArePairs, FlowAssumption DEF Inv, TypeOK, DeleteResult
<1>2. wait[a] = "done"
  BY <1>1 DEF Inv, PlaceOK
<1>3. TypeOK'
  BY <1>1 DEF Inv, TypeOK, Advance, Ended
<1>4. Aside(f)
  BY <1>1 DEF Inv, TypeOK, Advance, Aside
<1>5. ASSUME NEW b \in Ids, b[1] = f PROVE (AgentOK(b) /\ PlaceOK(b))'
  <2>1. /\ AgentOK(b) /\ PlaceOK(b) /\ TypeOK
        /\ b[2] \in 1..Size[f] /\ b = <<f, b[2]>> /\ (b = a <=> b[2] = step[f])
    BY <1>5, IdsArePairs DEF Inv
  <2>2. AgentOK(b)'
    BY <1>1, <2>1 DEF AgentOK, Answered
  <2>3. CASE Fanned(f) /\ step[f] < Size[f] /\ step' = [step EXCEPT ![f] = @ + 1] /\ UNCHANGED flow
    <3>1. flow'[f] = flow[f] /\ step'[f] = step[f] + 1
      BY <2>1, <2>3 DEF TypeOK
    <3> QED
      BY <1>1, <1>2, <1>5, <2>1, <2>2, <2>3, <3>1 DEF PlaceOK, NotYet, Collected, Fanned
  <2>4. CASE Fanned(f) /\ step[f] = Size[f] /\ flow' = [flow EXCEPT ![f] = "returned"] /\ UNCHANGED step
    <3>1. flow'[f] = "returned" /\ step'[f] = step[f]
      BY <2>1, <2>4 DEF TypeOK
    <3> QED
      BY <1>1, <1>2, <1>5, <2>1, <2>2, <2>4, <3>1 DEF PlaceOK, NotYet, Collected, Fanned
  <2>5. CASE ~Fanned(f) /\ flow' = [flow EXCEPT ![f] = "failed"] /\ UNCHANGED step
    <3>1. flow'[f] = "failed" /\ step'[f] = step[f]
      BY <2>1, <2>5 DEF TypeOK
    <3> QED
      BY <1>1, <1>2, <1>5, <2>1, <2>2, <2>5, <3>1 DEF PlaceOK, NotYet, Collected, Fanned
  <2>6. CASE ~Fanned(f) /\ flow' = [flow EXCEPT ![f] = "returned"] /\ UNCHANGED step
    <3>1. flow'[f] = "returned" /\ step'[f] = step[f]
      BY <2>1, <2>6 DEF TypeOK
    <3> QED
      BY <1>1, <1>2, <1>5, <2>1, <2>2, <2>6, <3>1 DEF PlaceOK, NotYet, Collected, Fanned
  <2>7. CASE ~Fanned(f) /\ got[a] = "text" /\ step[f] < Size[f]
             /\ flow' = [flow EXCEPT ![f] = "spawning"] /\ step' = [step EXCEPT ![f] = @ + 1]
    <3>1. flow'[f] = "spawning" /\ step'[f] = step[f] + 1
      BY <2>1, <2>7 DEF TypeOK
    <3> QED
      BY <1>1, <1>2, <1>5, <2>1, <2>2, <2>7, <3>1 DEF PlaceOK, NotYet, Collected, Fanned
  <2> QED
    BY <1>1, <2>2, <2>3, <2>4, <2>5, <2>6, <2>7 DEF Advance
<1> QED
  BY <1>3, <1>4, <1>5, OneFlow

LEMMA NextStep == Inv /\ [Next]_vars => Inv'
<1> SUFFICES ASSUME Inv, [Next]_vars PROVE Inv'
  OBVIOUS
<1>1. CASE UNCHANGED vars
  BY <1>1, QuietStep
<1>2. ASSUME UNCHANGED kind, NEW f \in Flows, Begin(f) \/ FlowStep(f) PROVE Inv'
  BY <1>2, TurnStep, SpawnStep, DeleteStep DEF FlowStep
<1>3. ASSUME UNCHANGED kind, NEW a \in Ids, AgentStep(a) \/ Wait(a) \/ Expire(a) PROVE Inv'
  BY <1>3, AgentStepInv
<1> QED
  BY <1>1, <1>2, <1>3 DEF Next

\* The two maps of the registry follow the goroutines (subagents.go:222-228),
\* and every flow goes through its ids in order (workflows.go:41-66).
THEOREM RegistryInStep == Spec => []Inv
<1>1. Init => Inv
  BY InitInv
<1>2. Inv /\ [Next]_vars => Inv'
  BY NextStep
<1> QED
  BY <1>1, <1>2, PTL DEF Spec

\* Whatever the number of agents, none of a sequence or of a loop is started
\* with the output of an error (workflows.go:53-55).
THEOREM ErrorsStopFlows == Spec => []ErrorStopsFlow
<1>1. Inv => ErrorStopsFlow
  <2> SUFFICES ASSUME Inv, NEW a \in Ids, kind[a[1]] \in {"sequential", "loop"},
                      agent[a] # "none", NEW i \in 1..a[2] - 1
               PROVE  outcome[<<a[1], i>>] = "text"
    BY DEF ErrorStopsFlow
  <2> DEFINE f == a[1]
             b == <<f, i>>
  <2>1. f \in Flows /\ a[2] \in 1..Size[f] /\ Size[f] \in Nat /\ step[f] \in 1..Size[f]
    BY IdsArePairs, FlowAssumption DEF Inv, TypeOK
  <2>2. b \in Ids /\ b[1] = f /\ b[2] = i /\ i < a[2]
    BY <2>1, IdsArePairs
  <2>3. a[2] <= step[f] /\ ~Fanned(f)
    BY <2>1 DEF Inv, PlaceOK, Fanned
  <2>4. got[b] = "text"
    BY <2>1, <2>2, <2>3 DEF Inv, PlaceOK
  <2> QED
    BY <2>2, <2>4 DEF Inv, AgentOK
<1> QED
  BY <1>1, RegistryInStep, PTL

\* Wait hands over what its sub-agent ended with, however its lookups interleave
\* with the end, the ticker and the workflows; it misses an answer only as
\* WaitAnswers says (subagents.go:222-228, 249-265).
THEOREM WaitsAnswered == Spec => []WaitAnswers
<1>1. Inv => WaitAnswers
  BY DEF Inv, AgentOK, Answered, WaitAnswers
<1> QED
  BY <1>1, RegistryInStep, PTL

\* A workflow that has returned has no agent at work and no result in the
\* registry, however its waits interleave with the ends of its agents and with
\* the ticker (subagents.go:254-265, workflows.go:107-109).
THEOREM ReturnsClean == Spec => []ReturnedClean
<1>1. Inv => ReturnedClean
  <2> SUFFICES ASSUME Inv, NEW f \in Flows, flow[f] = "returned", kind[f] # "spawn",
                      NEW a \in IdsOf(f)
               PROVE  a \notin results /\ agent[a] \in {"none", "send", "leave", "ended"}
    BY DEF ReturnedClean, ReturnedMeansDone, NothingLeftBehind
  <2>1. a \in Ids /\ a[1] = f /\ a[2] \in 1..Size[f] /\ Size[f] \in Nat /\ step[f] \in 1..Size[f]
    BY IdsArePairs, FlowAssumption DEF IdsOf, Inv, TypeOK
  <2>2. AgentOK(a) /\ PlaceOK(a)
    BY <2>1 DEF Inv
  <2>3. Collected(a) \/ agent[a] = "none"
    BY <2>1, <2>2 DEF PlaceOK
  <2> QED
    BY <2>2, <2>3 DEF AgentOK, Collected, Stored
<1> QED
  BY <1>1, RegistryInStep, PTL

=============================================================================
