-------------------------------- MODULE App ---------------------------------
(***************************************************************************)
(* The program at a terminal: it starts (Launch), the set-up screen        *)
(* (Wizard) may ask what to use, and the agent made from that is talked to *)
(* on one of the two chat screens (Tui, TuiB).  The agent is made once: of *)
(* the set-up and the configuration nothing is looked at after it, and no  *)
(* start after a chat is followed, so a chat forgets them.                 *)
(***************************************************************************)
EXTENDS Launch, Tui, TuiB

setupVars == <<screen, setup, launchVars>>
vars == <<setupVars, chatVars>>

Init == LaunchInit /\ ChatInit

OpenChat ==
  /\ screen = "agent"
  /\ screen' = "chat"
  /\ setup' = NewSetup
  /\ file' \in Files /\ config' = file' /\ known' = {}
  /\ kind' \in {"tui", "tui-b"}
  /\ UNCHANGED <<screenVars, runs, buffers, waiters, inputVars>>

\* Ctrl+D, or Ctrl+C when no run is under way: the process ends, and with it
\* what runs in it.
Leave ==
  /\ screen = "chat" /\ ~blocked
  /\ screen' = "closed"
  /\ messages' = <<>> /\ processing' = FALSE
  /\ reading' = [n \in Names |-> 0]
  /\ runs' = <<>>
  /\ buffers' = [r \in DOMAIN Events |-> [n \in Names |-> <<>>]]
  /\ waiters' = [r \in DOMAIN Events |-> [n \in Names |-> Resting]]
  /\ steering' = 0 /\ flows' = 0 /\ typed' = 0
  /\ kind' = "none"
  /\ UNCHANGED <<blocked, setup, launchVars>>

InChat == screen = "chat" /\ UNCHANGED setupVars

\* What the agent's goroutine, the waiters and Update do by themselves.
AgentStep(r) == InChat /\ r \in DOMAIN runs /\ (Emit(r) \/ EndRun(r))
WaiterStep(r, n) == InChat /\ r \in DOMAIN runs /\ n \in Channels /\ Take(r, n)
TextStep(r) == InChat /\ r \in DOMAIN runs /\ (TuiDelta(r) \/ HandleStreamEvent(r))
ToolStep(r) == InChat /\ r \in DOMAIN runs /\ TuiTool(r)
StatusStep(r) == InChat /\ r \in DOMAIN runs /\ TuiStatus(r)
EndStep(r) == InChat /\ r \in DOMAIN runs /\ (TuiEnd(r) \/ HandleEnd(r))

Typing ==
  InChat /\ (TuiEnter \/ HandleSubmit \/ SkillDispatch \/ Steer \/ Interrupt
             \/ ExecutePaletteCommand \/ ExecuteCommand \/ ExecuteWorkflow)

Next ==
  \/ LaunchNext /\ UNCHANGED chatVars
  \/ OpenChat \/ Leave
  \/ Typing
  \/ InChat /\ (Unblock \/ WorkflowDone)
  \/ \E r \in DOMAIN Events :
       \/ AgentStep(r) \/ TextStep(r) \/ ToolStep(r) \/ StatusStep(r) \/ EndStep(r)
       \/ \E n \in Names : WaiterStep(r, n)

Spec == Init /\ [][Next]_vars

\* What goes on by itself: the scheduler lets it, and a run of the agent ends
\* (Agent loop).  Of the user nothing is asked.
Progress ==
  \E r \in DOMAIN Events :
    \/ AgentStep(r) \/ TextStep(r) \/ ToolStep(r) \/ StatusStep(r) \/ EndStep(r)
    \/ \E n \in Names : WaiterStep(r, n)
FairSpec == Spec /\ WF_vars(Progress)

-----------------------------------------------------------------------------
\* Whatever order its events come in, the end of a run is shown: the screen
\* is free again, unless the user has typed more than agent.Steering holds and
\* Update waits for a place.
RunHandled == processing ~> ~processing \/ blocked
=============================================================================
