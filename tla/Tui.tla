-------------------------------- MODULE Tui ---------------------------------
(* The first chat screen (ui/tui.go, ui/tui_commands.go). *)
EXTENDS Chat

IsTui == kind = "tui"

\* Enter: a message to the agent.  A skill picked from the palette replays
\* Enter, and so never starts a run beside another.
TuiEnter == IsTui /\ ~blocked /\ ~processing /\ StartRun

\* Commands, from the input line when no run is under way or from the palette.
HandleNewBranch == Switches
HandleSwitch == Switches
HandleOverlaySession == ShowNote(Wiped) /\ UNCHANGED flows
HandleReport == Reports
HandleSkills == Reports

ExecutePaletteCommand ==
  IsTui /\ (HandleNewBranch \/ HandleSwitch \/ HandleOverlaySession
            \/ HandleReport \/ HandleSkills)

\* Stream events.  Text goes to the last message if that is the assistant's,
\* whether or not a run is under way.
TuiDelta(r) ==
  /\ IsTui
  /\ Handle(r, "delta", AppendDelta(messages, waiters[r]["delta"].got.of))

\* A card, and a place for what comes next; an empty place stays.
TuiTool(r) == IsTui /\ Handle(r, "tool", Append(WithOther(messages), Placeholder))

\* post_compact: only an empty place is kept.
TuiStatus(r) ==
  /\ IsTui
  /\ Handle(r, "status", IF LastIsEmpty(messages) THEN <<Placeholder>> ELSE messages)

\* agentResponseMsg and agentErrorMsg; the channel of the hooks is left.
TuiEnd(r) ==
  /\ IsTui /\ ~blocked
  /\ runs[r].at = "over"
  /\ messages' = IF runs[r].next = "error" THEN WithOther(DropEmpty(messages))
                 ELSE Finalized(messages, r, runs[r].next)
  /\ processing' = FALSE
  /\ reading' = [reading EXCEPT !["delta"] = 0, !["tool"] = 0]
  /\ runs' = [runs EXCEPT ![r] = Shown]
  /\ UNCHANGED <<kind, buffers, waiters, inputVars>>
=============================================================================
