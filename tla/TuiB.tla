-------------------------------- MODULE TuiB --------------------------------
(* The second chat screen (ui-b). *)
EXTENDS Chat

IsTuiB == kind = "tui-b"

\* submitToAgent: the palette reaches it without handleSubmit, so it looks for
\* a run itself.
MayStart == ~processing

SubmitToAgent == MayStart /\ StartRun

\* handleSubmit, when no run is under way.
HandleSubmit == IsTuiB /\ ~blocked /\ ~processing /\ SubmitToAgent

\* cmdSkillDispatch: a skill is picked that the input already holds.
SkillDispatch == IsTuiB /\ ~blocked /\ SubmitToAgent

CmdNew == Switches
CmdFork == Switches
CmdSwitchByID == ShowNote(Wiped) /\ UNCHANGED flows
CmdCompact == Reports
CmdReport == Reports

ExecuteCommand ==
  IsTuiB /\ (CmdNew \/ CmdFork \/ CmdSwitchByID \/ CmdCompact \/ CmdReport)

\* handleStreamEvent: after the end of a run its late text is left out.
\* Mutant: it is not.
LateText(ms, r) == AppendDelta(ms, r)
ShownText(ms, r) == IF reading["event"] # 0 THEN AppendDelta(ms, r) ELSE ms

AddToolCard(ms) == Append(WithOther(DropEmpty(ms)), Placeholder)

HandleStreamEvent(r) ==
  LET got == waiters[r]["event"].got
  IN /\ IsTuiB
     /\ Handle(r, "event", CASE got.what = "text" -> ShownText(messages, got.of)
                             [] got.what = "tool" -> AddToolCard(messages)
                             [] OTHER -> messages)

HandleAgentDone(r) ==
  /\ runs[r].next # "error"
  /\ messages' = Finalized(messages, r, runs[r].next)

HandleAgentError(r) ==
  /\ runs[r].next = "error"
  /\ messages' = WithOther(DropEmpty(messages))

HandleEnd(r) ==
  /\ IsTuiB /\ ~blocked
  /\ runs[r].at = "over"
  /\ HandleAgentDone(r) \/ HandleAgentError(r)
  /\ processing' = FALSE
  /\ reading' = [reading EXCEPT !["event"] = 0]
  /\ runs' = [runs EXCEPT ![r] = Shown]
  /\ UNCHANGED <<kind, buffers, waiters, inputVars>>

-----------------------------------------------------------------------------
\* An answer that was shown in full stays as it is until the list is emptied
\* by a command: what comes late from its run, or from a run after it, does
\* not change it.
AnswerKept ==
  [][kind = "tui-b" =>
       \A i \in DOMAIN messages :
         messages[i].text = "answer" =>
           messages' \in {Wiped, <<>>} \/ (i \in DOMAIN messages' /\ messages'[i] = messages[i])]_messages
=============================================================================
