-------------------------------- MODULE Chat --------------------------------
(***************************************************************************)
(* What the two chat screens (ui/tui.go and ui-b) share.  The agent runs   *)
(* beside the screen: its goroutine puts what happens into channels, and   *)
(* for each channel a waiter takes one event at a time and hands it to the *)
(* screen's Update, which handles one message after the other and sends    *)
(* the waiter for the next.  The end of the run comes as a message of its  *)
(* own and may overtake what is still in a channel or in a waiter's hand.  *)
(*                                                                         *)
(* The first screen has one channel for text, one for tools, one for hooks *)
(* of the loop; the second has a single one.  Messages are shown in a list *)
(* whose last one takes the text that comes.                               *)
(***************************************************************************)
EXTENDS Integers, Sequences, FiniteSets, SequencesExt

CONSTANTS
  ChannelCap,    \* places of a channel of events
  SteeringCap,   \* places of agent.Steering
  Events,        \* bound: for each run of the agent, its events
  MaxTyped       \* bound: commands and interrupts

ASSUME ChatAssumption ==
  /\ ChannelCap \in Nat \ {0} /\ SteeringCap \in Nat \ {0}
  /\ Events \in Seq(Nat) /\ MaxTyped \in Nat

VARIABLES
  kind,          \* the screen: "none" yet, "tui" or "tui-b"
  messages,      \* shown: [role, text, of]
  processing,    \* an answer is awaited
  reading,       \* per channel, the run whose channel the screen reads, 0: nil
  runs,          \* runs of the agent: [at, next, left]
  buffers,       \* per run and channel, the events in it
  waiters,       \* per run and channel, the waiter begun with it: [on, got]
  steering,      \* messages in agent.Steering
  blocked,       \* Update waits for a place in it
  flows,         \* workflows under way
  typed          \* commands and interrupts so far

chatVars == <<kind, messages, processing, reading, runs, buffers, waiters,
              steering, blocked, flows, typed>>
screenVars == <<messages, processing, reading>>
inputVars == <<steering, blocked, flows, typed>>

Names == {"delta", "tool", "status", "event"}
Channels == IF kind = "tui" THEN Names \ {"event"} ELSE {"event"}
ChannelOf(what) ==
  CASE kind = "tui-b" -> "event"
    [] what = "text" -> "delta"
    [] what = "tool" -> "tool"
    [] what = "folded" -> "status"

Nothing == [of |-> 0, what |-> "none"]
Shown == [at |-> "shown", next |-> "end", left |-> 0]
Resting == [on |-> 0, got |-> Nothing]

\* A message of the assistant has a text of run "of".  Users' messages, tool
\* cards and errors are Other; those that follow one another count as one.
Placeholder == [text |-> "", of |-> 0]
Note == [text |-> "note", of |-> 0]
Other == [text |-> "other", of |-> 0]

ChatInit ==
  /\ kind = "none"
  /\ messages = <<>>
  /\ processing = FALSE
  /\ reading = [n \in Names |-> 0]
  /\ runs = <<>>
  /\ buffers = [r \in DOMAIN Events |-> [n \in Names |-> <<>>]]
  /\ waiters = [r \in DOMAIN Events |-> [n \in Names |-> Resting]]
  /\ steering = 0 /\ blocked = FALSE
  /\ flows = 0 /\ typed = 0

-----------------------------------------------------------------------------
\* The list of messages.

LastIsAssistant(ms) == ms # <<>> /\ Last(ms) # Other
LastIsEmpty(ms) == ms # <<>> /\ Last(ms) = Placeholder

WithLast(ms, m) == Append(Front(ms), m)
WithOther(ms) == IF ms # <<>> /\ Last(ms) = Other THEN ms ELSE Append(ms, Other)
DropEmpty(ms) == IF LastIsEmpty(ms) THEN Front(ms) ELSE ms

\* A text of run r comes after what is there: "part" of it, or a mixture.
AppendDelta(ms, r) ==
  IF ~LastIsAssistant(ms) THEN ms
  ELSE LET part == [text |-> "part", of |-> r]
       IN WithLast(ms, IF Last(ms) \in {Placeholder, part} THEN part ELSE [text |-> "mixed", of |-> 0])

\* The final text replaces what was streamed; without one an empty place goes.
Finalized(ms, r, answer) ==
  IF answer = "text" /\ LastIsAssistant(ms)
  THEN WithLast(ms, [text |-> "answer", of |-> r])
  ELSE DropEmpty(ms)

-----------------------------------------------------------------------------
\* runAgentStream: the goroutine of run r.  It waits while the channel its
\* next event goes to is full.  After tools the agent may take what was typed
\* for it (Agent loop).

NextOf(left) == IF left = 0 THEN {"end"} ELSE {"text", "tool", "folded", "end"}

Emit(r) ==
  /\ runs[r].at = "running" /\ runs[r].next # "end"
  /\ LET n == ChannelOf(runs[r].next)
     IN /\ Len(buffers[r][n]) < ChannelCap
        /\ buffers' = [buffers EXCEPT ![r][n] = Append(@, runs[r].next)]
  /\ \E next \in NextOf(runs[r].left - 1) :
       runs' = [runs EXCEPT ![r] = [at |-> "running", next |-> next, left |-> runs[r].left - 1]]
  /\ steering' \in IF runs[r].next = "tool" THEN {0, steering} ELSE {steering}
  /\ UNCHANGED <<kind, screenVars, waiters, blocked, flows, typed>>

\* The channels are closed, and the end is on its way to Update.
EndRun(r) ==
  /\ runs[r].at = "running" /\ runs[r].next = "end"
  /\ \E answer \in {"text", "none", "error"} :
       runs' = [runs EXCEPT ![r] = [at |-> "over", next |-> answer, left |-> 0]]
  /\ UNCHANGED <<kind, screenVars, buffers, waiters, inputVars>>

-----------------------------------------------------------------------------
\* waitForDelta, waitForToolEvent, waitForStatus and waitForStreamEvent.

Take(r, n) ==
  LET w == waiters[r][n]
  IN /\ w.on # 0 /\ w.got = Nothing /\ buffers[w.on][n] # <<>>
     /\ waiters' = [waiters EXCEPT ![r][n].got = [of |-> w.on, what |-> Head(buffers[w.on][n])]]
     /\ buffers' = [buffers EXCEPT ![w.on][n] = Tail(@)]
     /\ UNCHANGED <<kind, screenVars, runs, inputVars>>

\* Update has an event of a waiter: the waiter goes on with the channel of
\* the moment, if there is one.
Rearm(r, n) == [waiters EXCEPT ![r][n] = [on |-> reading[n], got |-> Nothing]]

Handle(r, n, ms) ==
  /\ ~blocked /\ waiters[r][n].got # Nothing
  /\ messages' = ms
  /\ waiters' = Rearm(r, n)
  /\ UNCHANGED <<kind, processing, reading, runs, buffers, inputVars>>

-----------------------------------------------------------------------------
\* The user.

\* The waiters a run begins with.  Mutant: the one of the tools is forgotten.
WaitersForgotten(r) == [n \in Names |->
  [on |-> IF n \in Channels \ {"tool"} THEN r ELSE 0, got |-> Nothing]]
Waiters(r) == [n \in Names |-> [on |-> IF n \in Channels THEN r ELSE 0, got |-> Nothing]]

\* A new run, with its channels and their waiters.
StartRun ==
  /\ Len(runs) < Len(Events)
  /\ LET r == Len(runs) + 1
     IN /\ messages' = Append(WithOther(messages), Placeholder)
        /\ processing' = TRUE
        /\ reading' = [n \in Names |-> IF n \in Channels THEN r ELSE 0]
        /\ \E next \in NextOf(Events[r]) :
             runs' = Append(runs, [at |-> "running", next |-> next, left |-> Events[r]])
        /\ waiters' = [waiters EXCEPT ![r] = Waiters(r)]
  /\ UNCHANGED <<kind, buffers, inputVars>>

\* While a run is under way what is typed goes to agent.Steering; Update waits
\* when that is full, and nothing else is handled meanwhile.
Steer ==
  /\ ~blocked /\ processing
  /\ IF steering < SteeringCap
     THEN steering' = steering + 1 /\ messages' = WithOther(messages) /\ UNCHANGED blocked
     ELSE blocked' = TRUE /\ UNCHANGED <<steering, messages>>
  /\ UNCHANGED <<kind, processing, reading, runs, buffers, waiters, flows, typed>>

Unblock ==
  /\ blocked /\ steering < SteeringCap
  /\ blocked' = FALSE
  /\ steering' = steering + 1
  /\ messages' = WithOther(messages)
  /\ UNCHANGED <<kind, processing, reading, runs, buffers, waiters, flows, typed>>

\* Ctrl+C while a run is under way.
Interrupt ==
  /\ ~blocked /\ processing
  /\ typed < MaxTyped /\ typed' = typed + 1
  /\ messages' = WithOther(messages)
  /\ UNCHANGED <<kind, processing, reading, runs, buffers, waiters, steering, blocked, flows>>

\* Commands, typed or, at any time, from the palette: those that change the
\* branch empty the list, the others add what they have to say.
ShowNote(ms) ==
  /\ ~blocked
  /\ typed < MaxTyped /\ typed' = typed + 1
  /\ messages' = ms
  /\ UNCHANGED <<kind, processing, reading, runs, buffers, waiters, steering, blocked>>

Wiped == <<Note>>
Told == {Append(messages, Note), WithOther(messages)}    \* done, or an error
Switches == (\E ms \in {Wiped, WithOther(messages)} : ShowNote(ms)) /\ UNCHANGED flows
Reports == (\E ms \in Told : ShowNote(ms)) /\ UNCHANGED flows

\* A workflow of sub-agents, run beside the agent.
ExecuteWorkflow == ShowNote(Append(messages, Note)) /\ flows' = flows + 1

WorkflowDone ==
  /\ ~blocked /\ flows > 0
  /\ flows' = flows - 1
  /\ messages' \in Told
  /\ UNCHANGED <<kind, processing, reading, runs, buffers, waiters, steering, blocked, typed>>
=============================================================================
