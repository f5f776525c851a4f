----------------------------- MODULE StreamTurn -----------------------------
(***************************************************************************)
(* One LLM call of a run and the tools of its answer, with parallel tools: *)
(* the server, the goroutine that parses its stream, the run that consumes *)
(* the events and starts tools as their blocks stop, and the goroutines of *)
(* the tools (loop.go:285-348, 765-1089).                                  *)
(***************************************************************************)
EXTENDS Streams, FiniteSets

CONSTANTS
  Setups,        \* formats, replies, and whether the call streams
  Unsafe,        \* names of tools that run inline (write, edit, MCP tools)
  Missing,       \* names no tool has
  Slots,         \* maxParallelTools, 4 in the code
  MaxAttempts,   \* attempts at one LLM call, 4 in the code
  Buffer         \* capacity of the channel of events, 32 in the code

ASSUME TurnAssumption ==
  /\ Slots \in Nat \ {0} /\ MaxAttempts \in Nat \ {0} /\ Buffer \in Nat \ {0}
  /\ \A s \in Setups : s.format \in Formats /\ s.streaming \in BOOLEAN /\ IsReply(s.reply)

VARIABLES
  setup,       \* the format and the reply of the server, and whether it streams
  wire,        \* frames the server has still to send
  parser,      \* what the parser has read
  channel,     \* events sent and not received
  cancelled,   \* the context is done
  at,          \* where the run is
  attempt,     \* the attempt it is in
  pending,     \* calls whose block has started, by index
  tool,        \* tools started, in order
  eager,       \* eagerResults: the tool started for an id
  inline,      \* the tool the run executes itself, or 0
  answer,      \* the answer received, or NoAnswer
  err,         \* the kind of the error, or "none"
  heard,       \* whether some text was received
  recorded     \* for the calls of the answer so far: the tool whose result was stored

vars == <<setup, wire, parser, channel, cancelled, at, attempt, pending, tool, eager,
          inline, answer, err, heard, recorded>>
stream == <<setup, wire, parser>>
NoAnswer == Answer(<<>>, "none")
NoCalls == [i \in {} |-> NoId]

Init ==
  /\ setup \in Setups
  /\ wire = <<>>
  /\ parser = [NoParse EXCEPT !.closed = TRUE]
  /\ channel = <<>>
  /\ cancelled = FALSE
  /\ at = "ask" /\ attempt = 1
  /\ pending = NoCalls /\ tool = <<>> /\ eager = NoCalls /\ inline = 0
  /\ answer = NoAnswer /\ err = "none" /\ heard = FALSE /\ recorded = <<>>

\* The user, or the server of the HTTP channel, gives up.
Cancel ==
  /\ ~cancelled /\ at \notin {"ended", "failed"}
  /\ cancelled' = TRUE
  /\ UNCHANGED <<stream, channel, at, attempt, pending, tool, eager, inline, answer, err,
                 heard, recorded>>

-----------------------------------------------------------------------------
\* StreamComplete.

Ask ==
  /\ at = "ask" /\ ~cancelled /\ setup.streaming
  /\ wire' = Frames(setup.format, setup.reply)
  /\ parser' = NoParse
  /\ at' = "read"
  /\ pending' = NoCalls /\ eager' = NoCalls /\ answer' = NoAnswer /\ err' = "none"
  /\ heard' = FALSE
  /\ UNCHANGED <<setup, channel, cancelled, attempt, tool, inline, recorded>>

\* Without streaming the answer comes whole.  The error of an attempt before
\* is kept, and counts against this one.
Complete ==
  /\ at = "ask" /\ ~cancelled /\ ~setup.streaming
  /\ answer' = Whole(setup.format, setup.reply)
  /\ at' = "drain"
  /\ UNCHANGED <<stream, channel, cancelled, attempt, pending, tool, eager, inline, err, heard,
                 recorded>>

\* The request is refused: try again, or give up.
AskFails(cause) ==
  /\ at = "ask"
  /\ cause = "cancelled" => cancelled
  /\ err' = Refusal(setup.format, cause)
  /\ at' = IF err' = "transient" /\ attempt < MaxAttempts THEN "backoff" ELSE "failed"
  /\ UNCHANGED <<stream, channel, cancelled, attempt, pending, tool, eager, inline, answer,
                 heard, recorded>>

Backoff ==
  /\ at = "backoff"
  /\ \/ /\ at' = "ask" /\ attempt' = attempt + 1 /\ UNCHANGED err
     \/ /\ cancelled /\ at' = "failed" /\ err' = "permanent" /\ UNCHANGED attempt
  /\ UNCHANGED <<stream, channel, cancelled, pending, tool, eager, inline, answer, heard,
                 recorded>>

-----------------------------------------------------------------------------
\* The goroutine of the parser.

\* It sends what it makes of a frame; once the context is done it may stop
\* instead at any event, and then says nothing more.
Emits(p) ==
  \/ /\ parser' = Sends(p, <<>>)
     /\ channel' = channel \o p.events
  \/ /\ cancelled /\ setup.format # "responses"
     /\ parser' = Ends(p, <<>>)
     /\ \E n \in 0..(Len(p.events) - 1) : channel' = channel \o SubSeq(p.events, 1, n)

Room == Len(channel) < Buffer
TurnVars == <<at, attempt, pending, tool, eager, inline, answer, err, heard, recorded>>

ReadFrame ==
  /\ ~parser.closed /\ wire # <<>> /\ Room
  /\ wire' = Tail(wire)
  /\ Emits(Parse(setup.format, parser, Head(wire)))
  /\ UNCHANGED <<setup, cancelled, TurnVars>>

ReadErrorFrame ==
  /\ ~parser.closed /\ wire # <<>> /\ Room
  /\ \E kind \in {"transient", "permanent"} : Emits(ErrorFrame(setup.format, parser, kind))
  /\ wire' = <<>>
  /\ UNCHANGED <<setup, cancelled, TurnVars>>

\* The server closes the connection, after the last frame or in the middle.
ReadEnd ==
  /\ ~parser.closed /\ Room
  /\ wire' = <<>>
  /\ Emits(EndOfBody(setup.format, parser))
  /\ UNCHANGED <<setup, cancelled, TurnVars>>

\* The connection breaks; it always does when the context is done.
ReadBreaks ==
  /\ ~parser.closed /\ Room
  /\ wire' = <<>>
  /\ Emits(IF cancelled THEN Fails(parser, "permanent") ELSE ReadError(setup.format, parser))
  /\ UNCHANGED <<setup, cancelled, TurnVars>>

-----------------------------------------------------------------------------
\* Tools.

Started(call, state, holds) == [call |-> call, state |-> state, slot |-> holds]
Running(k) == tool[k].state \in {"wait", "run"}
Using == {k \in DOMAIN tool : tool[k].slot}

\* The start of a tool: an answer at once when it is blocked or unknown, a
\* goroutine when it is safe, and in the run itself otherwise.
Start(call, alone) ==
  LET k == Len(tool) + 1
  IN \/ /\ tool' = Append(tool, Started(call, "done", FALSE))
        /\ UNCHANGED inline
     \/ /\ call.name \notin Missing \cup Unsafe /\ ~alone
        /\ tool' = Append(tool, Started(call, "wait", FALSE))
        /\ UNCHANGED inline
     \/ /\ call.name \notin Missing /\ (alone \/ call.name \in Unsafe)
        /\ tool' = Append(tool, Started(call, "run", FALSE))
        /\ inline' = k

TakeSlot(k) ==
  /\ tool[k].state = "wait"
  /\ Cardinality(Using) < Slots
  /\ tool' = [tool EXCEPT ![k].state = "run", ![k].slot = TRUE]
  /\ UNCHANGED <<stream, channel, cancelled, at, attempt, pending, eager, inline, answer, err,
                 heard, recorded>>

\* Only a tool of consumeStreamEager gives up its place in the queue.
GiveUp(k) ==
  /\ tool[k].state = "wait" /\ cancelled /\ at \in {"read", "drain"}
  /\ tool' = [tool EXCEPT ![k].state = "done"]
  /\ UNCHANGED <<stream, channel, cancelled, at, attempt, pending, eager, inline, answer, err,
                 heard, recorded>>

\* Mutant: the place is not given back.
ToolEndsKeepsSlot(k) ==
  /\ tool[k].state = "run"
  /\ tool' = [tool EXCEPT ![k].state = "done"]
  /\ inline' = IF inline = k THEN 0 ELSE inline
  /\ UNCHANGED <<stream, channel, cancelled, at, attempt, pending, eager, answer, err, heard,
                 recorded>>

ToolEnds(k) ==
  /\ tool[k].state = "run"
  /\ tool' = [tool EXCEPT ![k].state = "done", ![k].slot = FALSE]
  /\ inline' = IF inline = k THEN 0 ELSE inline
  /\ UNCHANGED <<stream, channel, cancelled, at, attempt, pending, eager, answer, err, heard,
                 recorded>>

-----------------------------------------------------------------------------
\* consumeStreamEager.

At(index) == at = "read" /\ inline = 0 /\ channel # <<>> /\ Head(channel).type \in index
Receives == channel' = Tail(channel)
Ev == Head(channel)

Listen ==
  /\ At({"text", "thinking"}) /\ Receives
  /\ heard' = (heard \/ Ev.type = "text")
  /\ UNCHANGED <<stream, cancelled, at, attempt, pending, tool, eager, inline, answer, err,
                 recorded>>

BlockStarts ==
  /\ At({"tool_use_start"}) /\ Receives
  /\ pending' = [i \in DOMAIN pending \cup {Ev.index} |->
                  IF i = Ev.index THEN Call(Ev.id, Ev.name, "none") ELSE pending[i]]
  /\ UNCHANGED <<stream, cancelled, at, attempt, tool, eager, inline, answer, err, heard,
                 recorded>>

InputArrives ==
  /\ At({"input_delta"}) /\ Receives
  /\ pending' = [i \in DOMAIN pending |->
                  IF i = Ev.index THEN [pending[i] EXCEPT !.args = "some"] ELSE pending[i]]
  /\ UNCHANGED <<stream, cancelled, at, attempt, tool, eager, inline, answer, err, heard,
                 recorded>>

\* Mutant: the entries of all calls are the last one.
BlockStopsSharesEntry ==
  /\ At({"content_block_stop"}) /\ Receives
  /\ IF Ev.index \in DOMAIN pending
     THEN LET call == pending[Ev.index]
          IN /\ Start(call, FALSE)
             /\ eager' = [d \in DOMAIN eager \cup {call.id} |-> Len(tool) + 1]
             /\ pending' = [i \in DOMAIN pending \ {Ev.index} |-> pending[i]]
     ELSE UNCHANGED <<pending, tool, eager, inline>>
  /\ UNCHANGED <<stream, cancelled, at, attempt, answer, err, heard, recorded>>

\* The block of a call is complete: its tool starts while the answer streams.
BlockStops ==
  /\ At({"content_block_stop"}) /\ Receives
  /\ IF Ev.index \in DOMAIN pending
     THEN LET call == pending[Ev.index]
          IN /\ Start(call, FALSE)
             /\ eager' = [d \in DOMAIN eager \cup {call.id} |->
                           IF d = call.id THEN Len(tool) + 1 ELSE eager[d]]
             /\ pending' = [i \in DOMAIN pending \ {Ev.index} |-> pending[i]]
     ELSE UNCHANGED <<pending, tool, eager, inline>>
  /\ UNCHANGED <<stream, cancelled, at, attempt, answer, err, heard, recorded>>

MessageStops ==
  /\ At({"message_stop"}) /\ Receives
  /\ answer' = Answer(parser.blocks, parser.stop)
  /\ UNCHANGED <<stream, cancelled, at, attempt, pending, tool, eager, inline, err, heard,
                 recorded>>

\* An error, or the end of the channel; without an answer, text that was
\* heard is made one.
StreamFails ==
  /\ At({"error"}) /\ Receives
  /\ err' = Ev.name
  /\ at' = "drain"
  /\ UNCHANGED <<stream, cancelled, attempt, pending, tool, eager, inline, answer, heard,
                 recorded>>

StreamEnds ==
  /\ at = "read" /\ inline = 0 /\ channel = <<>> /\ parser.closed
  /\ at' = "drain"
  /\ answer' = IF answer = NoAnswer /\ heard THEN Answer(<<TextBlock(1)>>, "end") ELSE answer
  /\ err' = IF answer = NoAnswer /\ ~heard THEN "permanent" ELSE "none"
  /\ UNCHANGED <<stream, channel, cancelled, attempt, pending, tool, eager, inline, heard,
                 recorded>>

\* Mutant: on an error the tools are not waited for.
DrainedAnswerOnly == err # "none" \/ \A d \in DOMAIN eager : ~Running(eager[d])
\* The tools started are waited for, whether or not there is an answer.
Drained == \A d \in DOMAIN eager : ~Running(eager[d])

Answered ==
  /\ at = "drain" /\ Drained
  /\ at' = IF err = "transient" /\ attempt < MaxAttempts THEN "backoff"
           ELSE IF err # "none" THEN "failed"
           ELSE IF answer.stop = "length" \/ Calls(answer.blocks) = <<>> THEN "ended"
           ELSE IF eager # NoCalls THEN "finish"
           ELSE IF Len(Calls(answer.blocks)) > 1 THEN "spawn"
           ELSE "sequence"
  /\ UNCHANGED <<stream, channel, cancelled, attempt, pending, tool, eager, inline, answer,
                 err, heard, recorded>>

-----------------------------------------------------------------------------
\* The tools of the answer.

TheCalls == Calls(answer.blocks)
NextCall == TheCalls[Len(recorded) + 1]
Unrecorded == Len(recorded) < Len(TheCalls)
Record(k) == recorded' = Append(recorded, k)
RestUnchanged == UNCHANGED <<stream, channel, cancelled, at, attempt, pending, answer, err, heard>>

\* finishEagerTools: the result of the tool that has the id of the call, or
\* else the tool is run now.
Finish ==
  /\ at = "finish" /\ inline = 0 /\ Unrecorded
  /\ IF NextCall.id \in DOMAIN eager
     THEN Record(eager[NextCall.id]) /\ UNCHANGED <<tool, inline>>
     ELSE Start(NextCall, TRUE) /\ Record(Len(tool) + 1)
  /\ UNCHANGED eager /\ RestUnchanged

\* executeToolsSequential.
RunNext ==
  /\ at = "sequence" /\ inline = 0 /\ Unrecorded
  /\ Start(NextCall, TRUE) /\ Record(Len(tool) + 1)
  /\ UNCHANGED eager /\ RestUnchanged

\* executeToolsParallel: all are started, then all are waited for, and only
\* then their results are stored.
Spawn ==
  /\ at = "spawn" /\ inline = 0 /\ Unrecorded
  /\ Start(NextCall, FALSE) /\ Record(Len(tool) + 1)
  /\ UNCHANGED eager /\ RestUnchanged

AllDone == ~Unrecorded /\ \A k \in DOMAIN tool : ~Running(k)

ToolsDone ==
  /\ at \in {"finish", "sequence", "spawn"} /\ inline = 0
  /\ IF at = "spawn" THEN AllDone ELSE ~Unrecorded
  /\ at' = "ended"
  /\ UNCHANGED <<stream, channel, cancelled, attempt, pending, tool, eager, inline, answer,
                 err, heard, recorded>>

-----------------------------------------------------------------------------
Reader == ReadFrame \/ ReadErrorFrame \/ ReadEnd \/ ReadBreaks
Consume ==
  \/ Listen \/ BlockStarts \/ InputArrives \/ BlockStops \/ MessageStops
  \/ StreamFails \/ StreamEnds \/ Answered
RunTools == Finish \/ RunNext \/ Spawn \/ ToolsDone
Goroutine(k) == TakeSlot(k) \/ GiveUp(k) \/ ToolEnds(k)

Next ==
  \/ Cancel \/ Ask \/ Complete \/ Backoff \/ Reader \/ Consume \/ RunTools
  \/ \E cause \in Causes : AskFails(cause)
  \/ \E k \in DOMAIN tool : Goroutine(k)

\* The server answers or refuses, or the connection breaks, tools return, and goroutines
\* are scheduled; a free place is granted to one of those that wait.  There are finitely
\* many tools, so each has its turn.
Fairness ==
  /\ WF_vars(Ask \/ Complete \/ \E cause \in Causes : AskFails(cause)) /\ WF_vars(Backoff) /\ WF_vars(Reader) /\ WF_vars(Consume)
  /\ WF_vars(RunTools)
  /\ WF_vars(\E k \in DOMAIN tool : ToolEnds(k)) /\ WF_vars(\E k \in DOMAIN tool : TakeSlot(k))

Spec == Init /\ [][Next]_vars
FairSpec == Spec /\ Fairness

-----------------------------------------------------------------------------
(* Properties.                                                             *)

\* Every variable has values of its kind.
TypeOK ==
  /\ setup \in Setups
  /\ IsSequence(wire) /\ IsSequence(channel) /\ \A x \in DOMAIN channel : IsEvent(channel[x])
  /\ parser.closed \in BOOLEAN /\ cancelled \in BOOLEAN /\ heard \in BOOLEAN
  /\ at \in {"ask", "backoff", "read", "drain", "finish", "sequence", "spawn", "ended", "failed"}
  /\ attempt \in 1..MaxAttempts
  /\ err \in {"none", "transient", "permanent"}
  /\ IsSequence(tool)
  /\ \A k \in DOMAIN tool : tool[k] = Started(tool[k].call, tool[k].state, tool[k].slot)
                           /\ tool[k].state \in {"wait", "run", "done"} /\ tool[k].slot \in BOOLEAN
  /\ inline \in 0..Len(tool)
  /\ eager \in [DOMAIN eager -> DOMAIN tool]
  /\ recorded \in Seq(DOMAIN tool)

\* No more than Slots tools run at once beside the one the run executes itself
\* (the semaphores of loop.go:858-880 and 942-1009).
AtMostSlots == Cardinality({k \in DOMAIN tool : tool[k].state = "run" /\ k # inline}) <= Slots

\* A run never goes on while a tool it started for this answer is at work: not
\* to the next turn, not to another attempt, not to a failure
\* (loop.go:1027-1041 "Wait for all in-flight tool executions").
NoToolLeftRunning ==
  at \in {"backoff", "ask", "ended", "failed"} => \A k \in DOMAIN tool : ~Running(k)

\* The results stored behind an answer are those of its own calls, each once
\* and in their order, whichever of the three ways its tools were run
\* (loop.go:799-919, 1057-1089).
ResultsMatchCalls ==
  \A i, j \in DOMAIN recorded :
    /\ tool[recorded[i]].call = TheCalls[i]
    /\ i # j => recorded[i] # recorded[j]

\* No tool runs beside those of the answer that was accepted, once one is and
\* unless it was cut short: what the stream announced is what the answer holds
\* (loop.go:960-1041 against the parsers).
NothingElseRun ==
  at = "ended" /\ attempt = 1 /\ ~cancelled /\ answer.stop # "length"
    => Len(tool) = Len(recorded)

\* Both: the tools that run, the results stored and the calls of the answer are
\* the same.
ToolsMatchAnswer == ResultsMatchCalls /\ NothingElseRun

\* The arguments a tool is given are those the server sent for its call.
ArgumentsWhole ==
  \A k \in DOMAIN tool :
    \E i \in DOMAIN setup.reply.blocks : setup.reply.blocks[i] = tool[k].call

\* From the two providers that tell a complete block from one that was cut, no
\* call is run with a part of its arguments: Anthropic by the stop of the
\* message (anthropic.go:716-728), Gemini because calls come whole.
CompleteCallsRun == setup.format \in {"anthropic", "gemini"} => ArgumentsWhole

\* An LLM call ends, in an answer whose tools have all run or in a failure,
\* whatever the order in which tools take their slots.
TurnEnds == at = "ask" ~> at \in {"ended", "failed"}

=============================================================================
