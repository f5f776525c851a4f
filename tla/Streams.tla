------------------------------ MODULE Streams ------------------------------
(***************************************************************************)
(* How the four providers read a streamed answer: the frames a server      *)
(* sends for a reply, and what each parser makes of them: the events it    *)
(* puts on the channel and the answer it assembles.                        *)
(*                                                                         *)
(* A reply is a sequence of blocks and a reason to stop.  Text is counted  *)
(* in fragments; the arguments of a call are "none" or "some".             *)
(***************************************************************************)
EXTENDS Integers, Sequences, SequencesExt

Formats == {"anthropic", "openai", "responses", "gemini"}
NoId == "no id"

Text == [kind |-> "text", id |-> NoId, name |-> "none", args |-> "none"]
Thinking == [Text EXCEPT !.kind = "thinking"]
Call(id, name, args) == [kind |-> "call", id |-> id, name |-> name, args |-> args]
IsCall(b) == b.kind = "call"
IsSequence(s) == s \in Seq(Range(s))
IsBlock(b) ==
  /\ b = [kind |-> b.kind, id |-> b.id, name |-> b.name, args |-> b.args]
  /\ b.kind \in {"text", "thinking", "call"} /\ b.args \in {"none", "some"}
IsReply(r) ==
  /\ IsSequence(r.blocks) /\ \A i \in DOMAIN r.blocks : IsBlock(r.blocks[i])
  /\ r.stop \in {"end", "length"}
\* ExtractToolCalls.
Calls(blocks) ==
  LET upTo[i \in 0..Len(blocks)] ==
        IF i = 0 THEN <<>>
        ELSE IF IsCall(blocks[i]) THEN Append(upTo[i - 1], blocks[i]) ELSE upTo[i - 1]
  IN  upTo[Len(blocks)]

Frame(type, index, b) == [type |-> type, index |-> index, block |-> b]
WithArgs(b, frames) == IF b.args = "some" THEN frames ELSE <<>>

\* The frames for the block at place i.
BlockFrames(format, blocks, i) ==
  LET b == blocks[i]
      nth == Len(Calls(SubSeq(blocks, 1, i))) - 1
  IN CASE format = "anthropic" ->
            <<Frame("content_block_start", i - 1, b)>>
              \o (IF IsCall(b) THEN WithArgs(b, <<Frame("content_block_delta", i - 1, b)>>)
                               ELSE <<Frame("content_block_delta", i - 1, b)>>)
              \o <<Frame("content_block_stop", i - 1, b)>>
       [] format = "openai" /\ IsCall(b) ->
            <<Frame("tool_call", nth, b)>> \o WithArgs(b, <<Frame("arguments", nth, b)>>)
       [] format = "responses" /\ IsCall(b) ->
            <<Frame("item.added", 0, b)>>
              \o WithArgs(b, <<Frame("arguments.delta", 0, b), Frame("arguments.done", 0, b)>>)
              \o <<Frame("item.done", 0, b)>>
       [] OTHER -> <<Frame("part", 0, b)>>

Frames(format, reply) ==
  FlattenSeq([i \in DOMAIN reply.blocks |-> BlockFrames(format, reply.blocks, i)])
    \o <<Frame(reply.stop, 0, Text)>>

-----------------------------------------------------------------------------
\* What a parser keeps, and what it sends.
NoParse == [blocks |-> <<>>, text |-> 0, thinking |-> 0, stop |-> "", stopped |-> {},
            saw |-> FALSE, closed |-> FALSE, events |-> <<>>]

EventTypes == {"text", "thinking", "tool_use_start", "input_delta", "content_block_stop",
               "message_stop", "error"}
Event(type, index, id, name) == [type |-> type, index |-> index, id |-> id, name |-> name]
IsEvent(e) == e = Event(e.type, e.index, e.id, e.name) /\ e.type \in EventTypes /\ e.index \in Int
Sends(p, events) == [p EXCEPT !.events = events]
Ends(p, events) == [p EXCEPT !.events = events, !.closed = TRUE]

Answer(blocks, stop) == [blocks |-> blocks, stop |-> stop]
Stops(p, answer) ==
  Ends([p EXCEPT !.blocks = answer.blocks, !.stop = answer.stop],
       <<Event("message_stop", 0, NoId, answer.stop)>>)
Fails(p, kind) == Ends(p, <<Event("error", 0, NoId, kind)>>)

DeltaEvent(b, index) == <<Event(IF b.kind = "text" THEN "text" ELSE "thinking", index, NoId, "none")>>
TextBlock(n) == [Text EXCEPT !.args = n]

\* parseAnthropicSSE: blocks are kept as they come, by their index.
ParseAnthropic(p, f) ==
  LET i == f.index + 1
      b == f.block
  IN CASE f.type = "content_block_start" ->
            Sends([p EXCEPT !.blocks = Append(p.blocks, [b EXCEPT !.args = IF IsCall(b) THEN "none" ELSE 0])],
                  IF IsCall(b) THEN <<Event("tool_use_start", f.index, b.id, b.name)>> ELSE <<>>)
       [] f.type = "content_block_delta" /\ IsCall(b) ->
            Sends([p EXCEPT !.blocks[i].args = "some"], <<Event("input_delta", f.index, NoId, "none")>>)
       [] f.type = "content_block_delta" /\ ~IsCall(b) ->
            Sends([p EXCEPT !.blocks[i].args = @ + 1], DeltaEvent(b, f.index))
       [] f.type = "content_block_stop" ->
            Sends(p, <<Event("content_block_stop", f.index, NoId, "none")>>)
       [] f.type \in {"end", "length"} -> Stops(p, Answer(p.blocks, f.type))

\* parseOpenAISSE: text and calls are kept apart; no block is ever stopped,
\* and the reason to stop only noted.
ParseOpenAI(p, f) ==
  LET n == f.index + 1
      b == f.block
  IN CASE f.type = "part" /\ b.kind = "text" -> Sends([p EXCEPT !.text = @ + 1], DeltaEvent(b, 0))
       [] f.type = "part" /\ b.kind = "thinking" -> Sends(p, DeltaEvent(b, 0))
       [] f.type = "tool_call" ->
            Sends([p EXCEPT !.blocks = Append(p.blocks, [b EXCEPT !.args = "none"])],
                  <<Event("tool_use_start", n, b.id, b.name)>>)
       [] f.type = "arguments" ->
            Sends([p EXCEPT !.blocks[n].args = "some"], <<Event("input_delta", n, NoId, "none")>>)
       [] f.type \in {"end", "length"} -> Sends([p EXCEPT !.stop = f.type], <<>>)

\* parseResponsesSSE: arguments go to the call that was added last, and a call
\* is stopped once, by the end of its arguments or of its item.
StopOnce(p, q) ==
  LET last == Len(p.blocks)
  IN IF last \in p.stopped THEN Sends(q, <<>>)
     ELSE Sends([q EXCEPT !.stopped = @ \cup {last}],
                <<Event("content_block_stop", last, NoId, "none")>>)

ParseResponses(p, f) ==
  LET last == Len(p.blocks)
      b == f.block
  IN CASE f.type = "part" /\ b.kind = "text" -> Sends([p EXCEPT !.text = @ + 1], DeltaEvent(b, last))
       [] f.type = "part" /\ b.kind = "thinking" ->
            Sends([p EXCEPT !.thinking = @ + 1], DeltaEvent(b, last))
       [] f.type = "item.added" ->
            Sends([p EXCEPT !.blocks = Append(p.blocks, [b EXCEPT !.args = "none"])],
                  <<Event("tool_use_start", last + 1, b.id, b.name)>>)
       [] f.type = "arguments.delta" ->
            Sends([p EXCEPT !.blocks[last].args = "some"], <<Event("input_delta", last, NoId, "none")>>)
       [] f.type \in {"arguments.done", "item.done"} -> StopOnce(p, p)
       [] f.type \in {"end", "length"} -> Sends([p EXCEPT !.saw = TRUE, !.stop = f.type], <<>>)

\* parseGeminiSSE: a call comes whole and is started, filled and stopped at once.
ParseGemini(p, f) ==
  LET n == Len(p.blocks) + 1
      b == f.block
  IN CASE f.type = "part" /\ b.kind = "text" -> Sends([p EXCEPT !.text = @ + 1], DeltaEvent(b, 0))
       [] f.type = "part" /\ b.kind = "thinking" -> Sends(p, DeltaEvent(b, 0))
       [] f.type = "part" /\ IsCall(b) ->
            Sends([p EXCEPT !.blocks = Append(p.blocks, b)],
                  <<Event("tool_use_start", n, b.id, b.name)>>
                    \o WithArgs(b, <<Event("input_delta", n, NoId, "none")>>)
                    \o <<Event("content_block_stop", n, NoId, "none")>>)
       [] f.type \in {"end", "length"} -> Sends([p EXCEPT !.stop = f.type], <<>>)

Parse(format, p, f) ==
  CASE format = "anthropic" -> ParseAnthropic(p, f)
    [] format = "openai" -> ParseOpenAI(p, f)
    [] format = "responses" -> ParseResponses(p, f)
    [] format = "gemini" -> ParseGemini(p, f)

-----------------------------------------------------------------------------
\* The end of the body, after the last frame or before it.

TextFirst(p) == (IF p.text > 0 THEN <<TextBlock(p.text)>> ELSE <<>>) \o p.blocks

\* Mutant: the end of the body is the end of the answer.
EndAnthropicAnyhow(p) == Stops(p, Answer(p.blocks, "end"))
\* Without message_stop the call is to be retried.
EndAnthropic(p) == Fails(p, "transient")

\* A body that ends early is assembled as it is, with no reason to stop.
EndOpenAI(p) == Stops(p, Answer(TextFirst(p), p.stop))
EndGemini(p) == EndOpenAI(p)

\* Only an empty answer is an error; calls make the reason "tool_use".
EndResponses(p) ==
  LET blocks == (IF p.thinking > 0 THEN <<[Thinking EXCEPT !.args = p.thinking]>> ELSE <<>>)
                  \o TextFirst(p)
  IN IF ~p.saw /\ blocks = <<>> THEN Fails(p, "transient")
     ELSE Stops(p, Answer(blocks, IF p.blocks # <<>> THEN "tool_use"
                                  ELSE IF p.stop = "length" THEN "length" ELSE "end"))

EndOfBody(format, p) ==
  CASE format = "anthropic" -> EndAnthropic(p)
    [] format = "openai" -> EndOpenAI(p)
    [] format = "responses" -> EndResponses(p)
    [] format = "gemini" -> EndGemini(p)

\* An error frame.  The OpenAI-compatible servers are always asked again; Gemini is
\* after an error, not when it has blocked the prompt; the others are by the kind
\* of the error.
ErrorFrame(format, p, kind) ==
  Fails(p, IF format = "openai" THEN "transient" ELSE kind)

\* The connection breaks while the body is read.
ReadError(format, p) == Fails(p, IF format = "responses" THEN "transient" ELSE "permanent")

-----------------------------------------------------------------------------
\* A request that is refused: there is no connection, the server is busy (a
\* status to be tried again; Anthropic's client has then tried several times
\* itself), the request is wrong, or the wait between tries is cancelled.

Causes == {"network", "busy", "status", "cancelled"}
Unless(permanent, cause) == IF cause \in permanent THEN "permanent" ELSE "transient"

RefusalAnthropic(cause) == Unless({"status", "cancelled"}, cause)
RefusalOpenAI(cause) == Unless({"network", "status", "cancelled"}, cause)
RefusalGemini(cause) == Unless({"network", "status", "cancelled"}, cause)
RefusalResponses(cause) == Unless({"status"}, cause)

Refusal(format, cause) ==
  CASE format = "anthropic" -> RefusalAnthropic(cause)
    [] format = "openai" -> RefusalOpenAI(cause)
    [] format = "responses" -> RefusalResponses(cause)
    [] format = "gemini" -> RefusalGemini(cause)

\* The answer to a request that does not stream.  The kind of a block is kept
\* by Anthropic and Gemini, in their order; the OpenAI-compatible servers send
\* thinking, text and calls apart; the Responses API streams anyway.
WithText(b) == IF IsCall(b) THEN b ELSE [b EXCEPT !.args = 1]
WholeAnthropic(reply) == Answer([i \in DOMAIN reply.blocks |-> WithText(reply.blocks[i])], reply.stop)
WholeGemini(reply) == Answer([i \in DOMAIN reply.blocks |-> WithText(reply.blocks[i])], reply.stop)

WholeOpenAI(reply) ==
  LET one(kind) == SelectSeq(<<[Thinking EXCEPT !.args = 1], TextBlock(1)>>,
                             LAMBDA b : b.kind = kind /\ \E i \in DOMAIN reply.blocks :
                                                            reply.blocks[i].kind = kind)
  IN Answer(one("thinking") \o one("text") \o Calls(reply.blocks),
            IF Calls(reply.blocks) # <<>> /\ reply.stop = "end" THEN "tool_use" ELSE reply.stop)

WholeResponses(reply) ==
  LET count(kind) == Len(SelectSeq(reply.blocks, LAMBDA b : b.kind = kind))
      p == EndResponses([NoParse EXCEPT !.text = count("text"), !.thinking = count("thinking"),
                           !.blocks = Calls(reply.blocks), !.saw = TRUE, !.stop = reply.stop])
  IN Answer(p.blocks, p.stop)

Whole(format, reply) ==
  CASE format = "anthropic" -> WholeAnthropic(reply)
    [] format = "openai" -> WholeOpenAI(reply)
    [] format = "responses" -> WholeResponses(reply)
    [] format = "gemini" -> WholeGemini(reply)

=============================================================================
