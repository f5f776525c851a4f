------------------------------ MODULE Requests ------------------------------
(***************************************************************************)
(* How the messages of a request are written for each provider             *)
(* (anthropic.go, openrouter.go, gemini.go, openai_chatgpt.go).  What goes *)
(* out is again a sequence of messages, with the roles and the grouping of *)
(* the provider's format; an item of the Responses format is a message     *)
(* with one block.                                                         *)
(***************************************************************************)
EXTENDS Messages

NonEmpty(ms) == SelectSeq(ms, LAMBDA m : m.blocks # {})
Written(ms, Write(_)) == FlattenSeq([i \in DOMAIN ms |-> Write(ms[i])])

\* A message of its own for every block.
Each(role, blocks) == SetToSeq({Message(role, {b}) : b \in blocks})

BuildAnthropicMessages(ms) ==
  LET Write(m) == IF m.role = "tool" THEN NonEmpty(<<Message("user", Of(m, "result"))>>) ELSE <<m>>
  IN Nudge(Written(ms, Write))

BuildMessages(ms) ==
  LET Write(m) ==
        CASE m.role = "tool" -> Each("tool", Of(m, "result"))
          [] m.role = "assistant" -> <<Message("assistant", Of(m, "text") \cup Of(m, "use"))>>
          [] OTHER -> <<m>>
  IN Nudge(Written(ms, Write))

ToGeminiContents(ms) ==
  LET Write(m) ==
        CASE m.role = "tool" -> <<Message("user", Of(m, "result"))>>
          [] m.role = "assistant" -> <<Message("model", Of(m, "text") \cup Of(m, "use"))>>
          [] OTHER -> <<Message("user", Of(m, "text"))>>
  IN NonEmpty(Written(ms, Write))

BuildResponsesInput(ms) ==
  LET Write(m) ==
        CASE m.role = "tool" -> Each("tool", Of(m, "result"))
          [] m.role = "assistant" ->
               NonEmpty(<<Message("assistant", Of(m, "text"))>>) \o Each("assistant", Of(m, "use"))
          [] OTHER -> <<Message("user", Of(m, "text"))>>
  IN Written(ms, Write)

Formats(ms) ==
  {BuildAnthropicMessages(ms), BuildMessages(ms), ToGeminiContents(ms), BuildResponsesInput(ms)}

\* From a call to its result nothing is said: only calls and results between.
AnsweredInPlace(ms) ==
  \A i \in DOMAIN ms : \A use \in Of(ms[i], "use") :
    \E j \in i + 1..Len(ms) :
      /\ \E result \in Of(ms[j], "result") : result.call = use.call
      /\ \A k \in i + 1..j : ~HasTextContent(ms[k])
=============================================================================
