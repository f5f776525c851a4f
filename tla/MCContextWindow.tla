--------------------------- MODULE MCContextWindow ---------------------------
(* Configurations of ContextWindow for TLC.                                 *)
EXTENDS ContextWindow

ReadA == [tool |-> "read", file |-> "a"]
EditB == [tool |-> "edit", file |-> "b"]
Mcp   == [tool |-> "mcp", file |-> "none"]
MCCallTypes == {ReadA, EditB, Mcp}

\* A conversation of one run, no hook, compaction by the number of messages.
Plain ==
  [maxNode |-> 6, stored |-> 1, runs |-> {"r1"}, moves |-> FALSE, thinking |-> TRUE,
   walkLimit |-> 9, asks |-> {"short"}, answers |-> {"long"},
   calls |-> {{ReadA}, {ReadA, EditB}}, shapes |-> {"short", "wide"},
   hook |-> "off", keepFirst |-> 0, keepLast |-> 2, minMessages |-> 0,
   window |-> 60, maxTokens |-> 10, archivePct |-> 25,
   mode |-> "llm", trigger |-> "both", threshold |-> 65, maxMessages |-> 5]

\* Two runs, a moving head and a small walk limit: the prompt cache.
Cached ==
  [Plain EXCEPT !.maxNode = 3, !.runs = {"r1", "r2"}, !.moves = TRUE, !.walkLimit = 2,
                !.thinking = FALSE, !.calls = {}, !.shapes = {}, !.mode = "off"]

\* Unified compression of a stored conversation of several operations.
Unified ==
  [Plain EXCEPT !.maxNode = 9, !.stored = 7, !.thinking = FALSE,
                !.answers = {"long", "moving"},
                !.calls = {{ReadA}, {EditB}}, !.shapes = {"tall"},
                !.hook = "unified", !.mode = "llm", !.trigger = "tokens",
                !.window = 24, !.maxTokens = 4, !.threshold = 90]

\* A window so small that only the active operation stays, and questions so long
\* that compression cuts them.
Tight == [Unified EXCEPT !.window = 12, !.maxNode = 7, !.asks = {"short", "long"}]

\* Zones that cut the oldest messages, over a plain conversation.
Zone == [Unified EXCEPT !.hook = "zone", !.maxTokens = 4]

Sliding == [Plain EXCEPT !.mode = "sliding", !.trigger = "messages", !.thinking = FALSE]
PassSetups == {Plain, Sliding, Cached, Unified, Tight, Zone}
=============================================================================
