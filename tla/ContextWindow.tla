--------------------------- MODULE ContextWindow ---------------------------
(***************************************************************************)
(* How a turn of runLoop turns the stored conversation into a request      *)
(* (loop.go:167-230): the head is read, buildPrompt collects its chain     *)
(* through the prompt cache, the chain is sanitised, stale tool results    *)
(* are shortened, a compression hook runs and, if the context is still too *)
(* long, the conversation is compacted, in the store or, when that fails,  *)
(* in memory.  Several runs of one agent share its cache.                  *)
(***************************************************************************)
EXTENDS Compression, Requests

CONSTANTS
  Runs,        \* runs of the agent that may overlap
  Setups,      \* the configurations, see ContextAssumption
  CallTypes    \* the [tool, file] of a tool call

\* What of the configuration the proofs need: the messages kept after a
\* compaction and the nodes the prompt cache walks back are counted, what is
\* said and done is of a known kind.
ASSUME ContextAssumption ==
  \A s \in Setups :
    /\ s.keepLast \in Nat /\ s.walkLimit \in Nat
    /\ s.asks \cup s.answers \subseteq TextClasses
    /\ s.calls \subseteq SUBSET CallTypes
    /\ s.shapes \subseteq ResultShapes

VARIABLES
  setup,       \* the configuration of this behaviour
  node,        \* the stored messages: [parent, message]; ids count up
  gone,        \* ids that RemoveNode has deleted
  head,        \* head of the current branch, 0 when there is none
  cache,       \* promptCacheHead and promptCacheNodes
  run          \* per run: where it is, what it has read and its request

vars == <<setup, node, gone, head, cache, run>>

Ids == DOMAIN node
Live == Ids \ gone
Places0 == {"idle", "load", "walk", "reload", "rewalk", "squeeze", "compact", "sent"}
Settled == [at |-> "idle", head |-> 0, seen |-> [head |-> 0, nodes |-> <<>>],
            chain |-> <<>>, request |-> <<>>, compacted |-> FALSE]

Init ==
  /\ setup \in Setups
  /\ node = <<>>
  /\ gone = {}
  /\ head = 0
  /\ cache = [head |-> 0, nodes |-> <<>>]
  /\ run = [r \in Runs |-> Settled]

\* GetAncestors: the parents, as far as there are rows.
Chain(n) ==
  LET up[m \in 0..Len(node)] ==
        IF m \notin Live THEN <<>> ELSE Append(up[node[m].parent], m)
  IN up[n]
NodesToMessages(chain) == [i \in DOMAIN chain |-> node[chain[i]].message]

-----------------------------------------------------------------------------
\* The conversation grows: what channels, providers and tools add.

\* One run adds nodes between its turns; of several, another may at any time.
AddNode(message) ==
  /\ Len(node) < setup.maxNode
  /\ setup.moves \/ \A r \in Runs : run[r].at = "idle"
  /\ node' = Append(node, [parent |-> head, message |-> message])
  /\ head' = Len(node) + 1
  /\ UNCHANGED <<setup, gone, cache, run>>

LastRole == IF head = 0 THEN "none" ELSE node[head].message.role
\* Calls of the last answer without a result, while nothing was typed since.
Pending ==
  LET ms == NodesToMessages(Chain(head))
      spoken == {i \in DOMAIN ms : ms[i].role \in {"user", "assistant"}}
  IN IF spoken = {} THEN {}
     ELSE {b.call : b \in Of(ms[Max(spoken)], "use")}
            \ {b.call : b \in UNION {Of(ms[i], "result") : i \in DOMAIN ms}}

\* A message of the user, also while tool calls wait for their results.
AddUser ==
  \E size \in setup.asks :
    AddNode(Message("user", {Text(size, {Len(node) + 1})}))

AddAnswer ==
  /\ LastRole \in {"user", "tool"} /\ Pending = {}
  /\ \E size \in setup.answers :
       AddNode(Message("assistant", {Text(size, {Len(node) + 1})}))

AddCalls ==
  /\ LastRole \in {"user", "tool"} /\ Pending = {}
  /\ \E types \in setup.calls :
       LET n == Len(node) + 1
       IN AddNode(Message("assistant", {Use(<<n, t>>, n) : t \in types}))

AddThinking ==
  /\ setup.thinking
  /\ LastRole = "assistant"
  /\ AddNode(Message("thinking", {Text("short", {Len(node) + 1})}))

AddResult ==
  /\ LastRole \in {"assistant", "thinking", "tool"}
  /\ Pending # {}
  /\ \E size \in setup.shapes :
       LET call == CHOOSE c \in Pending : TRUE
       IN AddNode(Message("tool", {Result(call, size, Len(node) + 1)}))

\* Another branch or none: /switch, /fork, /clear and /new.
MoveHead ==
  /\ setup.moves
  /\ head' \in (Live \cup {0}) \ {head}
  /\ UNCHANGED <<setup, node, gone, cache, run>>

\* RemoveNode takes back the user message of a failed first turn.
TakeBack ==
  /\ setup.moves
  /\ LastRole = "user"
  /\ \A n \in Live : node[n].parent # head
  /\ gone' = gone \cup {head}
  /\ head' = node[head].parent
  /\ UNCHANGED <<setup, node, cache, run>>

-----------------------------------------------------------------------------
\* buildPrompt.

\* Mutant: the nodes walked are appended to whatever is cached.
PromptUnreached(h, seen) ==
  LET chain == Chain(h)
      at == {i \in DOMAIN chain : chain[i] = seen.head}
  IN IF h = 0 THEN <<>>
     ELSE IF h = seen.head /\ seen.nodes # <<>> THEN seen.nodes
     ELSE seen.nodes \o SubSeq(chain, Max(at \cup {0}) + 1, Len(chain))

\* The new nodes from h back to the cached head, oldest first; without a
\* cached head, or one that is not reached, the whole chain.
Prompt(h, seen) ==
  LET chain == Chain(h)
      at == {i \in DOMAIN chain : chain[i] = seen.head}
      walk == {i \in DOMAIN chain : i > Len(chain) - setup.walkLimit}
  IN IF h = 0 THEN <<>>
     ELSE IF h = seen.head /\ seen.nodes # <<>> THEN seen.nodes
     ELSE IF seen.nodes # <<>> /\ at \cap walk # {}
     THEN seen.nodes \o SubSeq(chain, Min(at) + 1, Len(chain))
     ELSE chain

\* GetHead.
ReadHead(r) ==
  /\ run[r].at = "idle"
  /\ Len(node) >= setup.stored
  /\ setup.moves \/ (LastRole \in {"user", "tool"} /\ Pending = {})
  /\ run' = [run EXCEPT ![r] = [Settled EXCEPT !.at = "load", !.head = head]]
  /\ UNCHANGED <<setup, node, gone, head, cache>>

\* The first critical section: head and nodes of the cache are read together.
LoadCache(r) ==
  /\ run[r].at \in {"load", "reload"}
  /\ run' = [run EXCEPT ![r].at = IF @ = "load" THEN "walk" ELSE "rewalk",
                        ![r].seen = cache]
  /\ UNCHANGED <<setup, node, gone, head, cache>>

\* The walk over rows that never change, and the second critical section.
\* After a compaction in the store the new chain is sent as it is.
StoreCache(r) ==
  /\ run[r].at \in {"walk", "rewalk"}
  /\ LET chain == Prompt(run[r].head, run[r].seen)
     IN /\ cache' = [head |-> run[r].head, nodes |-> chain]
        /\ run' = [run EXCEPT
             ![r].at = IF @ = "walk" THEN "squeeze" ELSE "sent",
             ![r].chain = chain,
             ![r].request = IF run[r].at = "walk" THEN <<>>
                            ELSE SanitizeMessages(NodesToMessages(chain))]
  /\ UNCHANGED <<setup, node, gone, head>>

-----------------------------------------------------------------------------
\* What the hooks that cmd/main.go registers do before a call.
CompressionHook(ms) ==
  CASE setup.hook = "unified" -> UnifiedCompress(ms, setup)
    [] setup.hook = "zone" -> ApplyZoneBudgetV2(ms, setup)
    [] OTHER -> ms

\* NeedsCompaction: the tokens the provider counted last time, if any, else
\* the estimate, and the number of messages.
NeedsCompaction(ms, actual) ==
  LET tokens == IF actual > 0 THEN actual ELSE EstimateTokens(ms)
      tokenHit == tokens >= (setup.window * setup.threshold) \div 100
      msgHit == setup.maxMessages > 0 /\ Len(ms) >= setup.maxMessages
  IN /\ setup.mode # "off"
     /\ CASE setup.trigger = "messages" -> msgHit
          [] setup.trigger = "both" -> tokenHit \/ msgHit
          [] OTHER -> tokenHit

Squeeze(r) ==
  /\ run[r].at = "squeeze"
  /\ LET clean == SanitizeMessages(NodesToMessages(run[r].chain))
         ms == CompressionHook(MicroCompact(clean, setup.keepLast))
     IN \E actual \in {0, setup.window} :
          run' = [run EXCEPT
            ![r].at = IF NeedsCompaction(ms, actual) THEN "compact" ELSE "sent",
            ![r].request = ms]
  /\ UNCHANGED <<setup, node, gone, head, cache>>

\* CompactDAG: a branch from the root with a summary and copies of the tail.
CompactDAG(r) ==
  /\ run[r].at = "compact"
  /\ LET chain == Chain(head)
         ms == NodesToMessages(chain)
         start == TailStart(ms, setup.keepLast)
         summary == Message("assistant",
                      {Text("short", Covered(SubSeq(ms, 2, start - 1)))})
         added == <<summary>> \o SubSeq(ms, start, Len(ms))
         n == Len(node)
     IN IF Len(ms) <= setup.keepLast + 1
        THEN /\ run' = [run EXCEPT ![r].at = "reload", ![r].head = head]
             /\ UNCHANGED <<node, head>>
        ELSE /\ n + Len(added) <= setup.maxNode + setup.keepLast + 1
             /\ node' = node \o [i \in DOMAIN added |->
                          [parent |-> IF i = 1 THEN chain[1] ELSE n + i - 1,
                           message |-> added[i]]]
             /\ head' = n + Len(added)
             /\ run' = [run EXCEPT ![r].at = "reload", ![r].head = n + Len(added),
                                   ![r].compacted = TRUE]
  /\ UNCHANGED <<setup, gone, cache>>

\* CompactDAG reports an error: the messages in memory are cut instead.
CompactInMemory(r) ==
  /\ run[r].at = "compact"
  /\ LET ms == IF setup.mode = "sliding"
               THEN CompactSliding(run[r].request, setup.keepLast)
               ELSE CompactLLM(run[r].request, setup.keepLast)
     IN run' = [run EXCEPT ![r].at = "sent", ![r].compacted = TRUE,
                           ![r].request = SanitizeMessages(ms)]
  /\ UNCHANGED <<setup, node, gone, head, cache>>

-----------------------------------------------------------------------------
\* The answer ends the turn.
EndTurn(r) ==
  /\ run[r].at = "sent"
  /\ run' = [run EXCEPT ![r] = Settled]
  /\ UNCHANGED <<setup, node, gone, head, cache>>

Grow == AddUser \/ AddAnswer \/ AddCalls \/ AddThinking \/ AddResult
Turn(r) ==
  \/ ReadHead(r) \/ LoadCache(r) \/ StoreCache(r) \/ Squeeze(r)
  \/ CompactDAG(r) \/ CompactInMemory(r) \/ EndTurn(r)
Active == {r \in Runs : r \in setup.runs}

Next == Grow \/ MoveHead \/ TakeBack \/ (\E r \in Active : Turn(r))

Spec == Init /\ [][Next]_vars

-----------------------------------------------------------------------------
(* Properties.                                                             *)

IsMessages(ms) == \A i \in DOMAIN ms :
  /\ ms[i].role \in Roles
  /\ \A b \in ms[i].blocks :
       /\ b.kind \in {"text", "use", "result"}
       /\ b.call = NoCall \/ (b.call[1] \in Ids /\ b.call[2] \in CallTypes)
       /\ b.size \in TextClasses \cup ResultShapes
       /\ b.covers \subseteq Ids

\* The state is well-formed: parents come before their children, runs and the
\* cache hold ids of stored messages.
TypeOK ==
  /\ setup \in Setups
  /\ \A n \in Ids : node[n].parent \in 0..n - 1 /\ IsMessages(<<node[n].message>>)
  /\ gone \subseteq Ids
  /\ head \in Live \cup {0}
  /\ cache.head \in Ids \cup {0} /\ ToSet(cache.nodes) \subseteq Ids
  /\ \A r \in Runs : /\ run[r].at \in Places0
                      /\ run[r].head \in Ids \cup {0}
                      /\ ToSet(run[r].chain) \subseteq Ids
                      /\ IsMessages(run[r].request)

\* The prompt cache never changes what is sent: the collected nodes are the
\* chain of the head that was read, whichever other run, branch switch,
\* compaction or removal came between the two critical sections
\* (loop.go:501-507, "the result is always correct").
PromptIsChain ==
  \A r \in Runs :
    run[r].at \in {"squeeze", "sent"} /\ run[r].head \in Live
      => run[r].chain = Chain(run[r].head)

\* In whatever format the request is written, every tool result has its call
\* before it, and from a call to its result nothing is said but calls and
\* results, whatever was shortened, summarised, dropped or merged on the way
\* (context.go:366-374: the provider rejects anything else).  Not so with
\* ApplyZoneBudgetV2, which cuts between a call and its result after the repair.
RequestPaired ==
  \A r \in Runs : run[r].at = "sent" /\ setup.hook # "zone" =>
    \A ms \in Formats(run[r].request) :
      /\ AnsweredInPlace(ms)
      /\ \A i \in DOMAIN ms : \A b \in Of(ms[i], "result") : Paired(ms, i, b)

\* The message the user is waiting on is part of the request, unless the
\* conversation was compacted in this turn (compression.go:457, "Active op always
\* gets in first"): as it was typed, but that compression cuts a long text, the
\* one of the active operation too (compression.go:430).  ApplyZoneBudgetV2 keeps
\* the last messages that fit, whoever they are from.
AsTyped(b, m) ==
  \/ b \in m.blocks
  \/ /\ setup.hook = "unified"
     /\ CompressBlock(b, {}) \in m.blocks
AskSent ==
  \A r \in Runs :
    LET asks == {n \in ToSet(run[r].chain) : node[n].message.role = "user"}
        sent == {i \in DOMAIN run[r].request : run[r].request[i].role = "user"}
    IN run[r].at = "sent" /\ ~run[r].compacted /\ setup.hook # "zone" /\ asks # {}
         => \E i \in sent :
              \A b \in node[Max(asks)].message.blocks : AsTyped(b, run[r].request[i])

\* Compression forgets no operation: what is not sent is in a template or in
\* the working memory (compression.go:489-503).
Spoken(ms) ==
  LET starts == OperationStarts(ms)
  IN IF starts = {} THEN {} ELSE Covered(SubSeq(ms, Min(starts), Len(ms)))
OperationsRemembered ==
  \A r \in Runs :
    run[r].at = "sent" /\ ~run[r].compacted /\ setup.hook = "unified" /\ setup.keepFirst = 0
      => Spoken(SanitizeMessages(NodesToMessages(run[r].chain)))
           \subseteq Covered(run[r].request)

=============================================================================
