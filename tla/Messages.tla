------------------------------ MODULE Messages ------------------------------
(***************************************************************************)
(* The messages of a request and what context.go and compression.go do to  *)
(* them outside of compression proper: pairing of tool calls and results,  *)
(* sanitizeMessages, MicroCompact, CompactSliding and CompactLLM.          *)
(*                                                                         *)
(* A message is a role and a set of content blocks.  Of a text only its    *)
(* class is kept, of a tool call its tool and file, of a result its shape: *)
(* "tall" is many lines, "wide" is few lines that are too long.  "covers"  *)
(* is the set of stored messages whose content a block carries: one for    *)
(* the block of a stored message, several for a summary.                   *)
(***************************************************************************)
EXTENDS Integers, Sequences, SequencesExt

Roles == {"user", "assistant", "tool", "thinking"}
TextClasses == {"short", "long", "moving", "earlier", "cut"}
ResultShapes == {"short", "tall", "wide", "cut"}
NoCall == <<0, [tool |-> "none", file |-> "none"]>>

Text(size, covers) ==
  [kind |-> "text", call |-> NoCall, size |-> size, covers |-> covers]
Use(call, n) ==
  [kind |-> "use", call |-> call, size |-> "short", covers |-> {n}]
Result(call, size, n) ==
  [kind |-> "result", call |-> call, size |-> size, covers |-> {n}]
Message(role, blocks) == [role |-> role, blocks |-> blocks]

Of(m, kind) == {b \in m.blocks : b.kind = kind}
HasTextContent(m) == Of(m, "text") # {}
Covered(ms) == UNION {b.covers : b \in UNION {ms[i].blocks : i \in DOMAIN ms}}
Brief(size) == size \notin {"long", "tall", "wide"}

\* A coarse EstimateTokens: a block costs one unit, an oversized one eight.
Cost(b) == IF Brief(b.size) THEN 1 ELSE 8
EstimateTokens(ms) ==
  FoldLeft(LAMBDA sum, m : sum + MapThenSumSet(Cost, m.blocks), 0, ms)

-----------------------------------------------------------------------------
\* Where the tool_use or the tool_result of a call stands.
Places(ms, kind, call) ==
  {i \in DOMAIN ms : \E b \in Of(ms[i], kind) : b.call = call}

\* A call needs a result at or after it, a result a call at or before it;
\* only the first occurrence of the other half is looked at.
Paired(ms, i, b) ==
  \/ b.kind = "text"
  \/ /\ b.kind = "use"
     /\ Places(ms, "result", b.call) # {}
     /\ Min(Places(ms, "result", b.call)) >= i
  \/ /\ b.kind = "result"
     /\ Places(ms, "use", b.call) # {}
     /\ Min(Places(ms, "use", b.call)) <= i

\* Mutant: only results without a call are dropped.
RepairResultsOnly(ms) ==
  SelectSeq([i \in DOMAIN ms |->
               Message(ms[i].role, {b \in ms[i].blocks :
                                      b.kind = "use" \/ Paired(ms, i, b)})],
            LAMBDA m : m.blocks # {})

RepairToolPairing(ms) ==
  SelectSeq([i \in DOMAIN ms |->
               Message(ms[i].role, {b \in ms[i].blocks : Paired(ms, i, b)})],
            LAMBDA m : m.blocks # {})

\* Mutant: the content of the second of two neighbours is lost.
MergeRolesKeepsFirst(ms) ==
  FoldLeft(LAMBDA out, m :
             IF out # <<>> /\ Last(out).role = m.role /\ m.role # "tool"
             THEN out ELSE Append(out, m),
           <<>>, ms)

\* Pass 3: neighbours with the same role become one message, tools excepted.
MergeRoles(ms) ==
  FoldLeft(LAMBDA out, m :
             IF out # <<>> /\ Last(out).role = m.role /\ m.role # "tool"
             THEN [out EXCEPT ![Len(out)].blocks = @ \cup m.blocks]
             ELSE Append(out, m),
           <<>>, ms)

\* Pass 5: a conversation that ends with the assistant gets "Continue.".
Nudge(ms) ==
  IF ms # <<>> /\ Last(ms).role = "assistant"
  THEN Append(ms, Message("user", {Text("short", {})}))
  ELSE ms

SanitizeMessages(ms) ==
  Nudge(MergeRoles(RepairToolPairing(
    SelectSeq(ms, LAMBDA m : m.role # "thinking"))))

-----------------------------------------------------------------------------
\* The first two non-empty lines of a result and a remark: a result made of
\* few long lines keeps them whole.
MicroCompactBlock(b) ==
  IF b.kind = "result" /\ b.size = "tall" THEN [b EXCEPT !.size = "cut"] ELSE b

MicroCompact(ms, keepLast) ==
  [i \in DOMAIN ms |->
     IF i = 1 \/ i > Len(ms) - keepLast
     THEN ms[i]
     ELSE Message(ms[i].role, {MicroCompactBlock(b) : b \in ms[i].blocks})]

-----------------------------------------------------------------------------
\* The first index from start on that is not a tool message, or Len + 1.
SnapTailStart(ms, start) ==
  Min({i \in start..Len(ms) : ms[i].role # "tool"} \cup {Len(ms) + 1})

TailStart(ms, keepLastN) == SnapTailStart(ms, Len(ms) - keepLastN + 1)

CompactSliding(ms, keepLastN) ==
  IF Len(ms) <= keepLastN + 1
  THEN ms
  ELSE <<ms[1]>> \o SubSeq(ms, TailStart(ms, keepLastN), Len(ms))

CompactLLM(ms, keepLastN) ==
  IF Len(ms) <= keepLastN + 1
  THEN ms
  ELSE LET start == TailStart(ms, keepLastN)
           middle == SubSeq(ms, 2, start - 1)
       IN <<ms[1], Message("assistant", {Text("short", Covered(middle))})>>
             \o SubSeq(ms, start, Len(ms))

=============================================================================
