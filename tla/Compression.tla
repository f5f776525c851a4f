---------------------------- MODULE Compression ----------------------------
(***************************************************************************)
(* The compression hooks that run before every call of a provider          *)
(* (compression.go, compression_ops.go): UnifiedCompress, which groups     *)
(* messages into operations and keeps, summarises or archives each of      *)
(* them, and the older ApplyZoneBudgetV2, which keeps a tail that fits.    *)
(* Scores are in thousandths, token counts in the units of Cost.           *)
(***************************************************************************)
EXTENDS Messages

\* Tools with line limits of their own (DefaultToolLimits).
LimitedTools == {"bash", "read", "glob", "grep", "write", "edit"}
MutationTools == {"edit", "write", "bash", "create"}

Overlap(a, b) == Cardinality(a \cap b)
Union(a, b) == Cardinality(a \cup b)
\* jaccardSimilarity in thousandths.
JaccardSimilarity(a, b) ==
  IF a \cup b = {} THEN 0 ELSE (1000 * Overlap(a, b)) \div Union(a, b)

-----------------------------------------------------------------------------
\* An operation is an interval of messages: from a user text up to the next
\* one that starts another operation.
Part(ms, from, to) == SubSeq(ms, from, IF to < Len(ms) THEN to ELSE Len(ms))
UsesIn(ms) == UNION {Of(ms[i], "use") : i \in DOMAIN ms}
Tools(ms) == {b.call[2].tool : b \in UsesIn(ms)}
Files(ms) == {b.call[2].file : b \in UsesIn(ms)} \ {"none"}
Mutates(tools) == tools \cap MutationTools # {}

\* detectBoundary: any signal exceeds the threshold; without a signal only
\* two groups that both use tools stay together.
DetectBoundary(ms, from, i) ==
  LET prev == Part(ms, from, i - 1)
      next == Part(ms, i + 1, i + 3)
      bothFiles == Files(prev) # {} /\ Files(next) # {}
      scopeChange == bothFiles /\ JaccardSimilarity(Files(prev), Files(next)) < 200
      diverged == scopeChange \/ (Files(next) # {} /\ Files(prev) = {})
      transition == /\ diverged
                    /\ Tools(prev) # {} /\ Tools(next) # {}
                    /\ Mutates(Tools(prev)) # Mutates(Tools(next))
      intent == /\ ms[i - 1].role = "assistant"
                /\ \E b \in Of(ms[i - 1], "text") : b.size = "moving"
  IN \/ scopeChange \/ transition \/ intent
     \/ Tools(prev) = {} \/ Tools(next) = {}

\* The indices where operations begin; the first message is left out.
OperationStarts(ms) ==
  FoldLeft(LAMBDA starts, i :
             IF /\ ms[i].role = "user" /\ HasTextContent(ms[i])
                /\ starts = {} \/ DetectBoundary(ms, Max(starts), i)
             THEN starts \cup {i} ELSE starts,
           {}, [k \in 1..Len(ms) - 1 |-> k + 1])

\* The operations themselves, as [start, messages].
GroupOperations(ms) ==
  LET starts == SetToSortSeq(OperationStarts(ms), <)
      End(k) == IF k = Len(starts) THEN Len(ms) ELSE starts[k + 1] - 1
  IN [k \in DOMAIN starts |->
        [start |-> starts[k], messages |-> SubSeq(ms, starts[k], End(k))]]

\* The last assistant message with text; its class decides significance.
LongOutcome(ms) ==
  LET said == {i \in DOMAIN ms : ms[i].role = "assistant" /\ HasTextContent(ms[i])}
  IN said # {} /\ \E b \in Of(ms[Max(said)], "text") : b.size = "long"
HasOutcome(ms) ==
  \E i \in DOMAIN ms : ms[i].role = "assistant" /\ HasTextContent(ms[i])

\* Later operations on the same files, or whose request refers back.
CausalDependencyScore(op, later) ==
  LET similarity(o) == IF Files(op.messages) = {} \/ Files(o.messages) = {}
                       THEN 0
                       ELSE JaccardSimilarity(Files(op.messages), Files(o.messages))
      refersBack(o) == /\ HasOutcome(op.messages)
                       /\ \E b \in Of(o.messages[1], "text") : b.size = "earlier"
      dependency(o) == IF similarity(o) > 300 THEN 800
                       ELSE IF refersBack(o) THEN 600
                       ELSE IF similarity(o) > 0 THEN 400 ELSE 0
  IN Max({0} \cup {dependency(later[k]) : k \in DOMAIN later})

\* exp(-0.693 age / 4) for the ages that can occur with few operations.
Recency == <<841, 707, 595, 500, 420, 354, 297, 250>>

ScoreOperation(op, age, activeFiles, later) ==
  LET tools == Tools(op.messages)
      opType == IF Mutates(tools) THEN 800 ELSE IF tools # {} THEN 300 ELSE 0
      outcome == IF LongOutcome(op.messages) THEN 1000 ELSE 0
  IN (Recency[age] + JaccardSimilarity(Files(op.messages), activeFiles)
        + outcome + opType + CausalDependencyScore(op, later)) \div 5

-----------------------------------------------------------------------------
\* CompressMessage with 2000 characters.  A result of a tool with line limits
\* is cut by lines only, so that few long lines stay whole.
CompressBlock(b, names) ==
  LET limited == b.call \in names /\ b.call[2].tool \in LimitedTools
  IN IF \/ b.kind = "text" /\ b.size = "long"
        \/ b.kind = "result" /\ b.size = "tall"
        \/ b.kind = "result" /\ b.size = "wide" /\ ~limited
     THEN [b EXCEPT !.size = "cut"] ELSE b
CompressMessages(ms, names) ==
  [i \in DOMAIN ms |->
     Message(ms[i].role, {CompressBlock(b, names) : b \in ms[i].blocks})]

\* The exchange sort of candidates by score, highest first.
SortByScore(s) ==
  LET n == Len(s)
      pairs == SetToSortSeq({p \in (1..n) \X (1..n) : p[1] < p[2]},
                            LAMBDA p, q : p[1] * n + p[2] < q[1] * n + q[2])
  IN FoldLeft(LAMBDA a, p :
                IF a[p[2]].score > a[p[1]].score
                THEN [a EXCEPT ![p[1]] = a[p[2]], ![p[2]] = a[p[1]]] ELSE a,
              s, pairs)

\* Candidates are taken while they fit; none may take half of the zone.
FillZone2(candidates, activeTokens, zone2) ==
  LET cap == IF zone2 \div 2 <= 0 THEN 1 ELSE zone2 \div 2
  IN FoldLeft(LAMBDA acc, c :
                IF c.tokens > cap \/ acc.used + c.tokens > zone2 THEN acc
                ELSE [used |-> acc.used + c.tokens, kept |-> acc.kept \cup {c.index}],
              [used |-> activeTokens, kept |-> {}], candidates).kept

OperationToMessage(op) ==
  Message("assistant", {Text("short", Covered(op.messages))})
\* Mutant: only the first archived operation is remembered.
AppendFirstOnly(m, archived) ==
  IF archived = <<>> \/ ~HasTextContent(m) THEN m
  ELSE Message(m.role, m.blocks \cup {Text("short", Covered(archived[1].messages))})

AppendWorkingMemory(m, archived) ==
  IF archived = <<>> \/ ~HasTextContent(m) THEN m
  ELSE Message(m.role, m.blocks \cup
         {Text("short", UNION {Covered(archived[k].messages) : k \in DOMAIN archived})})

\* The operations with their scores; the recent window has a floor.
ScoredOperations(ops, count, keepLast) ==
  LET n == Len(ops)
      raw(i) == ScoreOperation(ops[i], n - i, Files(ops[n].messages), SubSeq(ops, i + 1, n))
      recent(i) == ops[i].start - 1 >= count - keepLast
  IN [i \in DOMAIN ops |->
        IF i = n THEN 1000
        ELSE IF recent(i) /\ raw(i) < 300 THEN 300 ELSE raw(i)]

\* The order of the result: first message, pinned, templates, kept, active.
Assemble(ops, score, kept, names, first, pinned) ==
  LET n == Len(ops)
      dropped == SelectSeq([i \in 1..n - 1 |-> i], LAMBDA i : i \notin kept)
      Pick(Test(_)) == SelectSeq(dropped, Test)
      templates == Pick(LAMBDA i : score[i] >= 300)
      archived == Pick(LAMBDA i : score[i] < 300)
      keptSeq == SetToSortSeq(kept \cup {n}, <)
  IN <<AppendWorkingMemory(first, [k \in DOMAIN archived |-> ops[archived[k]]])>>
       \o pinned
       \o [k \in DOMAIN templates |-> OperationToMessage(ops[templates[k]])]
       \o FlattenSeq([k \in DOMAIN keptSeq |->
                        CompressMessages(ops[keptSeq[k]].messages, names)])

UnifiedCompress(ms, cfg) ==
  LET n == Len(ms)
      pinnedEnd == IF cfg.keepFirst = 0 THEN 1
                   ELSE IF 1 + cfg.keepFirst > n THEN n ELSE 1 + cfg.keepFirst
      pinned == SubSeq(ms, 2, pinnedEnd)
      compressible == <<ms[1]>> \o SubSeq(ms, pinnedEnd + 1, n)
      ops == GroupOperations(compressible)
      names == {b.call : b \in UNION {UsesIn(ops[k].messages) : k \in DOMAIN ops}}
      score == ScoredOperations(ops, Len(compressible), cfg.keepLast)
      Tokens(i) == EstimateTokens(CompressMessages(ops[i].messages, names))
      usable == cfg.window - cfg.maxTokens
      unused == (usable * cfg.archivePct) \div 100
                  - EstimateTokens(<<ms[1]>>) - EstimateTokens(pinned)
      zone2 == (usable * 25) \div 100 + (IF unused < 0 THEN 0 ELSE unused)
      candidates == [i \in 1..Len(ops) - 1 |->
                       [index |-> i, score |-> score[i], tokens |-> Tokens(i)]]
  IN IF n <= cfg.keepLast \/ (cfg.minMessages > 0 /\ n < cfg.minMessages) THEN ms
     ELSE IF ops = <<>> \/ usable <= 0 THEN ms
     ELSE Assemble(ops, score,
                   FillZone2(SortByScore(candidates), Tokens(Len(ops)), zone2),
                   names, ms[1], pinned)

-----------------------------------------------------------------------------
\* The scan of ApplyZoneBudgetV2, from the last message backwards.
ZoneScan(ms, zone2, cap) ==
  LET Step(s, i) ==
        LET t == EstimateTokens(<<ms[i]>>)
            closes == s.inOp /\ ms[i].role = "user" /\ HasTextContent(ms[i])
            oversized == closes /\ s.op > cap
            tokens == IF oversized THEN s.tokens - s.op ELSE s.tokens
            op == IF closes THEN 0 ELSE s.op
            start == IF oversized THEN i + 1 ELSE s.start
        IN IF s.stop THEN s
           ELSE IF tokens + t > zone2
           THEN [s EXCEPT !.stop = TRUE, !.start = start, !.op = op]
           ELSE [stop |-> FALSE, tokens |-> tokens + t, op |-> op + t,
                 start |-> i, inOp |-> TRUE]
      n == Len(ms)
  IN FoldLeft(Step,
              [stop |-> FALSE, tokens |-> 0, op |-> 0, start |-> n + 1, inOp |-> FALSE],
              [k \in 1..n - 1 |-> n + 1 - k])

ApplyZoneBudgetV2(ms, cfg) ==
  LET n == Len(ms)
      usable == cfg.window - cfg.maxTokens
      unused == (usable * cfg.archivePct) \div 100 - EstimateTokens(<<ms[1]>>)
      zone2 == (usable * 25) \div 100 + (IF unused < 0 THEN 0 ELSE unused)
      cap == IF zone2 \div 2 <= 0 THEN 1 ELSE zone2 \div 2
      scan == ZoneScan(ms, zone2, cap)
      nextOps == {j \in scan.start + 1..n : ms[j].role = "user" /\ HasTextContent(ms[j])}
      start == IF /\ scan.inOp /\ scan.op > cap /\ scan.start > 2
                  /\ nextOps # {}
               THEN Min(nextOps) ELSE scan.start
  IN IF n = 0 THEN ms
     ELSE IF usable <= 0
     THEN IF n <= 2 THEN ms ELSE <<ms[1], ms[n]>>
     ELSE <<ms[1]>> \o SubSeq(ms, start, n)

=============================================================================
