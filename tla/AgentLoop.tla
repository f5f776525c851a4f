----------------------------- MODULE AgentLoop -----------------------------
(***************************************************************************)
(* The agent loop of internal/core/loop.go (runLoop) on top of the store    *)
(* of Dag: what a run appends to the conversation, in which order, and what *)
(* it takes back.  The main agent serves the user; sub-agents run the same  *)
(* loop on a handle of their own, forked from the conversation that spawned *)
(* them.  The user issues the commands of internal/commands/commands.go at  *)
(* any moment: what is typed during a run is taken for steering, but the    *)
(* palette and the list of sessions carry a command out beside the loop, on *)
(* the handle it runs on.  At any moment the process may die and be started *)
(* again on the same database.                                              *)
(*                                                                         *)
(* What a run promises does not survive every command that comes in its     *)
(* way.  The history variable disturbed names the runs such a command has   *)
(* disturbed, and the properties say what holds for the others.             *)
(*                                                                         *)
(* A step is one access to the store, so everything another loop, the user  *)
(* or a crash can do between two accesses is explored.  GetHead followed at *)
(* once by AddNode on its result is one step in the middle of a run: only a *)
(* command that disturbs the run can come in between, and its effect there  *)
(* (a message on the new branch under a head of the old) is that of one     *)
(* before Answer.  Where a run begins the two are apart.                    *)
(*                                                                         *)
(* Token counts, texts and tool arguments are not modelled: whether the     *)
(* context needs compaction, what the provider answers and what a hook      *)
(* decides are choices.                                                     *)
(***************************************************************************)
EXTENDS Dag

CONSTANTS
  Loops,           \* what may be in progress at the same time: runs, and /compact
  Screens,         \* those that are no run but the user interface during /compact
  HandleOf,        \* the handle each of them runs on
  Compaction,      \* compaction mode other than "off"
  KeepLastN,       \* messages CompactDAG copies verbatim
  Streaming,       \* the loops of RunStream / ForceStream; Run, which sub-agents
                   \* use (subagents.go:181), calls Complete
  MaxTurns,        \* AgentConfig.MaxTurns; 0 is no limit
  MaxContinuations,\* maxContinuations
  LastAttempt,     \* number of the last LLM attempt (3 in the code)
  Aggressive,      \* steering mode "aggressive"
  Parallel,        \* AgentConfig.ParallelTools
  PersistThinking, \* AgentConfig.PersistThinking
  Commands,        \* the user commands enabled in this instance
  Hooks,           \* the kinds of hook decisions enabled in this instance
  MaxCalls,        \* bound: tool calls in one response
  MaxRuns,         \* bound: user inputs
  MaxSteering,     \* bound: steering messages typed
  MaxGiven,        \* bound: commands
  MaxCrash         \* bound: crashes

ASSUME LoopAssumption ==
  /\ HandleOf \in [Loops -> Handles]
  /\ Screens \cup Streaming \subseteq Loops
  /\ \A l \in Screens : HandleOf[l] = Main
  /\ {Compaction, Aggressive, Parallel, PersistThinking} \subseteq BOOLEAN
  /\ KeepLastN \in Nat \ {0}
  /\ {MaxTurns, MaxContinuations, LastAttempt, MaxCalls} \subseteq Nat
  /\ {MaxRuns, MaxSteering, MaxGiven, MaxCrash} \subseteq Nat

VARIABLES
  run,        \* the local variables of each loop, see Idle
  steering,   \* messages in the Steering channel of the main agent
  typed,      \* steering messages typed so far
  runs,       \* user inputs so far
  given,      \* commands so far
  crashes,    \* crashes so far
  disturbed   \* history: the runs that a command has disturbed since they began

envVars == <<steering, typed, runs, given, crashes, disturbed>>
vars == <<dagVars, run, envVars>>

----------------------------------------------------------------------------
\* The locals of a loop that is not running.
NoResp == [calls |-> 0, truncated |-> FALSE, thinks |-> FALSE, nil |-> TRUE]

Idle ==
  [pc        |-> "idle",   \* where the loop is; "idle" between runs
   at        |-> None,     \* currentHead
   sent      |-> None,     \* the node whose chain this turn's messages are built from
   userNode  |-> None,     \* userNodeID
   turn      |-> 0,
   conts     |-> 0,        \* continuations
   attempt   |-> 0,
   llmErr    |-> "none",   \* "none", "transient", or "fatal" for any other error
   resp      |-> NoResp,   \* resp, NoResp for nil
   reply     |-> None,     \* nodeID, the assistant node of this turn
   autoAlias |-> 0,        \* the result of NextAutoAlias not yet stored
   eager     |-> 0,        \* eagerResults: tools started while the answer streams
   done      |-> 0,        \* tool calls of resp whose result is stored
   copies    |-> <<>>,     \* CompactDAG: the messages of the tail still to add
   copyAt    |-> None]     \* CompactDAG: the node the next one is added to

\* What the provider may answer: a text or tool calls, cut off by the token
\* limit (stop reason length or max_tokens) or not, with or without thinking.
\* The last two are told apart where they make a difference.
Responses ==
  [calls : 0..MaxCalls,
   truncated : IF MaxContinuations > 0 THEN BOOLEAN ELSE {FALSE},
   thinks : IF PersistThinking THEN BOOLEAN ELSE {FALSE}]

\* History: the runs that no command has disturbed; /compact is none of them.
Calm == Loops \ (Screens \cup disturbed)

\* A message.  by: the loop that wrote it.  id: the row it was first written to,
\* kept by the copies CompactDAG makes.  calls: its tool_use blocks.  for, call:
\* the assistant message and the position of the call a tool result answers.
\* calm: history, its run was not disturbed when it wrote it.
Roles == {"user", "assistant", "tool", "thinking"}

Message(role, l) ==
  [role |-> role, by |-> l, id |-> nextNode, calls |-> 0, for |-> None, call |-> 0,
   calm |-> l \in Calm]

ToolResult(l, i) ==
  [Message("tool", l) EXCEPT !.for = run[l].reply, !.call = i]

HeadNode(l) == HeadOf(HandleOf[l])

At(l, p) == run[l].pc = p

MainLoops == {l \in Loops \ Screens : HandleOf[l] = Main}

\* The user interface runs /compact in its own goroutine: nothing else is taken
\* from the user until it is done.
ScreenFree == \A l \in Screens : At(l, "idle")

\* Another loop is at work on the branch this one is about to write to.
Shared(l) ==
  \E k \in Loops \ {l} : ~At(k, "idle") /\ current[HandleOf[k]] = current[HandleOf[l]]

AddNodeBy(l, parent, msg) == AddNode(HandleOf[l], parent, msg) /\ UNCHANGED envVars

\* A message added at the head: by auto-continuation, a hook, or steering.
AddAtHead(l, msg) == AddNode(HandleOf[l], HeadNode(l), msg)

----------------------------------------------------------------------------
\* The beginning of a run.

\* A message from the user: it may be answered by an on_user_input hook alone.
UserInput(l) ==
  /\ l \in MainLoops /\ At(l, "idle") /\ ScreenFree
  /\ runs < MaxRuns
  /\ runs' = runs + 1
  /\ \/ run' = [run EXCEPT ![l] = [Idle EXCEPT !.pc = "begin"]]
     \/ "input" \in Hooks /\ UNCHANGED run
  /\ disturbed' = IF Shared(l) THEN disturbed \cup {l} ELSE disturbed \ {l}
  /\ UNCHANGED <<dagVars, steering, typed, given, crashes>>

\* GetHead for the user node.
ReadHead(l) ==
  /\ At(l, "begin")
  /\ run' = [run EXCEPT ![l].pc = "addUser", ![l].at = HeadNode(l)]
  /\ UNCHANGED <<dagVars, envVars>>

\* AddNode of the user message, on the head read before.
AddUser(l) ==
  /\ At(l, "addUser")
  /\ AddNodeBy(l, run[l].at, Message("user", l))
  /\ run' = [run EXCEPT ![l].pc = "turn", ![l].userNode = nextNode]

----------------------------------------------------------------------------
\* Mutant: the head the answer is added under is not read again.
BeginTurnKeepsOldHead(l) ==
  /\ At(l, "turn")
  /\ IF MaxTurns = 0 \/ run[l].turn < MaxTurns
       THEN run' = [run EXCEPT ![l].pc = "prepare", ![l].sent = HeadNode(l),
                               ![l].attempt = 0, ![l].llmErr = "none",
                               ![l].resp = NoResp, ![l].eager = 0]
       ELSE run' = [run EXCEPT ![l].pc = "exit"]
  /\ UNCHANGED <<dagVars, envVars>>

\* The beginning of a turn: the head is read and the messages are built from its
\* chain.  The loop condition ends the run when MaxTurns is reached.
BeginTurn(l) ==
  /\ At(l, "turn")
  /\ IF MaxTurns = 0 \/ run[l].turn < MaxTurns
       THEN run' = [run EXCEPT ![l].pc = "prepare",
                               ![l].at = HeadNode(l), ![l].sent = HeadNode(l),
                               ![l].attempt = 0, ![l].llmErr = "none",
                               ![l].resp = NoResp, ![l].eager = 0]
       ELSE run' = [run EXCEPT ![l].pc = "exit"]
  /\ UNCHANGED <<dagVars, envVars>>

\* A before_llm_call hook may end the run instead of letting the call through.
AfterPrepare == {"call"} \cup (IF "llm" \in Hooks THEN {"exit"} ELSE {})

\* No compaction on this turn.
SkipCompaction(l) ==
  /\ At(l, "prepare")
  /\ \E p \in AfterPrepare : run' = [run EXCEPT ![l].pc = p]
  /\ UNCHANGED <<dagVars, envVars>>

----------------------------------------------------------------------------
\* CompactDAG.  The loop's currentHead is not touched by any of its steps: the
\* head read after compaction is a variable of the inner block.

IsTool(n) == node[n].msg.role = "tool"

\* Mutants: the tail is one message short; it begins wherever it falls.
TailStartTooLate(chain) ==
  CHOOSE i \in (Len(chain) - KeepLastN + 2)..(Len(chain) + 1) :
    /\ i <= Len(chain) => ~IsTool(chain[i])
    /\ \A j \in (Len(chain) - KeepLastN + 2)..(i - 1) : IsTool(chain[j])

TailStartUnsnapped(chain) == Len(chain) - KeepLastN + 1

\* snapTailStart: the tail does not begin inside a run of tool results.
TailStart(chain) ==
  LET first == Len(chain) - KeepLastN + 1
  IN  CHOOSE i \in first..(Len(chain) + 1) :
        /\ i <= Len(chain) => ~IsTool(chain[i])
        /\ \A j \in first..(i - 1) : IsTool(chain[j])

\* The chain is read and its tail kept in memory while the rest is summarised.
ReadTail(l) ==
  LET chain == Ancestors(HeadNode(l))
      tail  == SubSeq(chain, TailStart(chain), Len(chain))
  IN  /\ Compaction
      /\ Len(chain) > KeepLastN + 1
      /\ run' = [run EXCEPT ![l].pc = "summarise",
                            ![l].copies = [i \in DOMAIN tail |-> node[tail[i]].msg],
                            ![l].copyAt = chain[1]]
      /\ UNCHANGED dagVars

Compact(l) == At(l, "prepare") /\ ReadTail(l) /\ UNCHANGED envVars

\* A branch is opened at the root of what was read.
OpenCompacted(l) ==
  /\ At(l, "summarise")
  /\ Branch(HandleOf[l], run[l].copyAt)
  /\ run' = [run EXCEPT ![l].pc = "summary"]
  /\ UNCHANGED envVars

AddSummary(l) ==
  /\ At(l, "summary")
  /\ AddNodeBy(l, run[l].copyAt, Message("assistant", l))
  /\ run' = [run EXCEPT ![l].pc = "copy", ![l].copyAt = nextNode]

CopyTail(l) ==
  /\ At(l, "copy") /\ run[l].copies # <<>>
  /\ AddNodeBy(l, run[l].copyAt, Head(run[l].copies))
  /\ run' = [run EXCEPT ![l].copies = Tail(@), ![l].copyAt = nextNode]

\* The loop builds its messages from the new head; the /compact command is done.
EndCompaction(l) ==
  /\ At(l, "copy") /\ run[l].copies = <<>>
  /\ IF l \in Screens
       THEN run' = [run EXCEPT ![l] = Idle]
       ELSE \E p \in AfterPrepare :
              run' = [run EXCEPT ![l].pc = p, ![l].sent = HeadNode(l)]
  /\ UNCHANGED <<dagVars, envVars>>

----------------------------------------------------------------------------
\* The LLM call and its retries.

\* consumeStreamEager: with parallel tools, a tool starts as soon as its block of
\* the stream is complete, and its result is kept for the answer.  Not every
\* provider marks the blocks.
StartEagerTool(l) ==
  /\ At(l, "call")
  /\ l \in Streaming /\ Parallel
  /\ run[l].eager < MaxCalls
  /\ run' = [run EXCEPT ![l].eager = @ + 1]
  /\ UNCHANGED <<dagVars, envVars>>

\* The answers that may follow: with the calls started, or without any when the
\* stream closes before its last event.
Answers(l) ==
  {r \in Responses : \/ run[l].eager \in {0, r.calls}
                     \/ r.calls = 0 /\ ~r.truncated /\ ~r.thinks}

\* Another attempt, or none left.
RetryOrFail(l) == IF run[l].attempt < LastAttempt THEN "call" ELSE "failed"

\* The provider fails.  A transient error is retried until the last attempt,
\* any other one is final.
CallFails(l) ==
  /\ At(l, "call")
  /\ \E err \in {"transient", "fatal"} :
       run' = [run EXCEPT ![l].llmErr = err, ![l].resp = NoResp,
                          ![l].attempt = @ + 1, ![l].eager = 0,
                          ![l].pc = IF err = "transient" THEN RetryOrFail(l) ELSE "failed"]
  /\ UNCHANGED <<dagVars, envVars>>

\* The provider answers.  Consuming a stream assigns llmErr; Complete leaves it
\* as the attempt before has set it, and the test after the call looks at it.
CallAnswers(l) ==
  /\ At(l, "call")
  /\ \E r \in Answers(l) :
       IF l \in Streaming \/ run[l].llmErr = "none"
         THEN run' = [run EXCEPT ![l].resp = r, ![l].llmErr = "none", ![l].pc = "answer"]
         ELSE run' = [run EXCEPT ![l].resp = r, ![l].attempt = @ + 1,
                                 ![l].pc = RetryOrFail(l)]
  /\ UNCHANGED <<dagVars, envVars>>

\* The context is cancelled during the delay before a retry.
CancelRetry(l) ==
  /\ At(l, "call") /\ run[l].attempt > 0
  /\ run' = [run EXCEPT ![l].llmErr = "fatal", ![l].pc = "failed"]
  /\ UNCHANGED <<dagVars, envVars>>

\* Mutant: the user node is taken back on whatever turn the call fails.
FailAlwaysRemoves(l) ==
  /\ At(l, "failed")
  /\ RemoveNode(HandleOf[l], run[l].userNode)
  /\ run' = [run EXCEPT ![l] = Idle]
  /\ UNCHANGED envVars

\* The run ends with an error.  On its first turn the user node is taken back.
Fail(l) ==
  /\ At(l, "failed")
  /\ IF run[l].turn = 0 THEN RemoveNode(HandleOf[l], run[l].userNode) ELSE UNCHANGED dagVars
  /\ run' = [run EXCEPT ![l] = Idle]
  /\ UNCHANGED envVars

----------------------------------------------------------------------------
\* The answer is stored, under the head the turn began with.

Answer(l) ==
  /\ At(l, "answer")
  /\ AddNodeBy(l, run[l].at, [Message("assistant", l) EXCEPT !.calls = run[l].resp.calls])
  /\ run' = [run EXCEPT ![l].pc = "alias", ![l].reply = nextNode, ![l].done = 0]

\* NextAutoAlias, then SetAlias: two accesses.
PickAlias(l) ==
  /\ At(l, "alias")
  /\ run' = [run EXCEPT ![l].pc = "setAlias", ![l].autoAlias = NextAutoAlias]
  /\ UNCHANGED <<dagVars, envVars>>

StoreAlias(l) ==
  /\ At(l, "setAlias")
  /\ SetAlias(run[l].reply, run[l].autoAlias)
  /\ run' = [run EXCEPT ![l].pc = IF run[l].resp.thinks THEN "thinking" ELSE "answered"]
  /\ UNCHANGED envVars

StoreThinking(l) ==
  /\ At(l, "thinking")
  /\ AddNodeBy(l, run[l].reply, Message("thinking", l))
  /\ run' = [run EXCEPT ![l].pc = "answered"]

\* A truncated answer is continued, at most MaxContinuations times in a row.
ToContinue(l) == run[l].resp.truncated /\ run[l].conts < MaxContinuations

Continue(l) ==
  /\ At(l, "answered") /\ ToContinue(l)
  /\ AddAtHead(l, Message("user", l))
  /\ run' = [run EXCEPT ![l].pc = "turn", ![l].turn = @ + 1, ![l].conts = @ + 1]
  /\ UNCHANGED envVars

Answered(l) ==
  /\ At(l, "answered") /\ ~ToContinue(l)
  /\ run' = [run EXCEPT ![l].pc = IF run[l].resp.calls = 0 THEN "stop" ELSE "tools",
                        ![l].conts = IF run[l].resp.truncated THEN @ ELSE 0]
  /\ UNCHANGED <<dagVars, envVars>>

----------------------------------------------------------------------------
\* The end of a turn without tool calls.

\* on_stop or before_loop_exit keeps the run going, with a message or (on_stop
\* only) without one.
HookResumes(l) ==
  /\ At(l, "stop") /\ "stop" \in Hooks
  /\ AddAtHead(l, Message("user", l)) \/ UNCHANGED dagVars
  /\ run' = [run EXCEPT ![l].pc = "turn", ![l].turn = @ + 1]
  /\ UNCHANGED envVars

\* Steering messages typed since keep the run going; without any it ends.
Stop(l) ==
  /\ At(l, "stop")
  /\ run' = [run EXCEPT ![l].pc = IF l \in MainLoops /\ steering > 0 THEN "drain" ELSE "exit"]
  /\ UNCHANGED <<dagVars, envVars>>

\* drainSteering: one message after the other until the channel is empty.
TakeSteering(l) ==
  /\ l \in MainLoops /\ steering > 0
  /\ AddAtHead(l, Message("user", l))
  /\ steering' = steering - 1
  /\ UNCHANGED <<run, typed, runs, given, crashes, disturbed>>

\* Mutants: the select on the channel has no default case; the turn that called
\* tools is not counted.
DrainWaits(l) == At(l, "drain") /\ TakeSteering(l)

DrainSameTurn(l) ==
  /\ At(l, "drain")
  /\ \/ TakeSteering(l)
     \/ /\ l \in MainLoops => steering = 0
        /\ run' = [run EXCEPT ![l].pc = "turn"]
        /\ UNCHANGED <<dagVars, envVars>>

Drain(l) ==
  /\ At(l, "drain")
  /\ \/ TakeSteering(l)
     \/ /\ l \in MainLoops => steering = 0
        /\ run' = [run EXCEPT ![l].pc = "turn", ![l].turn = @ + 1]
        /\ UNCHANGED <<dagVars, envVars>>

----------------------------------------------------------------------------
\* The tool calls of an answer, results stored in their order.

\* Aggressive steering cuts the batch short: looked at before every call, or
\* once before a parallel batch, and not at all when the tools have run already
\* (finishEagerTools).
Interrupted(l) ==
  /\ Aggressive /\ l \in MainLoops /\ steering > 0
  /\ run[l].eager = 0
  /\ Parallel /\ run[l].resp.calls > 1 => run[l].done = 0

RunTool(l) ==
  /\ At(l, "tools") /\ run[l].done < run[l].resp.calls /\ ~Interrupted(l)
  /\ AddAtHead(l, ToolResult(l, run[l].done + 1))
  /\ run' = [run EXCEPT ![l].done = @ + 1]
  /\ UNCHANGED envVars

\* A tool is running: in its turn, or while the answer is still streaming.
ToolRuns(l) ==
  \/ /\ At(l, "tools") /\ run[l].eager = 0
     /\ run[l].done < run[l].resp.calls /\ ~Interrupted(l)
  \/ /\ At(l, "call") /\ l \in Streaming /\ Parallel /\ run[l].eager > 0

\* The tool is spawn, delegate or a workflow: a branch is forked at the head of
\* the caller for sub-agent s, unless a before_spawn hook stops it there.
Spawn(l, s) ==
  /\ ToolRuns(l)
  /\ l \in MainLoops /\ HandleOf[s] # Main
  /\ current[HandleOf[s]] = None
  /\ \/ /\ ForkFrom(HeadNode(l), HandleOf[s])
        /\ run' = [run EXCEPT ![s] = [Idle EXCEPT !.pc = "begin"]]
     \/ /\ "spawn" \in Hooks
        /\ InsertBranch(HeadNode(l), HeadNode(l))
        /\ UNCHANGED <<node, nextNode, current, alias, run>>
  /\ UNCHANGED envVars

InterruptTools(l) ==
  /\ At(l, "tools") /\ run[l].done < run[l].resp.calls /\ Interrupted(l)
  /\ run' = [run EXCEPT ![l].pc = "cut"]
  /\ UNCHANGED <<dagVars, envVars>>

\* Mutant: after the steering messages the batch goes on.
DrainCutResumes(l) ==
  /\ At(l, "cut")
  /\ \/ TakeSteering(l)
     \/ /\ steering = 0
        /\ run' = [run EXCEPT ![l].pc = "tools"]
        /\ UNCHANGED <<dagVars, envVars>>

DrainCut(l) ==
  /\ At(l, "cut")
  /\ \/ TakeSteering(l)
     \/ /\ steering = 0
        /\ run' = [run EXCEPT ![l].pc = "toolsDone"]
        /\ UNCHANGED <<dagVars, envVars>>

ToolsDone(l) ==
  /\ At(l, "tools") /\ run[l].done = run[l].resp.calls
  /\ run' = [run EXCEPT ![l].pc = "toolsDone"]
  /\ UNCHANGED <<dagVars, envVars>>

\* An after_tool_result hook may add a message; then steering is drained.
AfterTools(l) ==
  /\ At(l, "toolsDone")
  /\ UNCHANGED dagVars \/ ("tool" \in Hooks /\ AddAtHead(l, Message("user", l)))
  /\ run' = [run EXCEPT ![l].pc = "drain"]
  /\ UNCHANGED envVars

\* The run ends with its text.
Finish(l) ==
  /\ At(l, "exit")
  /\ run' = [run EXCEPT ![l] = Idle]
  /\ UNCHANGED <<dagVars, envVars>>

Step(l) ==
  \/ ReadHead(l) \/ AddUser(l) \/ BeginTurn(l) \/ SkipCompaction(l)
  \/ Compact(l) \/ OpenCompacted(l) \/ AddSummary(l) \/ CopyTail(l) \/ EndCompaction(l)
  \/ StartEagerTool(l) \/ CallFails(l) \/ CallAnswers(l) \/ CancelRetry(l) \/ Fail(l)
  \/ Answer(l) \/ PickAlias(l) \/ StoreAlias(l) \/ StoreThinking(l)
  \/ Continue(l) \/ Answered(l) \/ HookResumes(l) \/ Stop(l) \/ Drain(l)
  \/ RunTool(l) \/ (\E s \in Loops : Spawn(l, s))
  \/ InterruptTools(l) \/ DrainCut(l) \/ ToolsDone(l) \/ AfterTools(l) \/ Finish(l)

----------------------------------------------------------------------------
\* The user and the process.

\* A line typed while a run is in progress goes to the Steering channel.
Steer ==
  /\ \E l \in MainLoops : ~At(l, "idle")
  /\ ScreenFree
  /\ typed < MaxSteering
  /\ steering' = steering + 1
  /\ typed' = typed + 1
  /\ UNCHANGED <<dagVars, run, runs, given, crashes, disturbed>>

\* A command, which disturbs the runs of the main agent and those in ls.
Give(c, ls) ==
  /\ c \in Commands /\ ScreenFree
  /\ given < MaxGiven
  /\ given' = given + 1
  /\ disturbed' = disturbed \cup {l \in MainLoops \cup ls : ~At(l, "idle")}
  /\ UNCHANGED <<steering, typed, runs, crashes>>

\* The commands of commands.go.  Whether a run is in progress is not looked at:
\* the handle moves, or its head does, under a loop that is at work on it.
Command(c, ls) == Give(c, ls) /\ UNCHANGED run

New == Command("new", {}) /\ NewBranch(Main)

Clear == Command("clear", {}) /\ ResetHead(Main)

\* Fork: at any message, named by its id or an alias, of which ForkFromHead and
\* ForkBack are special cases.  A run that may still take that message back is
\* disturbed.
Fork ==
  \E n \in DOMAIN node :
    /\ Command("fork", {l \in Loops : run[l].turn = 0 /\ run[l].userNode = n})
    /\ Branch(Main, n)

\* Switch: to any branch.  A sub-agent that is writing to it is disturbed.
Switch ==
  \E b \in Branches :
    /\ Command("switch", {l \in Loops : current[HandleOf[l]] = b})
    /\ SwitchBranch(Main, b)

\* /compact: CompactDAG run by the user interface, beside a run or without one.
CompactCommand ==
  /\ Give("compact", {})
  /\ \E l \in Screens : ReadTail(l)

\* The process dies; NewDAG of the next one chooses a branch.
Crash ==
  /\ crashes < MaxCrash
  /\ crashes' = crashes + 1
  /\ \E b \in Branches : Reopen(b)
  /\ run' = [l \in Loops |-> Idle]
  /\ steering' = 0 /\ disturbed' = {}
  /\ UNCHANGED <<typed, runs, given>>

Init ==
  /\ DagInit
  /\ run = [l \in Loops |-> Idle]
  /\ steering = 0 /\ typed = 0 /\ runs = 0 /\ given = 0 /\ crashes = 0
  /\ disturbed = {}

Next ==
  \/ \E l \in Loops : UserInput(l) \/ Step(l)
  \/ Steer \/ New \/ Clear \/ Fork \/ Switch \/ CompactCommand
  \/ Crash

Spec == Init /\ [][Next]_vars

\* Every loop goes on with its run: a goroutine is scheduled, and the provider,
\* the tools and the database answer in the end.
FairSpec == Spec /\ \A l \in Loops : WF_vars(Step(l))

----------------------------------------------------------------------------
\* Properties.

\* What a message, a row of each table and the locals of a loop may hold.
Ids == 0..(nextNode - 1)

Messages ==
  [role : Roles, by : Loops, id : Nat, calls : Nat, for : Nat, call : Nat,
   calm : BOOLEAN]

Points ==
  {"idle", "begin", "addUser", "turn", "prepare", "summarise", "summary", "copy", "call",
   "failed", "answer", "alias", "setAlias", "thinking", "answered", "stop", "drain", "tools",
   "cut", "toolsDone", "exit"}

Rows == [head : Ids, forked : Ids]

Locals ==
  [pc : Points, at : Ids, sent : Ids, userNode : Ids, turn : Nat, conts : Nat, attempt : Nat,
   llmErr : {"none", "transient", "fatal"}, resp : Responses \cup {NoResp},
   reply : Ids, autoAlias : Nat, eager : Nat, done : Nat, copies : Seq(Messages), copyAt : Ids]

\* The rows of each table refer to rows that were inserted, and every branch an
\* open handle is bound to exists.
StoreTypeOK ==
  /\ nextNode \in 1..(MaxNode + 1)
  /\ DOMAIN node \subseteq 1..(nextNode - 1)
  /\ node \in [DOMAIN node -> [parent : Ids, msg : Messages]]
  /\ branch \in Seq(Rows)
  /\ Len(branch) \in 1..MaxBranch
  /\ current \in [Handles -> 0..Len(branch)]
  /\ current[Main] # None
  /\ alias \in Seq(Ids)

\* Whoever runs has an open handle, and refers to rows that were inserted.
RunTypeOK ==
  /\ run \in [Loops -> Locals]
  /\ \A l \in Loops : ~At(l, "idle") => current[HandleOf[l]] # None

EnvTypeOK ==
  /\ typed \in 0..MaxSteering /\ steering \in 0..typed
  /\ runs \in 0..MaxRuns /\ given \in 0..MaxGiven /\ crashes \in 0..MaxCrash
  /\ disturbed \subseteq Loops

\* The variables have the types the code gives them.
TypeOK == StoreTypeOK /\ RunTypeOK /\ EnvTypeOK

\* What follows is about the runs that no command has disturbed, whatever has
\* been done to the others, and before.

\* Nobody else writes to the branch of such a run, and the user does not have the
\* branch of a sub-agent open: one that begins, or is spawned, gets a branch to
\* itself, whatever was forked, cleared, opened or restarted (dag.go:53-63).
BranchesApart ==
  \A l \in Calm : ~At(l, "idle") =>
    /\ HandleOf[l] # Main => current[HandleOf[l]] # current[Main]
    /\ ~Shared(l)

\* The head it has read, or the answer it has just written, is still the head of
\* its branch when it writes the next message: no update is lost between GetHead
\* and AddNode (loop.go:149-154, 171-367, 367-379).
KeepsHead(l) ==
  /\ run[l].pc \in {"addUser", "prepare", "call", "answer"} => HeadNode(l) = run[l].at
  /\ run[l].pc \in {"alias", "setAlias", "thinking"} => HeadNode(l) = run[l].reply

HeadKept == \A l \in Calm : KeepsHead(l)

\* As long as its first LLM call may still fail, nothing has been built on its
\* user message: it is the head of its branch and of no other, and no message
\* follows it, so that taking it back takes nothing else away (loop.go:348-356).
RollsBackAlone(l) ==
  run[l].turn = 0 /\ run[l].pc \in {"turn", "prepare", "call", "answer", "failed"} =>
    /\ run[l].userNode \in DOMAIN node
    /\ HeadNode(l) = run[l].userNode
    /\ \A n \in DOMAIN node : node[n].parent # run[l].userNode
    /\ \A b \in Branches \ {current[HandleOf[l]]} : branch[b].head # run[l].userNode

RollbackSafe == \A l \in Calm : RollsBackAlone(l)

\* The store as a message tree: what MessageTree promises.
Tree == INSTANCE MessageTree WITH
  tree <- [n \in DOMAIN node |-> node[n].parent],
  next <- nextNode,
  tip  <- [b \in Branches |-> branch[b].head]

\* Without compaction every run, with its retries, continuations, hooks,
\* steering, sub-agents and rollback, and every user command and restart, only
\* extends branches at their tip, opens branches, and takes back a user message
\* that nothing else stands on (loop.go:348-356, dag.go:155-198, 307-336).  Only
\* the steps of a run that a command has disturbed may do something else.
DisturbedStep == \E l \in Loops \ Calm : Step(l)

TreeSpec == Tree!Init /\ [][DisturbedStep \/ Tree!Next]_(Tree!vars)

\* The chains of the store are complete: no message loses its parent, so
\* GetAncestors (dag.go:222-258) reads every conversation back to its root.
ParentsExist == Tree!ParentsExist

\* Every branch can be opened: its head is a message that exists, or none
\* (context.go:230-247 says the original branch of a compaction is preserved).
TipsExist == Tree!TipsExist

\* A loop is alone on its branch: what was written there since the branch was
\* forked was written through its own handle, and the handle of a parent is not
\* moved by its sub-agents (dag.go:53-63, subagents.go:113-121).
SubAgentIsolation ==
  \A l \in Loops :
    LET b == current[HandleOf[l]] IN
    b # None =>
      \A n \in Elements(Ancestors(branch[b].head)) :
        n > branch[b].forked => HandleOf[node[n].msg.by] = HandleOf[l]

\* The model is called with a context that holds the message it is to answer
\* (loop.go:149-175), also when the context was compacted just before.
OwnMessageSent ==
  \A l \in Calm :
    At(l, "call") /\ run[l].turn = 0 =>
      \E n \in Elements(Ancestors(run[l].sent)) : node[n].msg.id = run[l].userNode

\* An answer is stored right after the context it was given to: the next turn,
\* and the next run, start from what the model was shown (loop.go:171-231, 367).
AnswerFollowsContext ==
  \A l \in Calm :
    At(l, "alias") =>
      Ancestors(run[l].reply) = Append(Ancestors(run[l].sent), run[l].reply)

\* A tool result stands directly behind the call it answers: after the assistant
\* message (and the thinking stored with it) when the call is its first, and
\* after the result of the call before otherwise (loop.go:777-919,
\* context.go:423-435).
ToolResultsFollowCall ==
  \A n \in DOMAIN node :
    LET m == node[n].msg
        p == node[n].parent
        q == IF p \in DOMAIN node /\ node[p].msg.role = "thinking"
               THEN node[p].parent ELSE p
    IN  m.role = "tool" /\ m.calm =>
          IF m.call = 1
            THEN q \in DOMAIN node /\ node[q].msg.id = m.for
            ELSE /\ p \in DOMAIN node /\ node[p].msg.for = m.for
                 /\ node[p].msg.call = m.call - 1

\* Every run comes to an end when MaxTurns is set: retries, continuations,
\* compaction, hooks that resume it and steering are all bounded by it.
RunEnds == \A l \in Loops : ~At(l, "idle") ~> At(l, "idle")

=============================================================================
