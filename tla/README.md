# Torus Agent in TLA+

Models of the concurrent core of the Torus agent (`src/`), the TLC runs that
check them on small instances, and theorems about them that TLAPS checks for
every value of the constants.

## The system

The agent is one Go process: a *loop* that sends a conversation to a language
model and runs the tools it asks for, a *store* (SQLite) that holds the
conversation as a graph of messages, and *channels* (terminal, Telegram, HTTP,
batch) that feed it. Sub-agents run the same loop in goroutines of their own on
the same store.

| part | state | operations | talks to |
|---|---|---|---|
| conversation store, `core/dag.go` | rows `nodes`, `branches`, `node_aliases`; per handle the current branch | AddNode, RemoveNode, ResetHead, Branch, NewBranch, ForkFrom, SwitchBranch, SetAlias, NewDAG, reads | everybody; one `*DAG` handle per loop, the rows are shared |
| agent loop, `core/loop.go` | locals of `runLoop` (turn, head, attempt, error, answer), `Steering` channel, prompt cache, last token count | a run: input, turns, LLM call with retries, tools, continuation, hooks, end | store, provider, tools, hooks, steering |
| compaction, `core/context.go` | none of its own: it forks a branch of the store | CompactDAG, linear fallbacks, sanitizeMessages | called by the loop and by `/compact` |
| prompt and compression, `core/loop.go`, `core/compression*.go` | cached chain of messages; working memory text | buildPrompt, MicroCompact, UnifiedCompress, ApplyZoneBudgetV2 | the store; called by the loop, and by a hook before each LLM call |
| hooks, `core/hooks.go` | handlers by hook point | Register, Fire | block, change or add to what the loop does |
| sub-agents, `features/subagents.go` | running and completed maps, a result channel each | Spawn, Wait, GetResult, DeleteResult, cleanup | called by tools `spawn`, `delegate`, workflows; fork the caller's branch |
| workflows, `features/workflows.go` | none | sequential, parallel, loop over sub-agents | sub-agents |
| MCP client, `features/mcp.go` | child processes with a lock and a pipe each, the owners of tools, their schemas | add a server, fetch schemas, call, close | tools |
| providers, `providers/*` | of a stream: the blocks seen so far; router weights, scores; the stored login | Complete, StreamComplete, parsers, fallback, reward scoring, token refresh | the loop |
| channels, `channels/*` | Telegram: a queue per chat; batch: counters | receive, run, reply | the loop |
| user commands, `commands/commands.go` | none | new, clear, compact, fork, switch, alias, list | store |
| user interfaces, `ui`, `ui-b` | menus of the set-up screen; messages shown, channels of events, runs under way | keys, commands, stream events, ends of runs | loop, steering, commands |
| configuration and start-up, `config`, `cmd` | config.json, models.json, the key | load, choose, look up, override, save | user interface, providers |
| tools, safety, hooks, telemetry, skills | files, counters, tables | file access, pattern matching | loop |

What is hard here, and what must hold:

* **Two loops and a user on one store.** Heads are read and advanced in separate
  accesses. A message must be added under the head it was meant for, on a branch
  nobody else writes to.
* **Commands during a run.** What is typed during a run is taken for steering, but
  the palette and the list of sessions carry commands out at once, on the handle
  the run is using.
* **Taking back.** A run whose first call fails deletes its user message. Nothing
  may stand on it by then: no fork, no compacted branch, no sub-agent.
* **Changing branch in the middle of a run.** Compaction moves the handle to a new
  branch between reading the head and storing the answer.
* **Order.** Steering messages, hooks, thinking blocks and a batch cut short must
  not come between a tool call and its result.
* **Retries.** A failed attempt must not leave anything behind that changes the
  next one.
* **Crashes.** Whatever step the process dies at, the next one finds complete
  chains.
* **Rewriting.** Sanitising, shortening, compressing, compacting and translating
  a conversation must leave every call with its result and lose neither the
  question nor what was said.
* **Early tools.** Tools run while the answer is still arriving, and the stream may
  break: what runs must be what the answer holds.
* **Late answers.** Replies of servers, results of sub-agents, scores of answers and
  events of a run arrive when somebody else is already at work.
* **One use only.** A refresh token is good once, and several requests find the
  login expired at the same moment.
* **Ending.** Hooks, steering, continuations and retries all keep a run alive;
  `MaxTurns` bounds it. Whoever waits for a lock, a slot, a sub-agent or a channel
  must get it.

The complete list, each at its line, is under `hazards` in `PROJECT.json`.

## Modules

| module | what it is |
|---|---|
| `Dag` | the store: rows, handles and each operation of `dag.go` as one action |
| `AgentLoop` | `runLoop`, CompactDAG, spawning, user commands and crashes over `Dag` |
| `MessageTree` | what the store promises: a tree of messages that grows at the tips of branches |
| `Messages` | messages and what `context.go` does to a list of them |
| `Compression` | the compression hooks as operators on `Messages` |
| `Requests` | the list as each of the four providers is sent it |
| `ContextWindow` | a turn from the head of the branch to the request, with the prompt cache |
| `Streams` | frames of the four wire formats and what each parser makes of them |
| `StreamTurn` | one LLM call and its tools over `Streams` |
| `SubAgents` | the registry of sub-agents and the workflows built on it |
| `Mcp` | the MCP client and its servers |
| `Tokens` | "Sign in with ChatGPT" and the refresh of its token |
| `Routing` | Router and RewardRouter over `Tokens` |
| `TelegramChats` | the dispatcher and the handlers of the Telegram channel |
| `ChatQueue` | what a channel promises each chat: a queue, one run at a time |
| `Wizard`, `Launch` | the set-up screen; the start of the program around it |
| `Chat`, `Tui`, `TuiB` | what the two chat screens share; the handlers of each |
| `App` | the program at a terminal: `Launch`, then one of the screens |
| `MC...` | instances for TLC |
| `AgentLoopProofs` | theorems of the store and of the loop |
| `ContextWindowProofs` | theorems of the prompt and its cache |
| `AppProofs` | theorems of the set-up screen, the start and the second chat screen |
| `StreamTurnProofs`, `SubAgentsProofs`, `McpProofs`, `RoutingProofs`, `TelegramChatsProofs` | theorems of the other parts |

`AgentLoop` keeps of a conversation its shape and leaves the contents open;
`ContextWindow` is about contents and takes one turn at a time; `StreamTurn` looks
into the one step in which `AgentLoop` calls the model and runs tools. They meet
at the store: a message that one of them adds is what another one reads.

### Dag

`node` is the table `nodes`: the parent and the message of every row that exists.
Row ids are drawn at random in the code; here they count up, so that an id is
fresh, is never drawn again and is also the time of its creation. `branch` is the
table `branches`, `current` the `branchID` of each handle and `alias` the
auto-aliases `a1`, `a2`, .... An operation is one SQLite transaction and so one
step. `Ancestors` follows parents as the recursive query does: a parent without a
row ends the chain silently. Every head an operation writes refers to a row that
was inserted, but RemoveNode may delete the row afterwards.

Bounds: `MaxNode` rows and `MaxBranch` branches are ever inserted; an action that
would insert more is not taken.

### AgentLoop

A step is one access to the store, so the other loops, the user and a crash may
come between any two of them. GetHead followed immediately by AddNode is one step
in the middle of a run; where a run begins, and where an answer is added under a
head read a whole turn before, they are two. Of the others only a command that
disturbs the run could come in between (`HeadKept`), and what it leads to, a message
on the new branch under a head of the old one, is what one that comes before `Answer`
leads to. The local `pc` says where `runLoop` is:

    idle -> begin -> addUser -> turn -> prepare -> call -> answer -> alias
      -> setAlias -> thinking -> answered -> tools -> toolsDone -> drain -> turn ...

| action | code |
|---|---|
| `UserInput`, `ReadHead`, `AddUser` | `runLoop` up to the turn loop |
| `BeginTurn`, `SkipCompaction` | GetHead, buildPrompt, hooks before the call |
| `Compact`, `OpenCompacted`, `AddSummary`, `CopyTail`, `EndCompaction` | CompactDAG and what the loop does after it |
| `StartEagerTool`, `CallFails`, `CallAnswers`, `CancelRetry`, `Fail` | the attempts and the failure path |
| `Answer`, `PickAlias`, `StoreAlias`, `StoreThinking` | storing the answer |
| `Continue`, `Answered`, `HookResumes`, `Stop`, `Drain` | after an answer without calls |
| `RunTool`, `Spawn`, `InterruptTools`, `DrainCut`, `ToolsDone`, `AfterTools` | tools, in sequence, in parallel or started while streaming |
| `Steer`, `New`, `Clear`, `Fork`, `Switch`, `CompactCommand` | the user |
| `Crash` | the process dies and `NewDAG` opens the same database |

What is a choice in the model: what the provider answers, whether the context
needs compaction, what hooks decide, when the user types. Of texts, tokens and
tool arguments nothing is kept.

The user gives commands at any moment. Neither `commands.go` nor `dag.go` looks at
whether a run is in progress; the interface does for what is typed (`tui.go:681`), and
not for the palette and the list of sessions (`tui.go:1275-1346`, `ui-b/update.go:43-48`).
So `New`, `Clear`, `Fork` and `Switch` have no guard but that what they name exists:
the handle, or its head, moves under the loop that is at work on it. `/compact` is
carried out step by step beside the loop, by the goroutine of the interface: it is
one of `Screens`, a loop that runs CompactDAG on the main handle and nothing else,
and nothing else is taken from the user until it is done (`ScreenFree`).

What a run promises does not survive that. The history variable `disturbed` holds the
runs in whose way a command has come since they began: every command disturbs a run of
the main agent that is in progress; a switch also a sub-agent whose branch it opens, a
fork also one whose user message it forks at; and a run that is started on a branch
somebody is writing to is disturbed from its beginning. Nothing else disturbs a run, no
other loop and no crash. The properties of the loop are about the runs that are not
disturbed (`Calm`), among others that are; what happens to those that are is below,
under *Met while modelling*.

Assumptions about the environment, also listed as hazards: no two runs share a handle
(two Telegram chats or two HTTP requests do, and then lose updates), and an operation of
the store is not interleaved with another one on the same handle. Errors of the
database itself are not modelled.

### MessageTree

`Extend` a branch at its tip, `Retract` a tip nothing stands on, `Open` a branch
at a message, `Clear` one. `AgentLoop` without compaction implements it under

    tree <- parent of each node,  next <- next id,  tip <- head of each branch

but for the steps of a run that a command has disturbed (`DisturbedStep`). With
compaction it does not: CompactDAG leaves the user message of the running
turn on two branches, and the failure path removes it from one.

### TelegramChats and ChatQueue

`chats` is the `sync.Map`, `state` the `chatState` objects, `dispatcher` the loop
of `startTelegram`, `handler` the goroutine of each state. An object nobody points
to may be allocated again, so a few addresses are enough for any history. Every
critical section of `cs.mu` is one step but that of a handler that retires its
state: between marking it and deleting it from the map (`Retire`, `Delete`) the
dispatcher can load it, and then waits (`Locked`).

| action | code |
|---|---|
| `Receive`, `LoadOrStore`, `Retry`, `Enqueue`, `Start` | `startTelegram` |
| `RunEnds` | `runOne`: the run of the agent and the reply |
| `TakeNext`, `Retire`, `Delete` | the deferred loop of `handleMessage` |

It implements `ChatQueue` (`Send`, `Begin`, `End` of each chat) with what the
handler of a chat is running as the message being run. What happens inside a run
is `AgentLoop`; a reply that the bot refuses is logged and not repeated, so
"answered" means that the run has ended and its reply was tried.

### Messages, Compression, Requests and ContextWindow

A message is a role and a set of blocks; a block keeps the call it belongs to, a
class for its size, and `covers`, the stored messages whose content it carries.
A summary covers several, and a block dropped takes its cover with it: so the
properties can ask what is still in a request. `Compression` groups messages into
operations, scores them in thousandths and packs them into the zones as
`UnifiedCompress` does; `Requests` gives the order and grouping of messages in the
Anthropic, OpenAI, Gemini and Responses formats.

| action | code |
|---|---|
| `AddUser`, `AddAnswer`, `AddCalls`, `AddThinking`, `AddResult` | the store grows, in the orders `runLoop` stores messages |
| `MoveHead`, `TakeBack` | commands and the failure path, between the steps of others |
| `ReadHead`, `LoadCache`, `StoreCache` | GetHead and the two critical sections of buildPrompt |
| `Squeeze` | sanitizeMessages, MicroCompact, the hook, NeedsCompaction |
| `CompactDAG`, `CompactInMemory` | compaction, and its fallbacks when the store refuses |

### Streams and StreamTurn

A server's reply is a few blocks and a reason to stop. `Streams` says which frames
each format has for it, and what the parser makes of a frame: an event on the
channel and a change of the blocks it assembles. `StreamTurn` has the server, the
parser's goroutine with its bounded channel, the run that consumes the events and
starts tools as their blocks stop, the goroutines of the tools and their slots;
the stream may break or end early after any frame, the user may interrupt, and an
attempt that failed is repeated. Once the context is done, a parser that waits for
room on its channel gives up at whichever event it has come to, so of the events of
a frame the run may receive the first few (`Emits`). The three ways to run tools
(`Finish`, `RunNext`, `Spawn`) are those of `loop.go:777-1089`. `Calls` is
ExtractToolCalls, written as a recursive function so that it can be reasoned about.

### SubAgents

Two concurrent maps and a channel for each sub-agent. Every access is a step:
`StoreResult`, `SendResult`, `Leave` of the sub-agent's end; `LoadResult`,
`LookUp`, `Receive` of Wait; `Expire` of the cleanup; `Collect` and
`DeleteResult` of the flows. A flow is a sequential, parallel or looping
workflow, or a tool that spawns and does not wait.

### Mcp

A server is a process behind a lock and a pipe. A caller takes the lock, writes
its request and reads lines until its answer comes; the server writes answers
late, notifications at any time, and may die. `main` adds the servers one by one,
fetches the schemas of their tools while runs already call them, and closes them.

### Tokens and Routing

`Tokens` numbers the tokens in the order they are issued. `Load`, `Lock`,
`Reload`, `Refresh` or `RefreshFails`, and `Save` are the steps of `auth()`, any
request between any two steps of another. An answer the server gave but the client
did not get, and a file that could not be written, are on record in `mishap`.
`Routing` picks a provider, asks the rest of the chain when it fails, and has
answers scored by goroutines that read the scores and install weights at moments
of their own.

### Wizard, Launch, Chat, Tui, TuiB and App

`Wizard` is `ui/startup.go`: menus with a cursor, a scroll offset and a filter,
and a walk through them in both directions. `Launch` is the part of `cmd/main.go`
before and after it: what is read from and written to config.json, the sizes of
the model from the registry or models.json, the overrides, the key. A context
window is named for the model it is of, so a window of another model shows.

`Chat` has the agent's goroutine, the channels it fills and the waiters that carry
one event at a time to `Update`. A message shown is text of one run, the full
answer of one, a mixture, a note, or nothing yet. `Tui` reads three channels,
`TuiB` one.

## Runs

`CHECK_DEADLOCK FALSE` in every configuration: the systems rest when the bounds on
inputs are reached, when the program has ended or when nobody asks for anything.
That nobody waits for ever is what the liveness properties are for.

| run | module, instance | checks |
|---|---|---|
| `subagent` | `AgentLoop`: main, which streams and starts tools early, a sub-agent that does not, a hook that blocks spawning | `SubAgentIsolation`, `AnswerFollowsContext` |
| `compaction` | `AgentLoop`: main, two runs, two calls per answer, and at any moment two of `/compact`, `/fork`, `/new`, `/clear` | `ParentsExist`, `OwnMessageSent`, `ToolResultsFollowCall` |
| `commands` | `AgentLoop`: main and sub-agent, at any moment two of new, clear, fork and switch, one crash | `BranchesApart`, `HeadKept`, `RollbackSafe`, `TreeSpec` |
| `steering` | `AgentLoop`: main, hooks of every kind, steering, thinking | `ToolResultsFollowCall`, `RunEnds` |
| `context` | `ContextWindow`: six configurations (below) | `PromptIsChain`, `RequestPaired`, `AskSent`, `OperationsRemembered` |
| `streams` | `StreamTurn`: four formats, six replies of up to three calls, one slot, two attempts | `NoToolLeftRunning`, `ToolsMatchAnswer`, `CompleteCallsRun`, `TurnEnds` |
| `workflows` | `SubAgents`: a workflow of each kind with two agents, and a sub-agent nobody waits for | `ErrorStopsFlow`, `ReturnedClean`, `WaitAnswers`, `ResultsForgotten`, `FlowsReturn` |
| `mcp` | `Mcp`: two servers that list a tool of the same name, two runs and `main` | `OwnAnswer`, `SchemaOfOwner`, `CallReturns` |
| `routing` | `Routing`: two requests, three providers, one of them by login | `FailedAfterAll`, `RefreshedOnce`, `CredentialsKept`, `WeightsFollowScores`, `RequestsEnd` |
| `telegram` | `TelegramChats`: two chats with three messages each, three state objects | `QueueReachable`, `NoIdleEntry`, `QueueSpec`, `EveryMessageAnswered` |
| `ui` | `App`: three provider groups, four settings, then two runs on either screen | `OwnWindow`, `EnterPicks`, `AnswerKept`, `RunHandled` |
| `lost_compaction` | `AgentLoop`: main, compaction; **violated** | `AnswerFollowsContext` |

`lost_compaction`: `currentHead`, read again after CompactDAG, is a variable of the
inner block (`loop.go:214`). The answer goes under the old head and takes the
branch back to the conversation that was compacted, which the next turn sends
again, while `context.go:239` says "The DAG is now on the new branch". (The
`subagent` run checks the same property where nothing is compacted.)

### Bounds, and why they are enough

* `AgentLoop`: two turns, one continuation, two attempts. Every path of a run can
  be taken twice in a row, which is what the properties relate; two loops are
  enough for one to come between the steps of another. Two commands (`MaxGiven`) are
  one that moves the handle away during a run and one that comes back to, or forks
  at, what the run has left. Rows and branches are
  bounded where a run with its commands needs no more.
* `context`: `Plain` and `Sliding` grow a conversation of calls, thinking and
  results and compact it at every length; `Cached` has two runs, a head that moves
  and a walk limit of 2, so that every case of the incremental walk comes up in
  three messages; `Unified`, `Tight` and `Zone` start from stored conversations of
  seven messages in every order the loop can store them, with windows in which
  some, one or only the newest operation fits; in `Tight` questions are also long
  enough to be cut.
* `streams`: one slot makes tools queue; a channel of two places fills; `write`
  runs inline, between tools that run beside the stream; the reply of three calls exceeds the
  slots; one reply is cut by its length and calls a tool that does not exist.
* `workflows`: two agents are a first one that may fail and a later one that must
  not be started.
* `mcp`: `MaxLines` = 1 notification and four requests per server: an answer to an
  abandoned request, a notification and the answer may all be in the pipe.
* `routing`: two requests race for one refresh; two tokens issued are a login and
  one refresh of it. `gone` is a name in the chain that is not registered. Two
  scorers and an update after every score make the readers meet.
* `telegram`: three messages let a chat be idle, busy with one queued, and retired
  under the dispatcher, and two chats share the objects.
* `ui`: channels of one place, so that events wait in the channel, in a waiter's
  hand and in the goroutine at once; the second run has no events of its own, so
  that whatever is shown of it late is of the first. Two lines are visible of
  menus that are longer.

### Fairness

Whoever can go on does: goroutines are scheduled, SQLite answers within its busy
timeout, and runs of the agent end (`RunEnds`, for which provider and tools are
taken to return: the code sets no deadline of its own for them). Of users nothing
is assumed. Weak fairness of each goroutine's steps is enough but where several
wait for one lock: the lock of an MCP server and `GetToken` have strong fairness,
since a Go mutex serves its waiters in turn. Of the tools that wait for a slot only
one or the other is taken to get a free one: a turn has finitely many, so none is
left waiting.
`RunHandled` asks only that something of what goes on by itself happens, in
whatever order (`Progress`).
`CallReturns` assumes in addition that a server answers or exits (`McpSpec`): the
client has no timeout, and behind a server that does neither not even Close
returns (`mcp.go:577`). `RequestsEnd` rests on the 30 seconds of
`openai_oauth.go:344`.

### Met while modelling

Besides `lost_compaction`. These are states the models reach, or that follow from
the lines named; none has a run of its own.

In the loop and the store:

* Without streaming, as sub-agents run (`subagents.go:181`), the answer that follows a
  transient error is discarded, since `llmErr` is not cleared (`loop.go:339`): one
  transient error ends the run. `CallAnswers` does the same; no property is about it,
  since no text of the repository says more than that the call is retried.
* A command from the palette during a run changes where the run goes on. After `/new`
  during a first call that then fails, RemoveNode takes the user message of the old
  branch away and rewinds the new one to what it stood on: the old branch ends in a
  message that is gone, and the new conversation is the old one. (`TipsExist` is false
  then, and `ParentsExist` once the old branch is opened again and written to.) A run that goes on
  after `/fork` writes what follows to the fork, behind messages of the old branch
  (`SubAgentIsolation`); a tool result that is stored after `/fork` or a `/compact` that
  is half done stands behind another message than its call (`ToolResultsFollowCall`);
  and a turn that begins while `/compact` is at work is asked with the summary alone
  (`OwnMessageSent`). Opening the branch of a sub-agent in progress makes two writers of
  one branch (`BranchesApart`).
* A failure right after compaction deletes the head of the original branch, which
  then cannot be opened (`TipsExist` with `Compaction = TRUE`).
* A sub-agent spawned by a tool of an answer that is still streaming loses its
  history when the stream fails (`RollbackSafe` with early tools).
* The calls of a truncated answer have been run when it is continued
  (`loop.go:382-384`), and early tools run again when the attempt is repeated.
* Two loops can be given the same auto-alias: reading and writing it are two steps.
* `README.md:8` says "Nothing is ever deleted", and RemoveNode deletes; `dag.go:137`
  says a new process picks "the most recently created branch", and the query picks
  the one with the newest head, which after a fork at an older message is another.
* `snapTailStart` steps over tool messages only, so a stored thinking block lets a
  compacted tail begin between a call and its result; sanitising repairs it.

In the requests: ApplyZoneBudgetV2 cuts between a call and its result after the
repair of pairs (`context.go:366-374`), so `RequestPaired` and `AskSent` set it
aside. Messages before the first text of a user belong to no operation
(`compression.go:292`). The question the user is waiting on is cut like any other
text when it has more than 2000 characters (`compression.go:430` does it to the
active operation too); `AskSent` asks for the question as typed or cut so. A result of few but long lines is not shortened when it
is stale (`compression.go:537`).

In the streams: OpenRouter and the Responses parser take an early end of the
stream for the end of the answer (`openrouter.go:678`), so a call may run with half
its arguments; `CompleteCallsRun` is about the other two.

In sub-agents and MCP: Wait looks for a result first and for the running sub-agent
then. One that ends between the two looks, its result stored and its entry among
the running ones removed, is found in neither, and Wait calls the id unknown,
although its comment says that then "it returns the stored result immediately"
(`subagents.go:247-260`). The workflow of a sub-agent that has answered
fails then; `WaitAnswers` says that this is the only way in which an answer is missed.
A request that a server itself sends, with the id of the
pending call, would be taken for the answer (servers that send requests are not
modelled).

In routing: a model without a score is in no new list of weights, so once two have
scores the others are never picked again. Two processes share the file of the
login but not the mutex. The Anthropic key is not refreshed while the program
runs.

On the set-up screen, as `EnterPicks` says: an empty filtered list and Enter picks the
first item, which is not shown; Up in it and Enter ends the screen with a panic, and so
does Enter in the empty menu that Esc leads to from the mode of a custom provider; and
the setting the model picker was opened for may be below the window when it is come
back to. The setting SmartRouting is a switch, and Enter opens the model picker for
it; settings of a choice that was given up are set over the configuration that is
kept (`main.go:110`), so `OwnWindow` sets a choice given up aside. config.json is
not written atomically, and overrides from the environment are saved into it.

On the chat screens: text that comes after the end of a run is added to its
finished answer (`tui.go:863`); `update.go:239-241` of the second says that late
text must be ignored, and ignores it only while no other run has begun: it is then
shown in the place of the next answer, so `AnswerKept` is about answers already
shown. A note shown during a run hides the text that comes after it and the answer.
Sixteen steering messages that no run drains block the screen (`tui.go:683`), so
`RunHandled` ends in an answer or in `blocked`. Tool cards still in a channel are
lost when the end overtakes them.

## Proofs

`AgentLoopProofs` has three parts, for any number of loops, messages, branches,
turns, attempts, steering messages, commands and crashes. The first is about `MessageTree`:
chains are complete and acyclic, no branch dangles, and no message changes its
parent (`ParentsKept`, `TipsKept`, `Acyclic`, `NeverRewritten`). The invariant joins the
four state properties: taking a message back keeps the parents of others only
because parents are older, and appending keeps them older only because tips are
numbered below `next`.

The second part shows that `AgentLoop` implements `MessageTree` (`Implements`), with
`RollbackSafe` (`Rollback`), complete chains and heads that exist. The argument: a run
that no command has disturbed is alone on its branch, so what it has read stays true;
so its answer extends the tip and its user message is a tip nothing stands on; so its
steps are steps of `MessageTree`, as are those of the user. The steps of a run that is
disturbed are `DisturbedStep`, and are not spoken of. Where no run is (`[](disturbed =
{})`: commands are given between runs, and no branch or message of a sub-agent in
progress is opened), every step is one of the tree's (`ImplementsUndisturbed`), and the
theorems of the first part carry over (`ChainsComplete`, `NoDanglingHead`). It needs
`Ordinary`: compaction off, no sub-agent of an answer that is still streaming, a handle
per run. Under compaction and early spawning the conclusion is false (see the failures
after compaction and the early spawn above).

The third part is about the chains that GetAncestors reads, and takes the options as
they come. `Ancestors` is a recursive function, and what it returns is proved by
induction: the library's induction theorems take an operator as a parameter and
cannot be used here, but `WFMin`, that a non-empty set of numbers has a least element,
can, and `SetInduction` follows from it, for a set instead of a predicate. Since
parents are older than replies the chain function exists, `Ancestors` satisfies its
equation, and a chain depends on its own rows only. Then `Kinds`: a step of a loop does
nothing to the tables, stores an alias, adds a message to its branch, takes the user
message back, or opens a branch for a compaction or a sub-agent. From there:

| theorem | property | assumes of the options |
|---|---|---|
| `TypeCorrect`, `NeverEdited` | `TypeOK`; rows are never changed, ids never reused | nothing |
| `Apart` | `BranchesApart` | a handle per run (`OwnHandles`) |
| `OwnMessages` | `OwnMessageSent` | `OwnHandles` |
| `ResultsFollowCalls` | `ToolResultsFollowCall` | `OwnHandles`; not compaction and stored thinking together (`ThinkingApart`) |
| `NoLostUpdate`, `AnswersFollow` | `HeadKept`, `AnswerFollowsContext` | `OwnHandles`, compaction off (`Plain`) |
| `RunningAlone` | what an undisturbed sub-agent in progress finds on its branch is its own | `Plain` |
| `Isolation` | `SubAgentIsolation` | `Plain`, `StaysOnOwn`: no `switch`, no restart; commands between runs |
| `ChainsCompacted` | `ParentsExist` | `OwnHandles`, `StaysOnOwn`, no early tools with sub-agents (`SpawnsLate`), no `fork` with sub-agents (`ForksOwn`) |
| `Rollback`, `Implements` | `RollbackSafe`, `TreeSpec` | `Ordinary`: `Plain` and `SpawnsLate` |
| `ChainsComplete`, `NoDanglingHead` | `ParentsExist`, `TipsExist` | `Ordinary`; commands between runs |
| `HistoryKept` | the chain of a stored message does not change | `Ordinary` |

All of them but `Isolation`, `ChainsComplete` and `NoDanglingHead` let commands come at
any moment; the properties of runs are then about those that no command has disturbed,
and `ParentsExist`, `TypeOK` and `NeverEdited` about everything. Most premises are
there because the property is false without them. Two runs on a
handle read the same head, and one takes back what the other has answered. A
compaction moves the head between the reading and the answer (`lost_compaction`), and
copies the messages of others. A tail may begin with stored thinking, cut off from its
call. Switching and restarting let the main handle write to a branch that a sub-agent
has left, or open the branch whose head a disturbed run has taken back, so that the next
message stands on one that is gone; and a run that goes on after `/fork` writes to the
fork. A fork at the user message of a sub-agent that fails then stands on nothing. Only
the proof needs `Ordinary` in `HistoryKept` and `OwnHandles` in `RunningAlone`. The
instances of `subagent`, `compaction`, `commands` and `steering` meet the premises of
the theorems about what they check.

The inductive invariants, beyond the types:

* `TurnInv`: what a loop remembers of its turn, that is the head its request was made
  of, the answer it is storing, the calls whose results are in. It stays true because
  the others leave the end of its branch where it is (`Untouched`).
* `InOrder`: rows stand behind what they answer, and so do the messages a compaction
  has still to copy; the tail it takes begins with no tool result (`TailBegins`).
* `Carried`: the message a run is about is at its head, in what was sent, or the last of
  what a compaction has still to copy.
* `Alone`: what was written to a branch since it was opened was written through one
  handle. A branch that is opened starts with nothing of its own, and chains only get
  shorter when a message is taken back (`ChainsShrink`).
* `Anchored`: a run whose first call has not been answered may still take its user
  message back; no row has that message as its parent, no other run is about to
  write under it, and the copies of its own compaction stand elsewhere, at the root of
  the chain, which has a reply. It speaks of every message a run may still write
  under (`Anchor`): its head, the head it has read, the place of the next copy.

`TelegramChatsProofs`, for any number of chats, objects and messages: `TypeOK`,
`QueueReachable`, `NoIdleEntry`, and that `TelegramChats` implements `ChatQueue`.
`Inv` says that a handler at work belongs to the state its chat has in the map,
that a state the dispatcher holds is retired or still the one in the map, and
that the messages of a chat that are answered, running, queued and in the hands
of the dispatcher are 1, 2, ..., `sent`. The middle part is what the mark `retired`
is for; without it the dispatcher could start a second handler.

`ContextWindowProofs`, for any number of runs, messages, branches, settings and any
walk limit: `PromptIsChain`, and `Forest`, which no run checks. buildPrompt reads
the cache in one critical section, walks the store without it and writes the cache
in another, while other runs, commands and compactions change both. The inductive
invariant says that a list of nodes kept with a head, in the cache or in the hands
of a run, is the chain of that head if the head is still stored (`Faithful`); a
head that is gone is in no chain, so the walk does not stop there, and its id is
given to no other message. What is needed of chains is proved by induction on the
age of a message as above: a chain is its parent's with the message behind it
(`ChainStep`), it does not change when rows are added or a leaf goes (`ChainSame`),
and up to one of its elements it is that element's (`ChainPrefix`). `Forest` says
that parents are older and stay as long as their replies, and it holds with
compaction too: what CompactDAG writes stands on the first message of the chain.
`PromptIsChain` speaks of heads that are still stored, since `TakeBack` may remove
one that a run has read.

`AppProofs`, for any providers, models, settings, filters and number of runs:

* `EnterPicks` (`EnterAccounted`). `InWindow` says that the cursor is on the menu and the
  window over it, with the exceptions the property names; `Shaped` what each menu lists from: a
  group is chosen where models are listed, a category where the group has some. A
  menu that is left and come back to is at its top, and a filter that is undone
  leaves a longer menu (`MenuGrows`). `PickerType` says that the picker's list,
  joined from those of all groups, is a list of models.
* `OwnWindow`. What is set for the window while a choice is made is of the model
  chosen, or the user's (`Sourced`); `LaunchInv` follows it through main.go. The
  choice is saved before the sizes of the model are looked up, so that the file
  keeps a window of its own for the next start, and overrides are set last: that
  order is what the proof rests on.
* `AnswerKept`. While the screen listens for a run's events the last message may
  be written to, and it is no finished answer (`TuiBInv`); it listens until
  the end of that run is shown, and no other run is started before. An event that
  was taken from the channel before the end and is handled after it finds `reading`
  reset and adds nothing; if another run has begun meanwhile, its text goes to that
  run's place. A list that is cleared starts anew, which the property allows.

`StreamTurnProofs`, for any replies, tools, places, channel size and number of
attempts: `NoToolLeftRunning`, `ToolsMatchAnswer`, `CompleteCallsRun`, and
`AtMostSlots`, which no run checks: beside the tool that the run executes itself no
more than `Slots` run at once. `TurnInv` has two parts.

* While a stream is read (`StreamInv`). `Wired`: the frames to come are what the
  format prescribes after those that were read, up to the end of the reply. `Feed` and
  `Fed`: the events on the channel, the calls pending and the tools started are
  those of the blocks the parser has kept, each block told once and in order. There is a
  lemma per format and per kind of frame (`Makes`: what the parser makes of it),
  and the consumer's steps only move blocks from one of the three to the next.
* When the answer is there. `Awaited`: a tool at work is one the run waits for where
  it stands. `Matched`: each tool started early has its call in the answer. `Kept`:
  each result stored is that of the call in its place. `AllKnown`: in the first
  attempt there is no other tool. `OwnArguments`: from the two formats that tell
  whole blocks from cut ones, arguments are those of the reply.

These theorems assume that the calls of one reply have ids that differ
(`IdsDiffer`). The code relies on it and does not check it: `results` in
consumeStreamEager is keyed by the id, and Gemini's id is optional (`gemini.go:117`),
so that of two calls without one the first tool would be forgotten.

`SubAgentsProofs`, for any number of flows of any size: `ErrorStopsFlow`,
`ReturnedClean` and `WaitAnswers`. Two invariants of each id: `AgentOK`, in which of the two maps and
the channel it is follows from where its goroutine is, and whoever has waited found
its result stored, or the sub-agent at its end and the answer left in its channel;
`PlaceOK`, a flow has collected what is behind its step and
started nothing ahead of it, or, in parallel, started all and then collects all.

`McpProofs`, for any number of servers, callers and tools, and whatever servers write
unasked: `OwnAnswer` and `SchemaOfOwner`. A caller reads exactly while it holds the
lock of its server (`Alone`), so the id it waits for is the last one sent, and a line
left over from an abandoned request has a smaller one (`Ids`). Schemas are filled in
only when no server is added any more (`SchemasLater`).

`RoutingProofs`, for any number of requests, providers and tokens. `RefreshedOnce`
and `CredentialsKept` are not inductive. `Inv` adds that exactly the holder of
the mutex is between `Lock` and `Save`; that who is about to post has the
credentials of the file in hand, and who is about to save has the token the server
takes; and that, unless somebody is about to save, the file has it. A refresh then
posts what the server takes, and a save restores what holds of the file before the
lock is free. Where a request is (`InStep`) matters only because requests end and
begin again. All of it holds until a mishap, and says nothing after one: a lost
answer is a refresh token spent.

`FailedAfterAll` follows from `Chained`: every registered provider among the first
`passed` places of the chain was asked, and whoever was asked beside the first was
found there. None is asked twice when the chain names none twice; the code does not
remove repetitions from `FallbackOrder`, so that is a premise of the property.
`WeightsFollowScores`: a scorer that has read the scores keeps the read lock of
`rr.mu` until its weights are in place, and a score is added under the write lock.

The constants are assumed to be what the modules' `ASSUME`s say: caller, loop and
chat names differ from the null names, bounds are positive numbers, a reply is
a sequence of blocks, menus are made of lists, the setting `window` is a number and
what is saved includes it.

Only model-checked:

* the contents of requests (`context`): `RequestPaired`, `AskSent` and
  `OperationsRemembered` rest on folds, sorted candidates and recursive functions
  over a list of messages (repair of pairs, merging, grouping, zones), of each of
  which a theory like that of chains would be needed first;
* nothing else of `AgentLoop`'s safety: every invariant a run checks is a theorem for
  the options of that run. Where a premise above excludes an option, the property
  fails there, but for the two premises named that only the proof needs;
* liveness (`RunEnds`, `EveryMessageAnswered`, `TurnEnds`, `FlowsReturn`,
  `ResultsForgotten`, `CallReturns`, `RequestsEnd`, `RunHandled`), which needs
  ENABLED.

## Not modelled

* Drawing, wording, editing of the input line, completion, thinking blocks on the
  screen and the workflow form: layout without state the agent depends on. The
  set-up screen of `ui-b` is not reached from `cmd/main.go`.
* Hooks as a registry, instructions and their reload: maps of lists and a polling
  loop. What hooks decide is a choice of `AgentLoop`, the compression hooks are in
  `ContextWindow`.
* The HTTP and batch channels: they run the agent and write what it says. That two
  HTTP requests share a handle is listed as a hazard.
* Built-in tools, safety, telemetry, skills, routing tables: files, patterns and
  counters.
* HTTP, headers and cache marks of the providers; the login with Anthropic.
* Aliases given by hand, list commands and searches. ListMessages switches a handle
  away and back: a hazard without a property, since it takes two goroutines on one
  handle.
* Errors of the database.

What could come next: the operations of `Dag` on a shared handle, split at their
locks; what is still true of a run that a command has disturbed; a theory of the
repair of pairs, for `RequestPaired`.
