-------------------------------- MODULE Mcp --------------------------------
(***************************************************************************)
(* The MCP client (mcp.go): servers are subprocesses that answer JSON      *)
(* lines; one lock per server is held from the request to its answer.      *)
(* The program adds its servers one by one, fills in the schemas of their  *)
(* tools, serves tool calls from several runs at once and closes the       *)
(* servers when it ends (cmd/main.go:383-396).                             *)
(***************************************************************************)
EXTENDS Integers, Sequences, FiniteSets

CONSTANTS
  Servers,     \* configured servers
  Offers,      \* Offers[s]: the tools server s lists
  Clients,     \* runs that call tools
  Uses,        \* Uses[c]: the tools of the agent that runs c
  Main,        \* the goroutine of main
  NoServer,
  MaxLines,    \* bound: lines a server writes unasked
  MaxSent      \* bound: requests to a server

Callers == Clients \cup {Main}
MCPTools == UNION {Offers[s] : s \in Servers}
ASSUME McpAssumption ==
  /\ Main \notin Clients
  /\ NoServer \notin Servers \cup Callers
  /\ Uses \in [Clients -> SUBSET MCPTools]
  /\ MaxLines \in Nat /\ MaxSent \in Nat

VARIABLES
  phase,       \* "adding", "hydrating", "serving", "closing" or "closed"
  todo,        \* servers main has still to add, hydrate or close
  call,        \* per caller: the call it is in
  lock,        \* per server: the caller that holds its mutex, or none
  sent,        \* per server: requests written to it
  due,         \* per server: requests it has not answered
  out,         \* per server: lines it has written that were not read
  alive,       \* subprocesses that run
  chatter,     \* lines written unasked so far
  servers,     \* servers of the client
  tools,       \* per tool: the server it belongs to, or none
  schema       \* per tool: the server its schema came from, or none

vars == <<phase, todo, call, lock, sent, due, out, alive, chatter, servers, tools, schema>>
wire == <<sent, due, out, alive, chatter>>
registry == <<servers, tools, schema>>

NoCall == [at |-> "idle", server |-> NoServer, method |-> "none", id |-> 0, reply |-> "none"]
NoOne == NoServer
Line(kind, id, of) == [kind |-> kind, id |-> id, of |-> of]

Init ==
  /\ phase = "adding"
  /\ todo = Servers
  /\ call = [c \in Callers |-> NoCall]
  /\ lock = [s \in Servers |-> NoOne]
  /\ sent = [s \in Servers |-> 0]
  /\ due = [s \in Servers |-> {}]
  /\ out = [s \in Servers |-> <<>>]
  /\ alive = {}
  /\ chatter = 0
  /\ servers = {}
  /\ tools = [t \in MCPTools |-> NoServer]
  /\ schema = [t \in MCPTools |-> NoServer]

-----------------------------------------------------------------------------
\* MCPServer.call.

Asks(c, s, method) ==
  call' = [call EXCEPT ![c] = [at |-> "lock", server |-> s, method |-> method,
                               id |-> 0, reply |-> "none"]]

\* The lock is taken and the request written; to a dead server it cannot be.
Request(c) ==
  LET s == call[c].server
      id == sent[s] + 1
  IN /\ call[c].at = "lock"
     /\ lock[s] = NoOne
     /\ sent' = [sent EXCEPT ![s] = id]
     /\ IF s \in alive
        THEN /\ lock' = [lock EXCEPT ![s] = c]
             /\ due' = [due EXCEPT ![s] = @ \cup {id}]
             /\ call' = [call EXCEPT ![c].at = "read", ![c].id = id]
        ELSE /\ call' = [call EXCEPT ![c].at = "done", ![c].reply = "error"]
             /\ UNCHANGED <<lock, due>>
     /\ UNCHANGED <<phase, todo, out, alive, chatter, registry>>

IsAnswerToAny(c, line) == line.kind # "notification"
\* A line is taken for the answer when it has the id of the request and is
\* not a notification; a request of the server itself counts as an answer.
IsAnswer(c, line) == line.kind # "notification" /\ line.id = call[c].id

ReadLineKeepsLock(c) ==
  /\ call[c].at = "read" /\ out[call[c].server] # <<>>
  /\ out' = [out EXCEPT ![call[c].server] = Tail(@)]
  /\ call' = [call EXCEPT ![c].at = "done", ![c].reply = Head(out[call[c].server]).of]
  /\ UNCHANGED <<phase, todo, lock, sent, due, alive, chatter, registry>>

ReadLine(c) ==
  LET s == call[c].server
  IN /\ call[c].at = "read"
     /\ out[s] # <<>>
     /\ out' = [out EXCEPT ![s] = Tail(@)]
     /\ IF IsAnswer(c, Head(out[s]))
        THEN /\ call' = [call EXCEPT ![c].at = "done", ![c].reply = Head(out[s]).of]
             /\ lock' = [lock EXCEPT ![s] = NoOne]
        ELSE UNCHANGED <<call, lock>>
     /\ UNCHANGED <<phase, todo, sent, due, alive, chatter, registry>>

ReadEnd(c) ==
  LET s == call[c].server
  IN /\ call[c].at = "read"
     /\ out[s] = <<>> /\ s \notin alive
     /\ call' = [call EXCEPT ![c].at = "done", ![c].reply = "error"]
     /\ lock' = [lock EXCEPT ![s] = NoOne]
     /\ UNCHANGED <<phase, todo, wire, registry>>

-----------------------------------------------------------------------------
\* The subprocess: it answers, talks unasked, or dies.

Answer(s) ==
  /\ s \in alive
  /\ \E id \in due[s], of \in {"result", "error"} :
       /\ due' = [due EXCEPT ![s] = @ \ {id}]
       /\ out' = [out EXCEPT ![s] = Append(@, Line("response", id, of))]
  /\ UNCHANGED <<phase, todo, call, lock, sent, alive, chatter, registry>>

\* Of the lines written unasked, notifications have no id; an old answer has
\* the id of a request that was given up.
Talk(s) ==
  /\ s \in alive
  /\ chatter < MaxLines
  /\ chatter' = chatter + 1
  /\ \E line \in {Line("notification", 0, "nothing")}
                   \cup {Line("response", id, "stale") : id \in 1..sent[s] - 1} :
       out' = [out EXCEPT ![s] = Append(@, line)]
  /\ UNCHANGED <<phase, todo, call, lock, sent, due, alive, registry>>

Die(s) ==
  /\ s \in alive
  /\ alive' = alive \ {s}
  /\ UNCHANGED <<phase, todo, call, lock, sent, due, out, chatter, registry>>

-----------------------------------------------------------------------------
\* The goroutine of main: AddServer for each server, hydrateAllSchemas, Close.

Return(c) == call' = [call EXCEPT ![c] = NoCall]

AddServer(s) ==
  /\ phase = "adding" /\ call[Main].at = "idle" /\ s \in todo
  /\ alive' = alive \cup {s}
  /\ Asks(Main, s, "initialize")
  /\ UNCHANGED <<phase, todo, lock, sent, due, out, chatter, registry>>

\* The handshake failed, or tools/list did: the subprocess is killed.
AddFails ==
  LET s == call[Main].server
  IN /\ phase = "adding" /\ call[Main].at = "done" /\ call[Main].reply # "result"
     /\ alive' = alive \ {s}
     /\ todo' = todo \ {s}
     /\ Return(Main)
     /\ UNCHANGED <<phase, lock, sent, due, out, chatter, registry>>

Initialized ==
  /\ phase = "adding" /\ call[Main].at = "done"
  /\ call[Main].reply = "result" /\ call[Main].method = "initialize"
  /\ Asks(Main, call[Main].server, "tools/list")
  /\ UNCHANGED <<phase, todo, lock, wire, registry>>

\* discoverTools and the entry in servers: a tool that another server already
\* listed changes hands.
Discovered ==
  LET s == call[Main].server
  IN /\ phase = "adding" /\ call[Main].at = "done"
     /\ call[Main].reply = "result" /\ call[Main].method = "tools/list"
     /\ tools' = [t \in MCPTools |-> IF t \in Offers[s] THEN s ELSE tools[t]]
     /\ servers' = servers \cup {s}
     /\ todo' = todo \ {s}
     /\ Return(Main)
     /\ UNCHANGED <<phase, lock, wire, schema>>

AllAdded ==
  /\ phase = "adding" /\ todo = {} /\ call[Main].at = "idle"
  /\ phase' = "hydrating"
  /\ todo' = servers
  /\ UNCHANGED <<call, lock, wire, registry>>

AskSchemas(s) ==
  /\ phase = "hydrating" /\ call[Main].at = "idle" /\ s \in todo
  /\ Asks(Main, s, "tools/list")
  /\ UNCHANGED <<phase, todo, lock, wire, registry>>

StoreSchemasByName ==
  /\ phase = "hydrating" /\ call[Main].at = "done"
  /\ schema' = [t \in MCPTools |->
       IF call[Main].reply = "result" /\ t \in Offers[call[Main].server] /\ schema[t] = NoServer
       THEN call[Main].server ELSE schema[t]]
  /\ todo' = todo \ {call[Main].server}
  /\ Return(Main)
  /\ UNCHANGED <<phase, lock, wire, servers, tools>>

\* Only tools that still belong to the server get its schema.
StoreSchemas ==
  LET s == call[Main].server
      mine == {t \in Offers[s] : schema[t] = NoServer /\ tools[t] = s}
  IN /\ phase = "hydrating" /\ call[Main].at = "done"
     /\ schema' = IF call[Main].reply = "result"
                  THEN [t \in MCPTools |-> IF t \in mine THEN s ELSE schema[t]]
                  ELSE schema
     /\ todo' = todo \ {s}
     /\ Return(Main)
     /\ UNCHANGED <<phase, lock, wire, servers, tools>>

Serve ==
  /\ phase = "hydrating" /\ todo = {} /\ call[Main].at = "idle"
  /\ phase' = "serving"
  /\ UNCHANGED <<todo, call, lock, wire, registry>>

BeginClose ==
  /\ phase = "serving"
  /\ phase' = "closing"
  /\ todo' = servers
  /\ UNCHANGED <<call, lock, wire, registry>>

\* Kill and Wait, under the lock of the server.
CloseServer(s) ==
  /\ phase = "closing" /\ s \in todo
  /\ lock[s] = NoOne
  /\ alive' = alive \ {s}
  /\ todo' = todo \ {s}
  /\ UNCHANGED <<phase, call, lock, sent, due, out, chatter, registry>>

EndClose ==
  /\ phase = "closing" /\ todo = {}
  /\ phase' = "closed"
  /\ UNCHANGED <<todo, call, lock, wire, registry>>

-----------------------------------------------------------------------------
\* CallTool, up to the call of the server.
CallTool(c, t) ==
  /\ phase \in {"serving", "closing"}
  /\ call[c].at = "idle"
  /\ IF tools[t] \in servers
     THEN sent[tools[t]] < MaxSent /\ Asks(c, tools[t], "tools/call")
     ELSE call' = [call EXCEPT ![c].at = "done", ![c].reply = "error"]
  /\ UNCHANGED <<phase, todo, lock, wire, registry>>

\* The result is handed to the run.
ToolReturns(c) ==
  /\ c # Main
  /\ call[c].at = "done"
  /\ Return(c)
  /\ UNCHANGED <<phase, todo, lock, wire, registry>>

Exchange(c) == Request(c) \/ ReadLine(c) \/ ReadEnd(c)
MainStep ==
  \/ AddFails \/ Initialized \/ Discovered \/ AllAdded \/ StoreSchemas \/ Serve \/ EndClose
  \/ \E s \in Servers : AddServer(s) \/ AskSchemas(s) \/ CloseServer(s)
Run(c) == ToolReturns(c) \/ \E t \in Uses[c] : CallTool(c, t)
Server(s) == Answer(s) \/ Talk(s) \/ Die(s)

Next ==
  \/ MainStep \/ BeginClose
  \/ \E c \in Callers : Exchange(c)
  \/ \E c \in Clients : Run(c)
  \/ \E s \in Servers : Server(s)

\* Goroutines run, and a mutex is granted to whoever waits for it.
ClientFairness ==
  /\ \A c \in Callers : SF_vars(Request(c)) /\ WF_vars(ReadLine(c) \/ ReadEnd(c))
  /\ WF_vars(MainStep)
  /\ \A s \in Servers : SF_vars(CloseServer(s))
\* A server answers in the end, or dies.
ServerFairness == \A s \in Servers : WF_vars(Answer(s))

ClientSpec == Init /\ [][Next]_vars /\ ClientFairness
McpSpec == ClientSpec /\ ServerFairness

-----------------------------------------------------------------------------
(* Properties.                                                             *)

TypeOK ==
  /\ phase \in {"adding", "hydrating", "serving", "closing", "closed"}
  /\ todo \subseteq Servers /\ alive \subseteq Servers /\ servers \subseteq Servers
  /\ lock \in [Servers -> Callers \cup {NoOne}]
  /\ \A c \in Callers :
       /\ call[c].at \in {"idle", "lock", "read", "done"}
       /\ call[c].server \in Servers \cup {NoServer}
       /\ call[c].at = "read" <=> \E s \in Servers : lock[s] = c
  /\ tools \in [MCPTools -> Servers \cup {NoServer}]
  /\ schema \in [MCPTools -> Servers \cup {NoServer}]

\* An answer is the answer to the caller's own request: neither an old answer
\* nor a notification that is still in the pipe is taken for it
\* (mcp.go:126-148).
OwnAnswer == \A c \in Callers : call[c].reply \in {"none", "result", "error"}

\* The schema the model is shown for a tool is the schema of the server that
\* will run the tool, also when two servers list the same name
\* (mcp.go:459-466).
SchemaOfOwner == \A t \in MCPTools : schema[t] \in {NoServer, tools[t]}

\* A call of a server returns, whatever else is waiting for the lock of the
\* server and whether or not the server dies meanwhile (mcp.go:150-164).
CallReturns == \A c \in Callers : call[c].at \in {"lock", "read"} ~> call[c].at = "done"

=============================================================================
