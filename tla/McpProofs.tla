------------------------------ MODULE McpProofs ------------------------------
(***************************************************************************)
(* Theorems of Mcp, for any number of servers, runs and tools and whatever *)
(* the servers write unasked.                                              *)
(*                                                                         *)
(* Whoever reads holds the lock of the server, so nobody else has sent the *)
(* server a request since its own: its id is the largest the server has    *)
(* seen, and no line left over from an earlier request carries it.         *)
(***************************************************************************)
EXTENDS Mcp, TLAPS

Phases == {"adding", "hydrating", "serving", "closing", "closed"}
Replies == {"none", "result", "error", "nothing", "stale"}
Calls == [at : {"idle", "lock", "read", "done"}, server : Servers \cup {NoServer},
          method : {"none", "initialize", "tools/list", "tools/call"}, id : Nat, reply : Replies]
Lines == [kind : {"response", "notification"}, id : Nat, of : Replies]

CallsTyped == call \in [Callers -> Calls]
WireTyped ==
  /\ sent \in [Servers -> Nat] /\ due \in [Servers -> SUBSET Nat]
  /\ out \in [Servers -> Seq(Lines)]
  /\ alive \subseteq Servers /\ chatter \in Nat
MainTyped ==
  /\ phase \in Phases
  /\ todo \subseteq Servers /\ servers \subseteq Servers
  /\ tools \in [MCPTools -> Servers \cup {NoServer}]
  /\ schema \in [MCPTools -> Servers \cup {NoServer}]

\* A caller that is with a server reads from it exactly while it holds its lock.
Placed == \A c \in Callers :
  call[c].at \in {"lock", "read"} \/ (c = Main /\ call[c].at = "done") => call[c].server \in Servers
Alone ==
  /\ lock \in [Servers -> Callers \cup {NoOne}]
  /\ \A c \in Callers : call[c].at = "read" => lock[call[c].server] = c
  /\ \A s \in Servers : lock[s] # NoOne => call[lock[s]].at = "read" /\ call[lock[s]].server = s

\* The ids on their way back are ids that were sent; a reader waits for the last.
OfRequests(s, line) ==
  \/ line.kind = "notification"
  \/ line.id \in 1..sent[s] /\ line.of \in {"result", "error"}
  \/ line.id \in 1..(sent[s] - 1) /\ line.of = "stale"
Ids ==
  /\ \A s \in Servers : due[s] \subseteq 1..sent[s]
  /\ \A s \in Servers : \A i \in 1..Len(out[s]) : OfRequests(s, out[s][i])
  /\ \A c \in Callers : call[c].at = "read" => call[c].id = sent[call[c].server]

\* Schemas are filled in once it is settled which tool belongs to which server.
SchemasLater == phase = "adding" => \A t \in MCPTools : schema[t] = NoServer

Inv ==
  /\ CallsTyped /\ WireTyped /\ MainTyped
  /\ Placed /\ Alone /\ Ids /\ OwnAnswer
  /\ SchemasLater /\ SchemaOfOwner

-----------------------------------------------------------------------------
LEMMA InitInv == Init => Inv
  BY McpAssumption
  DEF Init, Inv, CallsTyped, WireTyped, MainTyped, Placed, Alone, Ids, OwnAnswer, SchemasLater,
      SchemaOfOwner, Calls, Lines, Phases, Replies, NoCall, NoOne

\* Nothing is said of what does not change.
LEMMA QuietStep == Inv /\ UNCHANGED vars => Inv'
  BY DEF vars, Inv, CallsTyped, WireTyped, MainTyped, Placed, Alone, Ids, OfRequests, OwnAnswer,
         SchemasLater, SchemaOfOwner

\* A caller that does not read, and then does not either, may take up another call.
LEMMA CallStep ==
  ASSUME Inv, NEW c \in Callers, call[c].at # "read", NEW k \in Calls,
         k.at # "read", k.reply \in {"none", "result", "error"},
         k.at = "lock" \/ (c = Main /\ k.at = "done") => k.server \in Servers,
         call' = [call EXCEPT ![c] = k], UNCHANGED lock
  PROVE  CallsTyped' /\ Placed' /\ Alone' /\ OwnAnswer'
<1>1. \A d \in Callers : call'[d] = IF d = c THEN k ELSE call[d]
  BY DEF Inv, CallsTyped
<1>2. CallsTyped'
  BY DEF Inv, CallsTyped
<1>3. Placed' /\ OwnAnswer'
  BY <1>1 DEF Inv, Placed, OwnAnswer
<1>4. Alone'
  BY <1>1 DEF Inv, Alone, NoOne
<1> QED
  BY <1>2, <1>3, <1>4

LEMMA NoCallTyped == NoCall \in Calls /\ NoCall.at = "idle" /\ NoCall.reply = "none"
  BY DEF NoCall, Calls, Replies

\* The lock of a server goes with being its reader.
LEMMA TakeLock ==
  ASSUME Inv, NEW c \in Callers, NEW s \in Servers, lock[s] = NoOne, call[c].at # "read",
         lock' = [lock EXCEPT ![s] = c], call'[c].at = "read", call'[c].server = s,
         \A d \in Callers : d # c => call'[d] = call[d]
  PROVE  Alone'
<1>1. lock' \in [Servers -> Callers \cup {NoOne}]
      /\ \A r \in Servers : lock'[r] = IF r = s THEN c ELSE lock[r]
  BY DEF Inv, Alone
<1>2. ASSUME NEW d \in Callers, call'[d].at = "read" PROVE lock'[call'[d].server] = d
  <2>1. d # c => lock[call[d].server] = d /\ call[d].server \in Servers
    BY <1>2 DEF Inv, Alone, Placed
  <2> QED
    BY <1>1, <2>1, McpAssumption DEF NoOne
<1>3. ASSUME NEW r \in Servers, lock'[r] # NoOne
      PROVE  call'[lock'[r]].at = "read" /\ call'[lock'[r]].server = r
  <2>1. r # s => lock[r] \in Callers /\ call[lock[r]].at = "read" /\ call[lock[r]].server = r
    BY <1>1, <1>3 DEF Inv, Alone
  <2> QED
    BY <1>1, <2>1
<1> QED
  BY <1>1, <1>2, <1>3 DEF Alone

LEMMA LeaveLock ==
  ASSUME Inv, NEW c \in Callers, call[c].at = "read",
         lock' = [lock EXCEPT ![call[c].server] = NoOne], call'[c].at # "read",
         \A d \in Callers : d # c => call'[d] = call[d]
  PROVE  Alone'
<1> DEFINE s == call[c].server
<1>1. lock' \in [Servers -> Callers \cup {NoOne}] /\ s \in Servers /\ lock[s] = c
      /\ \A r \in Servers : lock'[r] = IF r = s THEN NoOne ELSE lock[r]
  BY DEF Inv, Alone, Placed
<1>2. ASSUME NEW d \in Callers, call'[d].at = "read" PROVE lock'[call'[d].server] = d
  <2>1. d # c /\ call'[d] = call[d] /\ lock[call[d].server] = d /\ call[d].server \in Servers
    BY <1>2 DEF Inv, Alone, Placed
  <2> QED
    BY <1>1, <2>1
<1>3. ASSUME NEW r \in Servers, lock'[r] # NoOne
      PROVE  call'[lock'[r]].at = "read" /\ call'[lock'[r]].server = r
  <2>1. r # s /\ lock'[r] = lock[r]
    BY <1>1, <1>3
  <2>2. lock[r] \in Callers /\ call[lock[r]].at = "read" /\ call[lock[r]].server = r
    BY <1>3, <2>1 DEF Inv, Alone
  <2> QED
    BY <2>1, <2>2
<1> QED
  BY <1>1, <1>2, <1>3 DEF Alone

LEMMA RequestStep == ASSUME Inv, NEW c \in Callers, Request(c) PROVE Inv'
<1> DEFINE s == call[c].server
           id == sent[s] + 1
<1>1. /\ call[c].at = "lock" /\ s \in Servers /\ lock[s] = NoOne /\ call[c] \in Calls
      /\ id \in Nat /\ sent' = [sent EXCEPT ![s] = id]
      /\ UNCHANGED <<phase, todo, out, alive, chatter, registry>>
  BY DEF Inv, CallsTyped, WireTyped, Placed, Request
<1>2. MainTyped' /\ SchemasLater' /\ SchemaOfOwner'
  BY <1>1 DEF Inv, MainTyped, SchemasLater, SchemaOfOwner, registry
<1>3. \A d \in Callers : call[d].at = "read" => call[d].server # s
  BY <1>1, McpAssumption DEF Inv, Placed, Alone, NoOne
<1>4. \A r \in Servers : sent'[r] = IF r = s THEN id ELSE sent[r]
  BY <1>1 DEF Inv, WireTyped
<1>5. (\A r \in Servers : \A i \in 1..Len(out[r]) : OfRequests(r, out[r][i]))'
  <2> SUFFICES ASSUME NEW r \in Servers, NEW i \in 1..Len(out[r]) PROVE OfRequests(r, out[r][i])'
    BY <1>1
  <2>1. OfRequests(r, out[r][i]) /\ sent[r] \in Nat /\ out' = out
    BY <1>1 DEF Inv, Ids, WireTyped
  <2>2. 1..sent[r] \subseteq 1..sent'[r] /\ 1..(sent[r] - 1) \subseteq 1..(sent'[r] - 1)
    BY <1>4, <2>1
  <2> QED
    BY <2>1, <2>2 DEF OfRequests
<1>6. CASE s \in alive
  <2>1. /\ lock' = [lock EXCEPT ![s] = c] /\ due' = [due EXCEPT ![s] = @ \cup {id}]
        /\ call' = [call EXCEPT ![c].at = "read", ![c].id = id]
    BY <1>6 DEF Request
  <2>2. /\ call'[c] \in Calls /\ call'[c].at = "read" /\ call'[c].id = id
        /\ call'[c].server = s /\ call'[c].reply = call[c].reply
        /\ \A d \in Callers : d # c => call'[d] = call[d]
    BY <1>1, <2>1 DEF Inv, CallsTyped, Calls
  <2>3. CallsTyped'
    BY <2>1, <2>2 DEF Inv, CallsTyped
  <2>4. WireTyped'
    BY <1>1, <2>1 DEF Inv, WireTyped
  <2>5. Placed' /\ OwnAnswer'
    BY <1>1, <2>2 DEF Inv, Placed, OwnAnswer
  <2>6. Alone'
    BY <1>1, <2>1, <2>2, TakeLock
  <2>7. Ids'
    <3>1. (\A r \in Servers : due[r] \subseteq 1..sent[r])'
      BY <1>1, <1>4, <2>1 DEF Inv, Ids, WireTyped
    <3>2. (\A d \in Callers : call[d].at = "read" => call[d].id = sent[call[d].server])'
      BY <1>3, <1>4, <2>2, <1>1 DEF Inv, Ids, Placed
    <3> QED
      BY <1>5, <3>1, <3>2 DEF Ids
  <2> QED
    BY <1>2, <2>3, <2>4, <2>5, <2>6, <2>7 DEF Inv
<1>7. CASE s \notin alive
  <2> DEFINE k == [call[c] EXCEPT !.at = "done", !.reply = "error"]
  <2>1. UNCHANGED <<lock, due>> /\ call' = [call EXCEPT ![c] = k]
    BY <1>7, <1>1 DEF Request, Inv, CallsTyped
  <2>2. k \in Calls /\ k.at = "done" /\ k.reply = "error" /\ k.server = s
    BY <1>1 DEF Calls, Replies
  <2>3. \A d \in Callers : d # c => call'[d] = call[d]
    BY <2>1
  <2>4. call'[c] = k
    BY <2>1 DEF Inv, CallsTyped
  <2> HIDE DEF k
  <2>5. CallsTyped' /\ Placed' /\ Alone' /\ OwnAnswer'
    BY <1>1, <2>1, <2>2, CallStep
  <2>6. WireTyped'
    BY <1>1, <2>1 DEF Inv, WireTyped
  <2>7. Ids'
    <3>1. (\A r \in Servers : due[r] \subseteq 1..sent[r])'
      BY <1>1, <1>4, <2>1 DEF Inv, Ids, WireTyped
    <3>2. (\A d \in Callers : call[d].at = "read" => call[d].id = sent[call[d].server])'
      BY <1>3, <1>4, <2>2, <2>3, <2>4 DEF Inv, Ids, Placed
    <3> QED
      BY <1>5, <3>1, <3>2 DEF Ids
  <2> QED
    BY <1>2, <2>5, <2>6, <2>7 DEF Inv
<1> QED
  BY <1>6, <1>7

\* What is left of a pipe after its first line was read.
LEMMA TailOut ==
  ASSUME Inv, NEW s \in Servers, out[s] # <<>>, out' = [out EXCEPT ![s] = Tail(@)], UNCHANGED sent
  PROVE  /\ out' \in [Servers -> Seq(Lines)]
         /\ (\A r \in Servers : \A i \in 1..Len(out[r]) : OfRequests(r, out[r][i]))'
<1>1. out[s] \in Seq(Lines) /\ out \in [Servers -> Seq(Lines)]
  BY DEF Inv, WireTyped
<1>2. Tail(out[s]) \in Seq(Lines) /\ Len(Tail(out[s])) = Len(out[s]) - 1
      /\ \A i \in 1..Len(Tail(out[s])) : i + 1 \in 1..Len(out[s]) /\ Tail(out[s])[i] = out[s][i + 1]
  BY <1>1
<1>3. \A r \in Servers : out'[r] = IF r = s THEN Tail(out[s]) ELSE out[r]
  BY <1>1
<1>4. \A r \in Servers : \A i \in 1..Len(out[r]) : OfRequests(r, out[r][i])
  BY DEF Inv, Ids
<1>5. ASSUME NEW r \in Servers, NEW i \in 1..Len(out'[r]) PROVE OfRequests(r, out[r][i])'
  <2>1. PICK j \in 1..Len(out[r]) : out'[r][i] = out[r][j]
    BY <1>2, <1>3, <1>5
  <2>2. OfRequests(r, out[r][j])
    BY <1>4
  <2> QED
    BY <2>1, <2>2 DEF OfRequests
<1> QED
  BY <1>1, <1>2, <1>5

\* The line a reader takes for its answer is the answer: an older one has a
\* smaller id.
LEMMA AnswerIsOwn ==
  ASSUME Inv, NEW c \in Callers, call[c].at = "read", out[call[c].server] # <<>>,
         IsAnswer(c, Head(out[call[c].server]))
  PROVE  Head(out[call[c].server]).of \in {"result", "error"}
<1> DEFINE s == call[c].server
<1>1. s \in Servers /\ sent[s] \in Nat /\ call[c].id = sent[s]
  BY DEF Inv, Placed, WireTyped, Ids
<1>2. out[s] \in Seq(Lines) /\ 1 \in 1..Len(out[s]) /\ Head(out[s]) = out[s][1]
  BY <1>1 DEF Inv, WireTyped
<1>3. OfRequests(s, out[s][1])
  BY <1>1, <1>2 DEF Inv, Ids
<1> QED
  BY <1>1, <1>2, <1>3 DEF OfRequests, IsAnswer

LEMMA ReadLineStep == ASSUME Inv, NEW c \in Callers, ReadLine(c) PROVE Inv'
<1> DEFINE s == call[c].server
           line == Head(out[s])
<1>1. /\ call[c].at = "read" /\ s \in Servers /\ lock[s] = c /\ call[c] \in Calls
      /\ out[s] # <<>> /\ out' = [out EXCEPT ![s] = Tail(@)]
      /\ UNCHANGED <<phase, todo, sent, due, alive, chatter, registry>>
  BY DEF Inv, CallsTyped, Placed, Alone, ReadLine
<1>2. MainTyped' /\ SchemasLater' /\ SchemaOfOwner'
  BY <1>1 DEF Inv, MainTyped, SchemasLater, SchemaOfOwner, registry
<1>3. WireTyped' /\ (\A r \in Servers : \A i \in 1..Len(out[r]) : OfRequests(r, out[r][i]))'
  BY <1>1, TailOut DEF Inv, WireTyped
<1>4. CASE ~ IsAnswer(c, line)
  <2>1. UNCHANGED <<call, lock>>
    BY <1>4 DEF ReadLine
  <2> QED
    BY <1>1, <1>2, <1>3, <2>1 DEF Inv, CallsTyped, Placed, Alone, Ids, OwnAnswer
<1>5. CASE IsAnswer(c, line)
  <2>1. /\ call' = [call EXCEPT ![c].at = "done", ![c].reply = line.of]
        /\ lock' = [lock EXCEPT ![s] = NoOne]
    BY <1>5 DEF ReadLine
  <2>2. line.of \in {"result", "error"}
    BY <1>1, <1>5, AnswerIsOwn
  <2> HIDE DEF line
  <2>3. /\ call'[c] \in Calls /\ call'[c].at = "done" /\ call'[c].server = s
        /\ call'[c].reply \in {"result", "error"}
        /\ \A d \in Callers : d # c => call'[d] = call[d]
    BY <1>1, <2>1, <2>2 DEF Inv, CallsTyped, Calls, Replies
  <2>4. CallsTyped'
    BY <2>1, <2>3 DEF Inv, CallsTyped
  <2>5. Placed' /\ OwnAnswer'
    BY <1>1, <2>3 DEF Inv, Placed, OwnAnswer
  <2>6. Alone'
    BY <1>1, <2>1, <2>3, LeaveLock
  <2>7. Ids'
    BY <1>1, <1>3, <2>3 DEF Inv, Ids
  <2> QED
    BY <1>2, <1>3, <2>4, <2>5, <2>6, <2>7 DEF Inv
<1> QED
  BY <1>4, <1>5

LEMMA ReadEndStep == ASSUME Inv, NEW c \in Callers, ReadEnd(c) PROVE Inv'
<1> DEFINE s == call[c].server
<1>1. /\ call[c].at = "read" /\ s \in Servers /\ lock[s] = c /\ call[c] \in Calls
      /\ call' = [call EXCEPT ![c].at = "done", ![c].reply = "error"]
      /\ lock' = [lock EXCEPT ![s] = NoOne]
      /\ UNCHANGED <<phase, todo, wire, registry>>
  BY DEF Inv, CallsTyped, Placed, Alone, ReadEnd
<1>2. /\ call'[c] \in Calls /\ call'[c].at = "done" /\ call'[c].server = s
      /\ call'[c].reply = "error"
      /\ \A d \in Callers : d # c => call'[d] = call[d]
  BY <1>1 DEF Inv, CallsTyped, Calls, Replies
<1>3. MainTyped' /\ SchemasLater' /\ SchemaOfOwner' /\ WireTyped'
  BY <1>1 DEF Inv, MainTyped, SchemasLater, SchemaOfOwner, WireTyped, registry, wire
<1>4. CallsTyped'
  BY <1>1, <1>2 DEF Inv, CallsTyped
<1>5. Placed' /\ OwnAnswer'
  BY <1>1, <1>2 DEF Inv, Placed, OwnAnswer
<1>6. Alone'
  BY <1>1, <1>2, LeaveLock
<1>7. Ids'
  BY <1>1, <1>2 DEF Inv, Ids, OfRequests, wire
<1> QED
  BY <1>3, <1>4, <1>5, <1>6, <1>7 DEF Inv

-----------------------------------------------------------------------------
\* The subprocess.

LEMMA WriteStep ==
  ASSUME Inv, NEW s \in Servers, NEW line \in Lines, OfRequests(s, line),
         out' = [out EXCEPT ![s] = Append(@, line)], UNCHANGED sent
  PROVE  /\ out' \in [Servers -> Seq(Lines)]
         /\ (\A r \in Servers : \A i \in 1..Len(out[r]) : OfRequests(r, out[r][i]))'
<1>1. out \in [Servers -> Seq(Lines)] /\ out[s] \in Seq(Lines)
  BY DEF Inv, WireTyped
<1>2. Append(out[s], line) \in Seq(Lines) /\ Len(Append(out[s], line)) = Len(out[s]) + 1
      /\ \A i \in 1..(Len(out[s]) + 1) :
           \/ i \in 1..Len(out[s]) /\ Append(out[s], line)[i] = out[s][i]
           \/ Append(out[s], line)[i] = line
  BY <1>1
<1>3. \A r \in Servers : out'[r] = IF r = s THEN Append(out[s], line) ELSE out[r]
  BY <1>1
<1>4. \A r \in Servers : \A i \in 1..Len(out[r]) : OfRequests(r, out[r][i])
  BY DEF Inv, Ids
<1>5. ASSUME NEW r \in Servers, NEW i \in 1..Len(out'[r]) PROVE OfRequests(r, out[r][i])'
  <2>1. OfRequests(r, out'[r][i])
    BY <1>2, <1>3, <1>4, <1>5
  <2> QED
    BY <2>1 DEF OfRequests
<1> QED
  BY <1>1, <1>2, <1>5

LEMMA ServerStep == ASSUME Inv, NEW s \in Servers, Server(s) PROVE Inv'
<1>1. UNCHANGED <<phase, todo, call, lock, sent, registry>>
  BY DEF Server, Answer, Talk, Die
<1>2. /\ CallsTyped' /\ Placed' /\ Alone' /\ OwnAnswer' /\ MainTyped'
      /\ SchemasLater' /\ SchemaOfOwner'
      /\ (\A c \in Callers : call[c].at = "read" => call[c].id = sent[call[c].server])'
  BY <1>1 DEF Inv, CallsTyped, MainTyped, Placed, Alone, Ids, OwnAnswer, SchemasLater,
              SchemaOfOwner, registry
<1>3. CASE Answer(s)
  <2>1. PICK id \in due[s], of \in {"result", "error"} :
          /\ due' = [due EXCEPT ![s] = @ \ {id}]
          /\ out' = [out EXCEPT ![s] = Append(@, Line("response", id, of))]
    BY <1>3 DEF Answer
  <2>2. id \in 1..sent[s] /\ sent[s] \in Nat
    BY DEF Inv, Ids, WireTyped
  <2>3. Line("response", id, of) \in Lines /\ OfRequests(s, Line("response", id, of))
    BY <2>2 DEF Line, Lines, Replies, OfRequests
  <2>4. UNCHANGED <<alive, chatter>>
    BY <1>3 DEF Answer
  <2>5. WireTyped'
    BY <1>1, <2>1, <2>3, <2>4, WriteStep DEF Inv, WireTyped
  <2>6. (\A r \in Servers : due[r] \subseteq 1..sent[r])'
    BY <1>1, <2>1 DEF Inv, Ids, WireTyped
  <2> QED
    BY <1>1, <1>2, <2>1, <2>3, <2>5, <2>6, WriteStep DEF Inv, Ids
<1>4. CASE Talk(s)
  <2>1. PICK line \in {Line("notification", 0, "nothing")}
                        \cup {Line("response", id, "stale") : id \in 1..sent[s] - 1} :
          out' = [out EXCEPT ![s] = Append(@, line)]
    BY <1>4 DEF Talk
  <2>2. line \in Lines /\ OfRequests(s, line)
    BY DEF Line, Lines, Replies, OfRequests
  <2>3. UNCHANGED <<alive, due>> /\ chatter' = chatter + 1
    BY <1>4 DEF Talk
  <2>4. WireTyped'
    BY <1>1, <2>1, <2>2, <2>3, WriteStep DEF Inv, WireTyped
  <2>5. (\A r \in Servers : due[r] \subseteq 1..sent[r])'
    BY <1>1, <2>3 DEF Inv, Ids
  <2> QED
    BY <1>1, <1>2, <2>1, <2>2, <2>4, <2>5, WriteStep DEF Inv, Ids
<1>5. CASE Die(s)
  BY <1>1, <1>2, <1>5 DEF Inv, WireTyped, Ids, OfRequests, Die
<1> QED
  BY <1>3, <1>4, <1>5 DEF Server

-----------------------------------------------------------------------------
\* The goroutine of main, and the runs.

\* A caller that does not read takes up another call; the wire keeps its lines.
LEMMA TurnStep ==
  ASSUME Inv, NEW c \in Callers, call[c].at # "read", NEW k \in Calls,
         k.at # "read", k.reply \in {"none", "result", "error"},
         k.at = "lock" \/ (c = Main /\ k.at = "done") => k.server \in Servers,
         call' = [call EXCEPT ![c] = k], UNCHANGED <<lock, sent, due, out, chatter>>,
         alive' \subseteq Servers
  PROVE  CallsTyped' /\ WireTyped' /\ Placed' /\ Alone' /\ Ids' /\ OwnAnswer'
<1>1. \A d \in Callers : call'[d] = IF d = c THEN k ELSE call[d]
  BY DEF Inv, CallsTyped
<1>2. Ids'
  BY <1>1 DEF Inv, Ids, OfRequests
<1>3. WireTyped'
  BY DEF Inv, WireTyped
<1> QED
  BY <1>2, <1>3, CallStep

LEMMA AsksStep ==
  ASSUME Inv, NEW c \in Callers, call[c].at # "read", NEW s \in Servers,
         NEW method \in {"initialize", "tools/list", "tools/call"}, Asks(c, s, method),
         UNCHANGED <<lock, sent, due, out, chatter>>, alive' \subseteq Servers
  PROVE  CallsTyped' /\ WireTyped' /\ Placed' /\ Alone' /\ Ids' /\ OwnAnswer'
<1> DEFINE k == [at |-> "lock", server |-> s, method |-> method, id |-> 0, reply |-> "none"]
<1>1. k \in Calls /\ k.at = "lock" /\ k.reply = "none" /\ k.server = s
  BY DEF Calls, Replies
<1>2. call' = [call EXCEPT ![c] = k]
  BY DEF Asks
<1> HIDE DEF k
<1> QED
  BY <1>1, <1>2, TurnStep

LEMMA ReturnStep ==
  ASSUME Inv, NEW c \in Callers, call[c].at # "read", Return(c),
         UNCHANGED <<lock, sent, due, out, chatter>>, alive' \subseteq Servers
  PROVE  CallsTyped' /\ WireTyped' /\ Placed' /\ Alone' /\ Ids' /\ OwnAnswer'
<1>1. NoCall.at = "idle"
  BY DEF NoCall
<1> QED
  BY <1>1, NoCallTyped, TurnStep DEF Return

LEMMA MainCaller == Main \in Callers /\ Clients \subseteq Callers
  BY DEF Callers

LEMMA AddingStep ==
  ASSUME Inv, phase = "adding",
         AddFails \/ Initialized \/ Discovered \/ AllAdded \/ \E s \in Servers : AddServer(s)
  PROVE  Inv'
<1> USE MainCaller
<1> DEFINE s == call[Main].server
<1>1. CASE AddFails
  <2>1. CallsTyped' /\ WireTyped' /\ Placed' /\ Alone' /\ Ids' /\ OwnAnswer'
    BY <1>1, ReturnStep DEF AddFails, Inv, WireTyped
  <2> QED
    BY <1>1, <2>1 DEF AddFails, Inv, MainTyped, SchemasLater, SchemaOfOwner, registry
<1>2. CASE Initialized
  <2>1. s \in Servers
    BY <1>2 DEF Initialized, Inv, Placed
  <2>2. CallsTyped' /\ WireTyped' /\ Placed' /\ Alone' /\ Ids' /\ OwnAnswer'
    BY <1>2, <2>1, AsksStep DEF Initialized, Inv, WireTyped, wire
  <2> QED
    BY <1>2, <2>2 DEF Initialized, Inv, MainTyped, SchemasLater, SchemaOfOwner, registry
<1>3. CASE Discovered
  <2>1. s \in Servers
    BY <1>3 DEF Discovered, Inv, Placed
  <2>2. CallsTyped' /\ WireTyped' /\ Placed' /\ Alone' /\ Ids' /\ OwnAnswer'
    BY <1>3, ReturnStep DEF Discovered, Inv, WireTyped, wire
  <2>3. MainTyped'
    BY <1>3, <2>1 DEF Discovered, Inv, MainTyped
  <2>4. SchemasLater' /\ SchemaOfOwner'
    BY <1>3 DEF Discovered, Inv, SchemasLater, SchemaOfOwner
  <2> QED
    BY <2>2, <2>3, <2>4 DEF Inv
<1>4. CASE AllAdded
  BY <1>4 DEF AllAdded, Inv, CallsTyped, WireTyped, MainTyped, Phases, Placed, Alone, Ids,
              OfRequests, OwnAnswer, SchemasLater, SchemaOfOwner, wire, registry
<1>5. ASSUME NEW r \in Servers, AddServer(r) PROVE Inv'
  <2>1. CallsTyped' /\ WireTyped' /\ Placed' /\ Alone' /\ Ids' /\ OwnAnswer'
    BY <1>5, AsksStep DEF AddServer, Inv, WireTyped
  <2> QED
    BY <1>5, <2>1 DEF AddServer, Inv, MainTyped, SchemasLater, SchemaOfOwner, registry
<1> QED
  BY <1>1, <1>2, <1>3, <1>4, <1>5

LEMMA HydratingStep ==
  ASSUME Inv, StoreSchemas \/ \E s \in Servers : AskSchemas(s)
  PROVE  Inv'
<1> USE MainCaller
<1> DEFINE s == call[Main].server
<1>1. CASE StoreSchemas
  <2>1. s \in Servers
    BY <1>1 DEF StoreSchemas, Inv, Placed
  <2>2. CallsTyped' /\ WireTyped' /\ Placed' /\ Alone' /\ Ids' /\ OwnAnswer'
    BY <1>1, ReturnStep DEF StoreSchemas, Inv, WireTyped, wire
  <2>3. MainTyped'
    BY <1>1, <2>1 DEF StoreSchemas, Inv, MainTyped
  <2>4. SchemasLater'
    BY <1>1 DEF StoreSchemas, SchemasLater
  <2>5. SchemaOfOwner'
    BY <1>1, <2>1 DEF StoreSchemas, Inv, MainTyped, SchemaOfOwner
  <2> QED
    BY <2>2, <2>3, <2>4, <2>5 DEF Inv
<1>2. ASSUME NEW r \in Servers, AskSchemas(r) PROVE Inv'
  <2>1. CallsTyped' /\ WireTyped' /\ Placed' /\ Alone' /\ Ids' /\ OwnAnswer'
    BY <1>2, AsksStep DEF AskSchemas, Inv, WireTyped, wire
  <2> QED
    BY <1>2, <2>1 DEF AskSchemas, Inv, MainTyped, SchemasLater, SchemaOfOwner, registry
<1> QED
  BY <1>1, <1>2

LEMMA ClosingStep ==
  ASSUME Inv, Serve \/ BeginClose \/ EndClose \/ \E s \in Servers : CloseServer(s)
  PROVE  Inv'
<1>1. /\ UNCHANGED <<call, lock, sent, due, out, chatter, registry>>
      /\ phase' \in Phases \ {"adding"} /\ todo' \subseteq Servers /\ alive' \subseteq Servers
  BY DEF Serve, BeginClose, EndClose, CloseServer, Inv, MainTyped, WireTyped, Phases, wire
<1> QED
  BY <1>1 DEF Inv, CallsTyped, WireTyped, MainTyped, Placed, Alone, Ids, OfRequests, OwnAnswer,
              SchemasLater, SchemaOfOwner, registry

LEMMA RunStep == ASSUME Inv, NEW c \in Clients, Run(c) PROVE Inv'
<1> USE MainCaller
<1>1. CASE ToolReturns(c)
  <2>1. CallsTyped' /\ WireTyped' /\ Placed' /\ Alone' /\ Ids' /\ OwnAnswer'
    BY <1>1, ReturnStep DEF ToolReturns, Inv, WireTyped, wire
  <2> QED
    BY <1>1, <2>1 DEF ToolReturns, Inv, MainTyped, SchemasLater, SchemaOfOwner, registry
<1>2. ASSUME NEW t \in Uses[c], CallTool(c, t) PROVE Inv'
  <2>1. CASE tools[t] \in servers
    <3>1. tools[t] \in Servers
      BY <2>1 DEF Inv, MainTyped
    <3>2. CallsTyped' /\ WireTyped' /\ Placed' /\ Alone' /\ Ids' /\ OwnAnswer'
      BY <1>2, <2>1, <3>1, AsksStep DEF CallTool, Inv, WireTyped, wire
    <3> QED
      BY <1>2, <3>2 DEF CallTool, Inv, MainTyped, SchemasLater, SchemaOfOwner, registry
  <2>2. CASE tools[t] \notin servers
    <3> DEFINE k == [call[c] EXCEPT !.at = "done", !.reply = "error"]
    <3>1. c # Main
      BY McpAssumption
    <3>2. call' = [call EXCEPT ![c] = k]
      BY <1>2, <2>2 DEF CallTool, Inv, CallsTyped
    <3>3. k \in Calls /\ k.at = "done" /\ k.reply = "error"
      BY DEF Inv, CallsTyped, Calls, Replies
    <3> HIDE DEF k
    <3>4. CallsTyped' /\ WireTyped' /\ Placed' /\ Alone' /\ Ids' /\ OwnAnswer'
      BY <1>2, <3>1, <3>2, <3>3, TurnStep DEF CallTool, Inv, WireTyped, wire
    <3> QED
      BY <1>2, <3>4 DEF CallTool, Inv, MainTyped, SchemasLater, SchemaOfOwner, registry
  <2> QED
    BY <2>1, <2>2
<1> QED
  BY <1>1, <1>2 DEF Run

LEMMA NextStep == Inv /\ [Next]_vars => Inv'
<1> SUFFICES ASSUME Inv, [Next]_vars PROVE Inv'
  OBVIOUS
<1>1. CASE UNCHANGED vars
  BY <1>1, QuietStep
<1>2. CASE MainStep \/ BeginClose
  <2>1. CASE AddFails \/ Initialized \/ Discovered \/ AllAdded \/ \E s \in Servers : AddServer(s)
    BY <2>1, AddingStep DEF AddFails, Initialized, Discovered, AllAdded, AddServer
  <2>2. CASE StoreSchemas \/ \E s \in Servers : AskSchemas(s)
    BY <2>2, HydratingStep
  <2>3. CASE Serve \/ BeginClose \/ EndClose \/ \E s \in Servers : CloseServer(s)
    BY <2>3, ClosingStep
  <2> QED
    BY <1>2, <2>1, <2>2, <2>3 DEF MainStep
<1>3. ASSUME NEW c \in Callers, Exchange(c) PROVE Inv'
  BY <1>3, RequestStep, ReadLineStep, ReadEndStep DEF Exchange
<1>4. ASSUME NEW c \in Clients, Run(c) PROVE Inv'
  BY <1>4, RunStep
<1>5. ASSUME NEW s \in Servers, Server(s) PROVE Inv'
  BY <1>5, ServerStep
<1> QED
  BY <1>1, <1>2, <1>3, <1>4, <1>5 DEF Next

\* Whatever lines the servers write, at most one caller reads from a server, and no line
\* on its way carries an id that was not sent (mcp.go:104-124).
THEOREM LockedExchange == ClientSpec => []Inv
<1>1. Init => Inv
  BY InitInv
<1>2. Inv /\ [Next]_vars => Inv'
  BY NextStep
<1> QED
  BY <1>1, <1>2, PTL DEF ClientSpec

\* The types of the module hold of every run of the client.
THEOREM ClientTypes == ClientSpec => []TypeOK
<1>1. Inv => TypeOK
  <2> SUFFICES ASSUME Inv PROVE TypeOK
    OBVIOUS
  <2>1. ASSUME NEW c \in Callers
        PROVE  /\ call[c].at \in {"idle", "lock", "read", "done"}
               /\ call[c].server \in Servers \cup {NoServer}
    BY DEF Inv, CallsTyped, Calls
  <2>2. ASSUME NEW c \in Callers PROVE call[c].at = "read" <=> \E s \in Servers : lock[s] = c
    BY McpAssumption DEF Inv, Placed, Alone, NoOne
  <2> QED
    BY <2>1, <2>2 DEF TypeOK, Inv, WireTyped, MainTyped, Alone, Phases
<1> QED
  BY <1>1, LockedExchange, PTL

\* What a caller takes for the answer to its request is the answer to it
\* (mcp.go:126-148): a line left over from an earlier request has a smaller id.
\* Servers that send requests, with ids of their own, are not modelled.
THEOREM AnswersOwn == ClientSpec => []OwnAnswer
<1>1. Inv => OwnAnswer
  BY DEF Inv
<1> QED
  BY <1>1, LockedExchange, PTL

\* However many servers list the same tool, and in whatever order they were
\* added, its schema is its owner's (mcp.go:459-466).
THEOREM SchemasOfOwners == ClientSpec => []SchemaOfOwner
<1>1. Inv => SchemaOfOwner
  BY DEF Inv
<1> QED
  BY <1>1, LockedExchange, PTL

=============================================================================
