--------------------------- MODULE TelegramChats ---------------------------
(***************************************************************************)
(* The Telegram channel (channels/telegram/telegram.go).  One dispatcher    *)
(* goroutine takes messages from the bot and finds the state of their chat  *)
(* in a map; a chat that is busy gets the message queued, an idle one gets  *)
(* a handler goroutine.  A handler runs its message and then the queue;     *)
(* when the queue is empty it retires the state and deletes it from the     *)
(* map, while the dispatcher may already hold a pointer to it.              *)
(*                                                                         *)
(* cs.mu is held across two steps only by a handler that retires (between   *)
(* marking the state and deleting it); every other critical section is one  *)
(* step.  Messages of a chat are numbered as they come.  A message of a     *)
(* user who is not allowed changes nothing and is left out.                 *)
(***************************************************************************)
EXTENDS Naturals, Sequences

CONSTANTS
  Chats,
  States,      \* addresses of chatState objects, reused once garbage
  None,        \* no entry in the map, no pointer, no chat
  MaxMessages  \* bound: messages received from each chat

ASSUME ChannelAssumption == None \notin States \cup Chats /\ MaxMessages \in Nat

VARIABLES
  chats,       \* the sync.Map: chat -> its state or None
  state,       \* the chatState objects
  dispatcher,  \* the loop of startTelegram: where it is, the message, its cs
  handler,     \* the goroutine handleMessage of each state
  sent,        \* chat -> messages received
  answered     \* chat -> the message whose run ended last

vars == <<chats, state, dispatcher, handler, sent, answered>>

Fresh == [running |-> FALSE, retired |-> FALSE, queue |-> <<>>]

NoHandler == [at |-> "none", chat |-> None, msg |-> 0]

Receiving == [at |-> "receive", chat |-> None, msg |-> 0, cs |-> None]

Init ==
  /\ chats = [c \in Chats |-> None]
  /\ state = [s \in States |-> Fresh]
  /\ dispatcher = Receiving
  /\ handler = [s \in States |-> NoHandler]
  /\ sent = [c \in Chats |-> 0]
  /\ answered = [c \in Chats |-> 0]

----------------------------------------------------------------------------

\* An object nobody points to: it may be allocated again.
Garbage(s) ==
  /\ handler[s].at = "none"
  /\ \A c \in Chats : chats[c] # s
  /\ dispatcher.cs # s

\* The next update of the bot: a message of chat c.
Receive(c) ==
  /\ dispatcher.at = "receive"
  /\ sent[c] < MaxMessages
  /\ sent' = [sent EXCEPT ![c] = @ + 1]
  /\ dispatcher' = [at |-> "load", chat |-> c, msg |-> sent[c] + 1, cs |-> None]
  /\ UNCHANGED <<chats, state, handler, answered>>

\* chats.LoadOrStore(chatID, &chatState{})
LoadOrStore ==
  /\ dispatcher.at = "load"
  /\ LET c == dispatcher.chat IN
       \/ /\ chats[c] # None
          /\ dispatcher' = [dispatcher EXCEPT !.at = "lock", !.cs = chats[c]]
          /\ UNCHANGED <<chats, state>>
       \/ /\ chats[c] = None
          /\ \E s \in States :
               /\ Garbage(s)
               /\ state' = [state EXCEPT ![s] = Fresh]
               /\ chats' = [chats EXCEPT ![c] = s]
               /\ dispatcher' = [dispatcher EXCEPT !.at = "lock", !.cs = s]
  /\ UNCHANGED <<handler, sent, answered>>

\* The dispatcher has cs.mu: a handler that retires has let go of it.
Locked ==
  /\ dispatcher.at = "lock"
  /\ handler[dispatcher.cs].at # "delete"

\* The state was retired between LoadOrStore and Lock: load again.
Retry ==
  /\ Locked
  /\ state[dispatcher.cs].retired
  /\ dispatcher' = [dispatcher EXCEPT !.at = "load", !.cs = None]
  /\ UNCHANGED <<chats, state, handler, sent, answered>>

\* The chat is busy: queue the message.
Enqueue ==
  /\ Locked
  /\ ~state[dispatcher.cs].retired
  /\ state[dispatcher.cs].running
  /\ state' = [state EXCEPT ![dispatcher.cs].queue = Append(@, dispatcher.msg)]
  /\ dispatcher' = Receiving
  /\ UNCHANGED <<chats, handler, sent, answered>>

\* The chat is idle: go handleMessage(...), which begins with runOne.
Start ==
  /\ Locked
  /\ ~state[dispatcher.cs].retired
  /\ ~state[dispatcher.cs].running
  /\ state' = [state EXCEPT ![dispatcher.cs].running = TRUE]
  /\ handler' = [handler EXCEPT ![dispatcher.cs] =
                   [at |-> "run", chat |-> dispatcher.chat, msg |-> dispatcher.msg]]
  /\ dispatcher' = Receiving
  /\ UNCHANGED <<chats, sent, answered>>

----------------------------------------------------------------------------

\* runOne returns: agent.Run has an answer or an error, and either is sent to
\* the chat; what the bot answers is only logged.
RunEnds(s) ==
  /\ handler[s].at = "run"
  /\ answered' = [answered EXCEPT ![handler[s].chat] = handler[s].msg]
  /\ handler' = [handler EXCEPT ![s].at = "drain"]
  /\ UNCHANGED <<chats, state, dispatcher, sent>>

\* The deferred loop takes the next message of the queue and runs it.
TakeNext(s) ==
  /\ handler[s].at = "drain"
  /\ state[s].queue # <<>>
  /\ handler' = [handler EXCEPT ![s] =
                   [at |-> "run", chat |-> @.chat, msg |-> Head(state[s].queue)]]
  /\ state' = [state EXCEPT ![s].queue = Tail(@)]
  /\ UNCHANGED <<chats, dispatcher, sent, answered>>

\* Mutant of Retire: the state goes idle but is not marked.
RetireUnmarked(s) ==
  /\ handler[s].at = "drain"
  /\ state[s].queue = <<>>
  /\ state' = [state EXCEPT ![s].running = FALSE]
  /\ handler' = [handler EXCEPT ![s].at = "delete"]
  /\ UNCHANGED <<chats, dispatcher, sent, answered>>

\* Mutant of Retire: the queue was looked at before cs.mu was taken.
RetireUnchecked(s) ==
  /\ handler[s].at = "drain"
  /\ state' = [state EXCEPT ![s].running = FALSE, ![s].retired = TRUE]
  /\ handler' = [handler EXCEPT ![s].at = "delete"]
  /\ UNCHANGED <<chats, dispatcher, sent, answered>>

\* The queue is empty: mark the state, with cs.mu held.
Retire(s) ==
  /\ handler[s].at = "drain"
  /\ state[s].queue = <<>>
  /\ state' = [state EXCEPT ![s].running = FALSE, ![s].retired = TRUE]
  /\ handler' = [handler EXCEPT ![s].at = "delete"]
  /\ UNCHANGED <<chats, dispatcher, sent, answered>>

\* Mutant of Delete: the entry of the map stays.
DeleteForgotten(s) ==
  /\ handler[s].at = "delete"
  /\ handler' = [handler EXCEPT ![s] = NoHandler]
  /\ UNCHANGED <<chats, state, dispatcher, sent, answered>>

\* chats.Delete(chatID), Unlock, return.
Delete(s) ==
  /\ handler[s].at = "delete"
  /\ chats' = [chats EXCEPT ![handler[s].chat] = None]
  /\ handler' = [handler EXCEPT ![s] = NoHandler]
  /\ UNCHANGED <<state, dispatcher, sent, answered>>

----------------------------------------------------------------------------

Dispatch == LoadOrStore \/ Retry \/ Enqueue \/ Start

Handle(s) == RunEnds(s) \/ TakeNext(s) \/ Retire(s) \/ Delete(s)

Next ==
  \/ \E c \in Chats : Receive(c)
  \/ Dispatch
  \/ \E s \in States : Handle(s)

\* The dispatcher and every handler are goroutines the scheduler lets run, a
\* blocked Lock is granted, and agent.Run returns (see RunEnds of AgentLoop).
\* Nobody has to send a message.
Fairness == WF_vars(Dispatch) /\ \A s \in States : WF_vars(Handle(s))

Spec == Init /\ [][Next]_vars /\ Fairness

----------------------------------------------------------------------------

ChatState == [running : BOOLEAN, retired : BOOLEAN, queue : Seq(Nat)]

TypeOK ==
  /\ chats \in [Chats -> States \cup {None}]
  /\ state \in [States -> ChatState]
  /\ dispatcher \in [at : {"receive", "load", "lock"}, chat : Chats \cup {None},
                     msg : Nat, cs : States \cup {None}]
  /\ dispatcher.chat = None <=> dispatcher.at = "receive"
  /\ dispatcher.cs = None <=> dispatcher.at # "lock"
  /\ handler \in [States -> [at : {"none", "run", "drain", "delete"},
                             chat : Chats \cup {None}, msg : Nat]]
  /\ \A s \in States : handler[s].chat = None <=> handler[s].at = "none"
  /\ sent \in [Chats -> Nat]
  /\ answered \in [Chats -> Nat]

\* A message is never left on a state that no handler will drain, nor on one
\* that later messages of the chat no longer find ("no message can be enqueued
\* onto a dead state", telegram.go:159).
QueueReachable ==
  \A s \in States :
    state[s].queue # <<>> =>
      /\ handler[s].at \in {"run", "drain"}
      /\ chats[handler[s].chat] = s

\* The map holds only chats with a handler at work or a message about to get
\* one, so that "memory does not grow with every unique chat seen"
\* (telegram.go:137).
NoIdleEntry ==
  \A c \in Chats :
    chats[c] # None =>
      \/ handler[chats[c]].at # "none"
      \/ dispatcher.at = "lock" /\ dispatcher.cs = chats[c]

\* Each chat is a queue of its own: in order, exactly once, one run at a time.
RunOf(c) ==
  IF chats[c] # None /\ handler[chats[c]].at = "run" THEN handler[chats[c]].msg ELSE 0

Queue == INSTANCE ChatQueue WITH running <- [c \in Chats |-> RunOf(c)]

QueueSpec == Queue!Spec

\* Every message received is answered: none is forgotten in a queue, and the
\* dispatcher does not load retired states forever.
EveryMessageAnswered ==
  \A c \in Chats : \A m \in 1..MaxMessages : sent[c] >= m ~> answered[c] >= m

=============================================================================
