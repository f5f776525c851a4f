------------------------ MODULE TelegramChatsProofs ------------------------
(***************************************************************************)
(* TelegramChats implements ChatQueue, for any number of chats, chatState   *)
(* objects and messages.                                                   *)
(*                                                                         *)
(* The mark `retired' carries the argument.  A state that is not retired    *)
(* and that the dispatcher holds is still the one the map names (Held), and *)
(* a handler at work is always the handler of the state the map names       *)
(* (Alive), so a chat has one queue and one handler.  Its messages are then *)
(* accounted for (Accounts): those answered, the one running, those queued  *)
(* and the one in the hands of the dispatcher are 1, 2, ..., sent[c].       *)
(***************************************************************************)
EXTENDS TelegramChats, TLAPS

\* A handler belongs to the state its chat has in the map; it is running until
\* it retires its state.
AliveOf(s) ==
  /\ handler[s].at # "none" => chats[handler[s].chat] = s
  /\ state[s].running <=> handler[s].at \in {"run", "drain"}
  /\ handler[s].at = "delete" => state[s].retired
  /\ state[s].queue # <<>> => handler[s].at \in {"run", "drain"}

Alive == \A s \in States : AliveOf(s)

\* Every entry of the map is the state of a handler of that chat, or fresh in the
\* hands of the dispatcher.
Entries ==
  \A c \in Chats :
    chats[c] # None =>
      \/ handler[chats[c]].at # "none" /\ handler[chats[c]].chat = c
      \/ /\ handler[chats[c]].at = "none"
         /\ dispatcher.at = "lock"
         /\ dispatcher.cs = chats[c]
         /\ dispatcher.chat = c
         /\ ~state[chats[c]].retired

\* A state the dispatcher holds is retired, or still the one in the map.
Held ==
  dispatcher.at = "lock" =>
    \/ state[dispatcher.cs].retired
    \/ chats[dispatcher.chat] = dispatcher.cs

\* The queue of chat c, and the last message of c that was started.
QueueOf(c) == IF chats[c] = None THEN <<>> ELSE state[chats[c]].queue
Started(c) == IF RunOf(c) # 0 THEN RunOf(c) ELSE answered[c]
Dispatching(c) == dispatcher.at # "receive" /\ dispatcher.chat = c

\* Where the messages of chat c are.
AccountsOf(c) ==
  /\ RunOf(c) # 0 => RunOf(c) = answered[c] + 1
  /\ \A i \in 1..Len(QueueOf(c)) : QueueOf(c)[i] = Started(c) + i
  /\ IF Dispatching(c)
       THEN /\ sent[c] = Started(c) + Len(QueueOf(c)) + 1
            /\ dispatcher.msg = sent[c]
       ELSE sent[c] = Started(c) + Len(QueueOf(c))

Accounts ==
  /\ \A c \in Chats : AccountsOf(c)
  /\ \A s \in States : handler[s].at = "run" => handler[s].msg # 0

Inv == TypeOK /\ Alive /\ Entries /\ Held /\ Accounts

----------------------------------------------------------------------------

\* Two chats do not share a state.
LEMMA OwnState ==
  ASSUME TypeOK, Entries, NEW c \in Chats, NEW d \in Chats,
         chats[c] = chats[d], chats[c] # None
  PROVE  c = d
  BY DEF TypeOK, Entries, NoHandler

\* What the steps do to a chatState object keeps it one.
LEMMA FreshType == Fresh \in ChatState
  BY DEF Fresh, ChatState

LEMMA StartType ==
  ASSUME NEW o \in ChatState PROVE [o EXCEPT !.running = TRUE] \in ChatState
  BY DEF ChatState

LEMMA RetireType ==
  ASSUME NEW o \in ChatState
  PROVE  [o EXCEPT !.running = FALSE, !.retired = TRUE] \in ChatState
  BY DEF ChatState

LEMMA EnqueueType ==
  ASSUME NEW o \in ChatState, NEW m \in Nat
  PROVE  [o EXCEPT !.queue = Append(o.queue, m)] \in ChatState
  BY SMTT(20) DEF ChatState

LEMMA TakeType ==
  ASSUME NEW o \in ChatState, o.queue # <<>>
  PROVE  Head(o.queue) \in Nat /\ [o EXCEPT !.queue = Tail(o.queue)] \in ChatState
<1>1. Head(o.queue) \in Nat /\ Tail(o.queue) \in Seq(Nat)
  BY DEF ChatState
<1> QED
  BY <1>1 DEF ChatState

LEMMA InitInv == Init => Inv
<1> SUFFICES ASSUME Init PROVE Inv
  OBVIOUS
<1> USE DEF Init
<1>1. TypeOK
  BY ChannelAssumption, FreshType DEF TypeOK, NoHandler, Receiving
<1>2. Entries /\ Held
  BY DEF Entries, Held, Receiving
<1>3. ASSUME NEW s \in States PROVE state[s] = Fresh /\ handler[s] = NoHandler
  OBVIOUS
<1>4. Alive
  BY <1>3, Zenon DEF Alive, AliveOf, Fresh, NoHandler
<1>5. ASSUME NEW c \in Chats
      PROVE  /\ Len(QueueOf(c)) = 0 /\ RunOf(c) = 0 /\ Started(c) = 0
             /\ ~Dispatching(c) /\ sent[c] = 0
  BY DEF QueueOf, Started, RunOf, Dispatching, Receiving
<1>6. Accounts
  BY <1>3, <1>5 DEF Accounts, AccountsOf, NoHandler
<1> QED
  BY <1>1, <1>2, <1>4, <1>6 DEF Inv

LEMMA TypeNext == TypeOK /\ [Next]_vars => TypeOK'
<1> SUFFICES ASSUME TypeOK, [Next]_vars PROVE TypeOK'
  OBVIOUS
<1> USE ChannelAssumption DEF TypeOK
<1>1. ASSUME NEW c \in Chats, Receive(c) PROVE TypeOK'
  BY <1>1 DEF Receive
<1>2. CASE LoadOrStore
  <2>1. CASE chats[dispatcher.chat] # None
    <3>1. /\ dispatcher.chat \in Chats /\ chats[dispatcher.chat] \in States
          /\ dispatcher' = [dispatcher EXCEPT !.at = "lock", !.cs = chats[dispatcher.chat]]
          /\ UNCHANGED <<chats, state, handler, sent, answered>>
      BY <1>2, <2>1 DEF LoadOrStore
    <3> QED
      BY <3>1
  <2>2. CASE chats[dispatcher.chat] = None
    <3>1. PICK s \in States :
            /\ state' = [state EXCEPT ![s] = Fresh]
            /\ chats' = [chats EXCEPT ![dispatcher.chat] = s]
            /\ dispatcher' = [dispatcher EXCEPT !.at = "lock", !.cs = s]
      BY <1>2, <2>2 DEF LoadOrStore
    <3>2. dispatcher.at = "load" /\ UNCHANGED <<handler, sent, answered>>
      BY <1>2 DEF LoadOrStore
    <3> QED
      BY <3>1, <3>2, FreshType
  <2> QED
    BY <2>1, <2>2
<1>3. CASE Retry
  BY <1>3 DEF Retry, Locked, Receiving
<1>4. CASE Enqueue
  <2> DEFINE cs == dispatcher.cs
  <2>1. cs \in States
    BY <1>4 DEF Enqueue, Locked
  <2>2. state' = [state EXCEPT ![cs] = [state[cs] EXCEPT
                !.queue = Append(state[cs].queue, dispatcher.msg)]]
    BY <1>4, <2>1 DEF Enqueue
  <2>3. state' \in [States -> ChatState]
    BY <2>1, <2>2, EnqueueType
  <2> QED
    BY <1>4, <2>3 DEF Enqueue, Receiving
<1>5. CASE Start
  <2> DEFINE cs == dispatcher.cs
  <2>1. cs \in States
    BY <1>5 DEF Start, Locked
  <2>2. state' = [state EXCEPT ![cs] = [@ EXCEPT !.running = TRUE]]
    BY <1>5, <2>1 DEF Start
  <2>3. state' \in [States -> ChatState]
    BY <2>1, <2>2, StartType
  <2> QED
    BY <1>5, <2>3 DEF Start, Locked, Receiving
<1>6. ASSUME NEW s \in States, RunEnds(s) PROVE TypeOK'
  BY <1>6 DEF RunEnds
<1>7. ASSUME NEW s \in States, TakeNext(s) PROVE TypeOK'
  <2> DEFINE o == state[s]
             m == Head(o.queue)
             h == [at |-> "run", chat |-> handler[s].chat, msg |-> m]
  <2>1. m \in Nat /\ [o EXCEPT !.queue = Tail(o.queue)] \in ChatState
    BY <1>7, TakeType DEF TakeNext
  <2>2. state' = [state EXCEPT ![s] = [o EXCEPT !.queue = Tail(o.queue)]]
    BY <1>7 DEF TakeNext
  <2>3. state' \in [States -> ChatState]
    BY <2>1, <2>2
  <2>4. handler' = [handler EXCEPT ![s] = h]
    BY <1>7 DEF TakeNext
  <2>5. h.chat \in Chats /\ h.chat # None /\ h.at = "run"
    BY <1>7 DEF TakeNext
  <2> HIDE DEF o, m
  <2>6. h \in [at : {"none", "run", "drain", "delete"}, chat : Chats \cup {None}, msg : Nat]
    BY <2>1, <2>5
  <2> HIDE DEF h
  <2>7. UNCHANGED <<chats, dispatcher, sent, answered>>
    BY <1>7 DEF TakeNext
  <2> QED
    BY <2>3, <2>4, <2>5, <2>6, <2>7
<1>8. ASSUME NEW s \in States, Retire(s) PROVE TypeOK'
  <2>1. state' = [state EXCEPT ![s] = [@ EXCEPT !.running = FALSE, !.retired = TRUE]]
    BY <1>8 DEF Retire
  <2>2. state' \in [States -> ChatState]
    BY <2>1, RetireType
  <2> QED
    BY <1>8, <2>2 DEF Retire
<1>9. ASSUME NEW s \in States, Delete(s) PROVE TypeOK'
  BY <1>9 DEF Delete, NoHandler
<1>10. CASE UNCHANGED vars
  BY <1>10 DEF vars
<1> QED
  BY <1>1, <1>2, <1>3, <1>4, <1>5, <1>6, <1>7, <1>8, <1>9, <1>10 DEF Next, Dispatch, Handle

\* A state may be started only while it is the one the map has.
LEMMA AliveNext == Inv /\ [Next]_vars => Alive'
<1> SUFFICES ASSUME Inv, [Next]_vars, NEW t \in States PROVE AliveOf(t)'
  BY DEF Alive
<1> USE ChannelAssumption DEF AliveOf
<1>0. TypeOK /\ Entries /\ Held /\ AliveOf(t) /\ \A s \in States : AliveOf(s)
  BY DEF Inv, Alive
<1>1. ASSUME NEW c \in Chats, Receive(c) PROVE AliveOf(t)'
  BY <1>0, <1>1 DEF Receive
<1>2. CASE LoadOrStore
  <2>1. CASE chats[dispatcher.chat] # None
    BY <1>0, <1>2, <2>1 DEF LoadOrStore
  <2>2. CASE chats[dispatcher.chat] = None
    <3>1. PICK s \in States :
            /\ handler[s].at = "none"
            /\ state' = [state EXCEPT ![s] = Fresh]
            /\ chats' = [chats EXCEPT ![dispatcher.chat] = s]
            /\ handler' = handler
      BY <1>2, <2>2 DEF LoadOrStore, Garbage
    <3>2. handler[t].at # "none" => handler[t].chat # dispatcher.chat
      BY <1>0, <2>2
    <3>3. handler[t].at # "none" => chats'[handler[t].chat] = t
      BY <1>0, <3>1, <3>2 DEF TypeOK
    <3>4. t # s => state'[t] = state[t]
      BY <1>0, <3>1 DEF TypeOK
    <3>5. state'[s].running = FALSE /\ state'[s].queue = <<>>
      BY <1>0, <3>1 DEF TypeOK, Fresh
    <3> QED
      BY <1>0, <3>1, <3>3, <3>4, <3>5
  <2> QED
    BY <2>1, <2>2
<1>3. CASE Retry
  BY <1>0, <1>3 DEF Retry
<1>4. CASE Enqueue
  BY <1>0, <1>4 DEF Enqueue, Locked, TypeOK, ChatState
<1>5. CASE Start
  <2> DEFINE cs == dispatcher.cs
  <2>1. /\ cs \in States /\ chats[dispatcher.chat] = cs /\ handler[cs].at = "none"
        /\ dispatcher.chat \in Chats
    BY <1>0, <1>5 DEF Start, Locked, Held, TypeOK
  <2>2. t # cs => state'[t] = state[t] /\ handler'[t] = handler[t]
    BY <1>0, <1>5 DEF Start, TypeOK
  <2>3. state'[cs].running = TRUE
    BY <1>0, <1>5, <2>1 DEF Start, TypeOK, ChatState
  <2>4. handler'[cs] = [at |-> "run", chat |-> dispatcher.chat, msg |-> dispatcher.msg]
    BY <1>0, <1>5, <2>1 DEF Start, TypeOK
  <2>5. chats' = chats
    BY <1>5 DEF Start
  <2> QED
    BY <1>0, <2>1, <2>2, <2>3, <2>4, <2>5
<1>6. ASSUME NEW s \in States, RunEnds(s) PROVE AliveOf(t)'
  BY <1>0, <1>6 DEF RunEnds, TypeOK
<1>7. ASSUME NEW s \in States, TakeNext(s) PROVE AliveOf(t)'
  BY <1>0, <1>7 DEF TakeNext, TypeOK, ChatState
<1>8. ASSUME NEW s \in States, Retire(s) PROVE AliveOf(t)'
  BY <1>0, <1>8 DEF Retire, TypeOK, ChatState
<1>9. ASSUME NEW s \in States, Delete(s) PROVE AliveOf(t)'
  BY <1>0, <1>9 DEF Delete, TypeOK, NoHandler
<1>10. CASE UNCHANGED vars
  BY <1>0, <1>10 DEF vars
<1> QED
  BY <1>1, <1>2, <1>3, <1>4, <1>5, <1>6, <1>7, <1>8, <1>9, <1>10 DEF Next, Dispatch, Handle

LEMMA EntriesNext == Inv /\ [Next]_vars => Entries'
<1> SUFFICES ASSUME Inv, [Next]_vars PROVE Entries'
  OBVIOUS
<1> USE ChannelAssumption DEF Entries
<1>0. TypeOK /\ Entries /\ Held /\ \A s \in States : AliveOf(s)
  BY DEF Inv, Alive
<1>1. ASSUME NEW c \in Chats, Receive(c) PROVE Entries'
  BY <1>0, <1>1 DEF Receive
<1>2. CASE LoadOrStore
  <2>1. CASE chats[dispatcher.chat] # None
    BY <1>0, <1>2, <2>1 DEF LoadOrStore, TypeOK
  <2>2. CASE chats[dispatcher.chat] = None
    <3>1. PICK s \in States :
            /\ handler[s].at = "none"
            /\ state' = [state EXCEPT ![s] = Fresh]
            /\ chats' = [chats EXCEPT ![dispatcher.chat] = s]
            /\ dispatcher' = [dispatcher EXCEPT !.at = "lock", !.cs = s]
            /\ handler' = handler
      BY <1>2, <2>2 DEF LoadOrStore, Garbage
    <3>2. dispatcher.at = "load"
      BY <1>2 DEF LoadOrStore
    <3>3. dispatcher'.at = "lock" /\ dispatcher'.cs = s /\ dispatcher'.chat = dispatcher.chat
      BY <1>0, <3>1 DEF TypeOK
    <3>4. ~state'[s].retired
      BY <1>0, <3>1 DEF TypeOK, Fresh
    <3> QED
      BY <1>0, <3>1, <3>2, <3>3, <3>4 DEF TypeOK
  <2> QED
    BY <2>1, <2>2
<1>3. CASE Retry
  BY <1>0, <1>3 DEF Retry, Locked, TypeOK
<1>4. CASE Enqueue
  BY <1>0, <1>4 DEF Enqueue, Locked, TypeOK, AliveOf
<1>5. CASE Start
  <2> DEFINE cs == dispatcher.cs
  <2>1. /\ cs \in States /\ chats[dispatcher.chat] = cs /\ dispatcher.chat \in Chats
    BY <1>0, <1>5 DEF Start, Locked, Held, TypeOK
  <2>2. handler' = [handler EXCEPT ![cs] =
                      [at |-> "run", chat |-> dispatcher.chat, msg |-> dispatcher.msg]]
    BY <1>5 DEF Start
  <2>3. chats' = chats
    BY <1>5 DEF Start
  <2>4. \A c \in Chats : chats[c] = cs => c = dispatcher.chat
    BY <1>0, <2>1, OwnState
  <2> QED
    BY <1>0, <2>1, <2>2, <2>3, <2>4 DEF TypeOK
<1>6. ASSUME NEW s \in States, RunEnds(s) PROVE Entries'
  BY <1>0, <1>6 DEF RunEnds, TypeOK
<1>7. ASSUME NEW s \in States, TakeNext(s) PROVE Entries'
  BY <1>0, <1>7 DEF TakeNext, TypeOK
<1>8. ASSUME NEW s \in States, Retire(s) PROVE Entries'
  BY <1>0, <1>8 DEF Retire, TypeOK
<1>9. ASSUME NEW s \in States, Delete(s) PROVE Entries'
  BY <1>0, <1>9 DEF Delete, TypeOK, AliveOf
<1>10. CASE UNCHANGED vars
  BY <1>0, <1>10 DEF vars
<1> QED
  BY <1>1, <1>2, <1>3, <1>4, <1>5, <1>6, <1>7, <1>8, <1>9, <1>10 DEF Next, Dispatch, Handle

LEMMA HeldNext == Inv /\ [Next]_vars => Held'
<1> SUFFICES ASSUME Inv, [Next]_vars PROVE Held'
  OBVIOUS
<1> USE ChannelAssumption DEF Held
<1>0. TypeOK /\ Held /\ \A s \in States : AliveOf(s)
  BY DEF Inv, Alive
<1>1. ASSUME NEW c \in Chats, Receive(c) PROVE Held'
  BY <1>1 DEF Receive
<1>2. CASE LoadOrStore
  <2>1. CASE chats[dispatcher.chat] # None
    BY <1>0, <1>2, <2>1 DEF LoadOrStore, TypeOK
  <2>2. CASE chats[dispatcher.chat] = None
    <3>1. PICK s \in States :
            /\ chats' = [chats EXCEPT ![dispatcher.chat] = s]
            /\ dispatcher' = [dispatcher EXCEPT !.at = "lock", !.cs = s]
      BY <1>2, <2>2 DEF LoadOrStore
    <3>2. dispatcher.chat \in Chats
      BY <1>0, <1>2 DEF LoadOrStore, TypeOK
    <3> QED
      BY <1>0, <3>1, <3>2 DEF TypeOK
  <2> QED
    BY <2>1, <2>2
<1>3. CASE Retry
  BY <1>0, <1>3 DEF Retry, TypeOK
<1>4. CASE Enqueue
  BY <1>4 DEF Enqueue, Receiving
<1>5. CASE Start
  BY <1>5 DEF Start, Receiving
<1>6. ASSUME NEW s \in States, RunEnds(s) PROVE Held'
  BY <1>0, <1>6 DEF RunEnds
<1>7. ASSUME NEW s \in States, TakeNext(s) PROVE Held'
  BY <1>0, <1>7 DEF TakeNext, TypeOK, ChatState
<1>8. ASSUME NEW s \in States, Retire(s) PROVE Held'
  BY <1>0, <1>8 DEF Retire, TypeOK, ChatState
<1>9. ASSUME NEW s \in States, Delete(s) PROVE Held'
  BY <1>0, <1>9 DEF Delete, TypeOK, AliveOf
<1>10. CASE UNCHANGED vars
  BY <1>0, <1>10 DEF vars
<1> QED
  BY <1>1, <1>2, <1>3, <1>4, <1>5, <1>6, <1>7, <1>8, <1>9, <1>10 DEF Next, Dispatch, Handle

----------------------------------------------------------------------------

\* What a step does to the message running for each chat and to its queue.
\* These steps change neither.
Quiet == \A c \in Chats : RunOf(c)' = RunOf(c) /\ QueueOf(c)' = QueueOf(c)

LEMMA QuietDispatch ==
  ASSUME Inv, (\E c \in Chats : Receive(c)) \/ LoadOrStore \/ Retry
  PROVE  Quiet
<1> USE ChannelAssumption DEF Quiet, RunOf, QueueOf
<1>0. TypeOK /\ \A s \in States : AliveOf(s)
  BY DEF Inv, Alive
<1>1. CASE \E c \in Chats : Receive(c)
  BY <1>1 DEF Receive
<1>2. CASE LoadOrStore
  <2>1. CASE chats[dispatcher.chat] # None
    BY <1>2, <2>1 DEF LoadOrStore
  <2>2. CASE chats[dispatcher.chat] = None
    <3>1. PICK s \in States :
            /\ handler[s].at = "none"
            /\ \A c \in Chats : chats[c] # s
            /\ state' = [state EXCEPT ![s] = Fresh]
            /\ chats' = [chats EXCEPT ![dispatcher.chat] = s]
            /\ handler' = handler
      BY <1>2, <2>2 DEF LoadOrStore, Garbage
    <3>2. state'[s].queue = <<>>
      BY <1>0, <3>1 DEF TypeOK, Fresh
    <3> QED
      BY <1>0, <2>2, <3>1, <3>2 DEF TypeOK
  <2> QED
    BY <2>1, <2>2
<1>3. CASE Retry
  BY <1>3 DEF Retry
<1> QED
  BY <1>1, <1>2, <1>3

LEMMA QuietHandler ==
  ASSUME Inv, NEW s \in States, Retire(s) \/ Delete(s)
  PROVE  Quiet
<1> USE ChannelAssumption DEF Quiet, RunOf, QueueOf
<1>0. TypeOK /\ \A t \in States : AliveOf(t)
  BY DEF Inv, Alive
<1>1. CASE Retire(s)
  <2>1. state'[s].queue = state[s].queue /\ \A t \in States : t # s => state'[t] = state[t]
    BY <1>0, <1>1 DEF Retire, TypeOK, ChatState
  <2> QED
    BY <1>0, <1>1, <2>1 DEF Retire, TypeOK
<1>2. CASE Delete(s)
  <2>1. state[s].queue = <<>> /\ chats[handler[s].chat] = s /\ handler[s].at = "delete"
    BY <1>0, <1>2 DEF Delete, AliveOf
  <2>2. handler[s].chat \in Chats
    BY <1>0, <2>1 DEF TypeOK
  <2>3. \A t \in States : t # s => handler'[t] = handler[t]
    BY <1>0, <1>2 DEF Delete, TypeOK
  <2>4. \A c \in Chats : c # handler[s].chat => chats'[c] = chats[c] /\ chats[c] # s
    BY <1>0, <1>2, <2>1, <2>2, OwnState DEF Delete, TypeOK, Inv
  <2> QED
    BY <1>0, <1>2, <2>1, <2>2, <2>3, <2>4 DEF Delete, TypeOK
<1> QED
  BY <1>1, <1>2

LEMMA EnqueueEffect ==
  ASSUME Inv, Enqueue
  PROVE  /\ dispatcher.chat \in Chats
         /\ \A c \in Chats :
              /\ RunOf(c)' = RunOf(c)
              /\ QueueOf(c)' = IF c = dispatcher.chat
                                 THEN Append(QueueOf(c), dispatcher.msg) ELSE QueueOf(c)
<1> USE ChannelAssumption DEF RunOf, QueueOf
<1> DEFINE cs == dispatcher.cs
<1>0. TypeOK /\ Entries /\ \A t \in States : AliveOf(t)
  BY DEF Inv, Alive
<1>1. cs \in States /\ dispatcher.chat \in Chats /\ chats[dispatcher.chat] = cs
  BY <1>0 DEF Enqueue, Locked, Inv, Held, TypeOK
<1>2. \A c \in Chats : c # dispatcher.chat => chats[c] # cs
  BY <1>0, <1>1, OwnState
<1>3. /\ state'[cs].queue = Append(state[cs].queue, dispatcher.msg)
      /\ \A t \in States : t # cs => state'[t] = state[t]
  BY <1>0, <1>1 DEF Enqueue, TypeOK, ChatState
<1> QED
  BY <1>0, <1>1, <1>2, <1>3 DEF Enqueue, TypeOK

LEMMA StartEffect ==
  ASSUME Inv, Start
  PROVE  /\ dispatcher.chat \in Chats
         /\ RunOf(dispatcher.chat) = 0 /\ QueueOf(dispatcher.chat) = <<>>
         /\ \A c \in Chats :
              /\ RunOf(c)' = IF c = dispatcher.chat THEN dispatcher.msg ELSE RunOf(c)
              /\ QueueOf(c)' = QueueOf(c)
<1> USE ChannelAssumption DEF RunOf, QueueOf
<1> DEFINE cs == dispatcher.cs
<1>0. TypeOK /\ Entries /\ \A t \in States : AliveOf(t)
  BY DEF Inv, Alive
<1>1. cs \in States /\ dispatcher.chat \in Chats /\ chats[dispatcher.chat] = cs
  BY <1>0 DEF Start, Locked, Inv, Held, TypeOK
<1>2. \A c \in Chats : c # dispatcher.chat => chats[c] # cs
  BY <1>0, <1>1, OwnState
<1>3. handler[cs].at = "none" /\ state[cs].queue = <<>>
  BY <1>0, <1>1 DEF Start, Locked, AliveOf, TypeOK
<1>4. /\ state'[cs].queue = state[cs].queue
      /\ \A t \in States : t # cs => state'[t] = state[t]
  BY <1>0, <1>1 DEF Start, TypeOK, ChatState
<1>5. /\ handler'[cs] = [at |-> "run", chat |-> dispatcher.chat, msg |-> dispatcher.msg]
      /\ \A t \in States : t # cs => handler'[t] = handler[t]
  BY <1>0, <1>1 DEF Start, TypeOK
<1>6. chats' = chats
  BY DEF Start
<1> QED
  BY <1>0, <1>1, <1>2, <1>3, <1>4, <1>5, <1>6 DEF TypeOK

LEMMA RunEndsEffect ==
  ASSUME Inv, NEW s \in States, RunEnds(s)
  PROVE  /\ handler[s].chat \in Chats
         /\ RunOf(handler[s].chat) = handler[s].msg
         /\ handler[s].msg # 0
         /\ \A c \in Chats :
              /\ RunOf(c)' = IF c = handler[s].chat THEN 0 ELSE RunOf(c)
              /\ QueueOf(c)' = QueueOf(c)
<1> USE ChannelAssumption DEF RunOf, QueueOf
<1>0. TypeOK /\ Entries /\ Accounts /\ \A t \in States : AliveOf(t)
  BY DEF Inv, Alive
<1>1. handler[s].chat \in Chats /\ chats[handler[s].chat] = s
  BY <1>0 DEF RunEnds, AliveOf, TypeOK
<1>2. \A c \in Chats : c # handler[s].chat => chats[c] # s
  BY <1>0, <1>1, OwnState
<1>3. handler[s].msg # 0
  BY <1>0 DEF Accounts, RunEnds
<1>4. /\ handler'[s].at = "drain"
      /\ \A t \in States : t # s => handler'[t] = handler[t]
  BY <1>0 DEF RunEnds, TypeOK
<1> QED
  BY <1>0, <1>1, <1>2, <1>3, <1>4 DEF RunEnds, TypeOK

LEMMA TakeNextEffect ==
  ASSUME Inv, NEW s \in States, TakeNext(s)
  PROVE  /\ handler[s].chat \in Chats
         /\ RunOf(handler[s].chat) = 0 /\ QueueOf(handler[s].chat) # <<>>
         /\ \A c \in Chats :
              /\ RunOf(c)' = IF c = handler[s].chat THEN Head(QueueOf(c)) ELSE RunOf(c)
              /\ QueueOf(c)' = IF c = handler[s].chat THEN Tail(QueueOf(c)) ELSE QueueOf(c)
<1> USE ChannelAssumption DEF RunOf, QueueOf
<1>0. TypeOK /\ Entries /\ \A t \in States : AliveOf(t)
  BY DEF Inv, Alive
<1>1. handler[s].chat \in Chats /\ chats[handler[s].chat] = s
  BY <1>0 DEF TakeNext, AliveOf, TypeOK
<1>2. \A c \in Chats : c # handler[s].chat => chats[c] # s
  BY <1>0, <1>1, OwnState
<1>3. /\ handler'[s].at = "run" /\ handler'[s].msg = Head(state[s].queue)
      /\ \A t \in States : t # s => handler'[t] = handler[t]
  BY <1>0 DEF TakeNext, TypeOK
<1>4. /\ state'[s].queue = Tail(state[s].queue)
      /\ \A t \in States : t # s => state'[t] = state[t]
  BY <1>0 DEF TakeNext, TypeOK, ChatState
<1>5. chats' = chats /\ handler[s].at = "drain" /\ state[s].queue # <<>>
  BY DEF TakeNext
<1> QED
  BY <1>0, <1>1, <1>2, <1>3, <1>4, <1>5 DEF TypeOK

\* The numbers of the messages stay in order whatever is running and queued.
LEMMA AccountTypes ==
  ASSUME TypeOK, NEW c \in Chats
  PROVE  /\ RunOf(c) \in Nat /\ QueueOf(c) \in Seq(Nat) /\ Started(c) \in Nat
         /\ answered[c] \in Nat /\ sent[c] \in Nat
  BY ChannelAssumption DEF TypeOK, ChatState, RunOf, QueueOf, Started

LEMMA AccountsNext == Inv /\ [Next]_vars => Accounts'
<1> SUFFICES ASSUME Inv, [Next]_vars PROVE Accounts'
  OBVIOUS
<1>0. TypeOK /\ TypeOK' /\ Accounts
  BY TypeNext DEF Inv
<1>1. ASSUME NEW t \in States, handler'[t].at = "run" PROVE handler'[t].msg # 0
  <2>1. CASE handler'[t] = handler[t]
    BY <1>0, <1>1, <2>1 DEF Accounts
  <2>2. CASE Start
    <3>1. dispatcher.chat \in Chats /\ Dispatching(dispatcher.chat)
      BY <1>0, <2>2, StartEffect DEF Dispatching, Start, Locked
    <3>2. dispatcher.msg # 0
      BY <1>0, <3>1, AccountTypes DEF Accounts, AccountsOf
    <3>3. handler'[t] = handler[t] \/ handler'[t].msg = dispatcher.msg
      BY <1>0, <2>2 DEF Start, TypeOK
    <3> QED
      BY <2>1, <3>2, <3>3
  <2>3. ASSUME NEW s \in States, TakeNext(s) PROVE handler'[t].msg # 0
    <3> DEFINE c == handler[s].chat
    <3>1. c \in Chats /\ QueueOf(c) # <<>>
      BY <2>3, TakeNextEffect
    <3>2. Head(QueueOf(c)) # 0
      <4>1. QueueOf(c) \in Seq(Nat) /\ Started(c) \in Nat
        BY <1>0, <3>1, AccountTypes
      <4>2. 1 \in 1..Len(QueueOf(c)) /\ Head(QueueOf(c)) = QueueOf(c)[1]
        BY <3>1, <4>1
      <4> QED
        BY <1>0, <3>1, <4>1, <4>2 DEF Accounts, AccountsOf
    <3>3. QueueOf(c) = state[s].queue
      <4>1. AliveOf(s) /\ handler[s].at = "drain"
        BY <2>3 DEF Inv, Alive, TakeNext
      <4> QED
        BY <4>1, ChannelAssumption DEF AliveOf, QueueOf
    <3>4. handler'[t] = handler[t] \/ handler'[t].msg = Head(state[s].queue)
      BY <1>0, <2>3 DEF TakeNext, TypeOK
    <3> QED
      BY <2>1, <3>2, <3>3, <3>4
  <2>4. ASSUME NEW s \in States, RunEnds(s) \/ Retire(s) \/ Delete(s)
        PROVE  handler'[t].msg # 0
    <3>1. handler'[t] = handler[t] \/ handler'[t].at # "run"
      BY <1>0, <2>4 DEF RunEnds, Retire, Delete, NoHandler, TypeOK
    <3> QED
      BY <1>1, <2>1, <3>1
  <2>5. (\E c \in Chats : Receive(c)) \/ LoadOrStore \/ Retry \/ Enqueue \/ UNCHANGED vars
          => handler' = handler
    BY DEF Receive, LoadOrStore, Retry, Enqueue, vars
  <2> QED
    BY <2>1, <2>2, <2>3, <2>4, <2>5 DEF Next, Dispatch, Handle
<1>2. ASSUME NEW c \in Chats PROVE AccountsOf(c)'
  <2>0. /\ RunOf(c) \in Nat /\ QueueOf(c) \in Seq(Nat) /\ Started(c) \in Nat
        /\ answered[c] \in Nat /\ sent[c] \in Nat
        /\ AccountsOf(c)
    BY <1>0, AccountTypes DEF Accounts
  <2> USE DEF AccountsOf
  <2>1. CASE UNCHANGED <<RunOf(c), QueueOf(c), answered, sent, Dispatching(c), dispatcher.msg>>
    BY <2>0, <2>1 DEF Started
  <2>2. ASSUME NEW d \in Chats, Receive(d) PROVE AccountsOf(c)'
    <3>1. UNCHANGED <<RunOf(c), QueueOf(c), answered>>
      BY <2>2, QuietDispatch DEF Quiet, Receive
    <3>2. /\ Dispatching(c)' <=> c = d
          /\ ~Dispatching(c)
          /\ dispatcher'.msg = sent[d] + 1
      BY <1>0, <2>2 DEF Receive, Dispatching, TypeOK
    <3>3. sent'[c] = IF c = d THEN sent[c] + 1 ELSE sent[c]
      BY <1>0, <2>2 DEF Receive, TypeOK
    <3> QED
      BY <2>0, <3>1, <3>2, <3>3 DEF Started
  <2>3. CASE LoadOrStore \/ Retry
    <3>1. UNCHANGED <<RunOf(c), QueueOf(c)>>
      BY <2>3, QuietDispatch DEF Quiet
    <3>2. /\ Dispatching(c)' <=> Dispatching(c)
          /\ UNCHANGED <<dispatcher.msg, answered, sent>>
      BY <1>0, <2>3 DEF LoadOrStore, Retry, Locked, Dispatching, TypeOK
    <3> QED
      BY <2>0, <3>1, <3>2 DEF Started
  <2>4. CASE Enqueue
    <3>1. /\ RunOf(c)' = RunOf(c)
          /\ QueueOf(c)' = IF c = dispatcher.chat
                             THEN Append(QueueOf(c), dispatcher.msg) ELSE QueueOf(c)
      BY <2>4, EnqueueEffect
    <3>2. /\ ~Dispatching(c)'
          /\ Dispatching(c) <=> c = dispatcher.chat
          /\ UNCHANGED <<answered, sent>>
          /\ dispatcher.msg \in Nat
      BY <1>0, <2>4 DEF Enqueue, Locked, Receiving, Dispatching, TypeOK
    <3>3. Started(c)' = Started(c)
      BY <3>1, <3>2 DEF Started
    <3>4. CASE c = dispatcher.chat
      <4>1. dispatcher.msg = Started(c) + Len(QueueOf(c)) + 1
        BY <2>0, <3>2, <3>4
      <4>2. /\ Len(QueueOf(c)') = Len(QueueOf(c)) + 1
            /\ \A i \in 1..Len(QueueOf(c)) : QueueOf(c)'[i] = QueueOf(c)[i]
            /\ QueueOf(c)'[Len(QueueOf(c)) + 1] = dispatcher.msg
        BY <2>0, <3>1, <3>2, <3>4
      <4>3. ASSUME NEW i \in 1..Len(QueueOf(c)') PROVE QueueOf(c)'[i] = Started(c)' + i
        <5>1. CASE i \in 1..Len(QueueOf(c))
          BY <2>0, <3>3, <4>2, <5>1
        <5>2. CASE i = Len(QueueOf(c)) + 1
          BY <2>0, <3>3, <4>1, <4>2, <5>2
        <5> QED
          BY <2>0, <4>2, <5>1, <5>2
      <4>4. sent'[c] = Started(c)' + Len(QueueOf(c)')
        BY <2>0, <3>2, <3>3, <3>4, <4>2
      <4> QED
        BY <2>0, <3>1, <3>2, <4>3, <4>4
    <3>5. CASE c # dispatcher.chat
      BY <2>0, <3>1, <3>2, <3>3, <3>5
    <3> QED
      BY <3>4, <3>5
  <2>5. CASE Start
    <3>1. /\ RunOf(c)' = IF c = dispatcher.chat THEN dispatcher.msg ELSE RunOf(c)
          /\ QueueOf(c)' = QueueOf(c)
          /\ c = dispatcher.chat => RunOf(c) = 0 /\ Len(QueueOf(c)) = 0
      BY <2>5, StartEffect
    <3>2. /\ ~Dispatching(c)'
          /\ Dispatching(c) <=> c = dispatcher.chat
          /\ UNCHANGED <<answered, sent>>
          /\ dispatcher.msg \in Nat
      BY <1>0, <2>5 DEF Start, Locked, Receiving, Dispatching, TypeOK
    <3> QED
      BY <2>0, <3>1, <3>2 DEF Started
  <2>6. ASSUME NEW s \in States, RunEnds(s) PROVE AccountsOf(c)'
    <3>1. /\ RunOf(c)' = IF c = handler[s].chat THEN 0 ELSE RunOf(c)
          /\ QueueOf(c)' = QueueOf(c)
          /\ c = handler[s].chat => RunOf(c) = handler[s].msg /\ RunOf(c) # 0
      BY <2>6, RunEndsEffect
    <3>2. /\ answered'[c] = IF c = handler[s].chat THEN handler[s].msg ELSE answered[c]
          /\ UNCHANGED <<dispatcher, sent>>
      BY <1>0, <2>6 DEF RunEnds, TypeOK
    <3>3. Dispatching(c)' <=> Dispatching(c)
      BY <3>2 DEF Dispatching
    <3> QED
      BY <2>0, <3>1, <3>2, <3>3 DEF Started
  <2>7. ASSUME NEW s \in States, TakeNext(s) PROVE AccountsOf(c)'
    <3>1. /\ RunOf(c)' = IF c = handler[s].chat THEN Head(QueueOf(c)) ELSE RunOf(c)
          /\ QueueOf(c)' = IF c = handler[s].chat THEN Tail(QueueOf(c)) ELSE QueueOf(c)
          /\ c = handler[s].chat => RunOf(c) = 0 /\ QueueOf(c) # <<>>
      BY <2>7, TakeNextEffect
    <3>2. UNCHANGED <<dispatcher, answered, sent>>
      BY <2>7 DEF TakeNext
    <3>3. Dispatching(c)' <=> Dispatching(c)
      BY <3>2 DEF Dispatching
    <3>4. CASE c = handler[s].chat
      <4>1. /\ Len(QueueOf(c)) > 0 /\ Head(QueueOf(c)) = QueueOf(c)[1]
            /\ Len(QueueOf(c)') = Len(QueueOf(c)) - 1
            /\ \A i \in 1..(Len(QueueOf(c)) - 1) : QueueOf(c)'[i] = QueueOf(c)[i + 1]
        BY <2>0, <3>1, <3>4
      <4>2. Started(c) = answered[c] /\ RunOf(c)' = answered[c] + 1
        BY <2>0, <3>1, <3>4, <4>1 DEF Started
      <4>3. Started(c)' = Started(c) + 1
        BY <2>0, <4>2 DEF Started
      <4>4. ASSUME NEW i \in 1..Len(QueueOf(c)') PROVE QueueOf(c)'[i] = Started(c)' + i
        <5>1. i \in 1..(Len(QueueOf(c)) - 1) /\ i + 1 \in 1..Len(QueueOf(c))
          BY <2>0, <4>1
        <5> QED
          BY <2>0, <4>1, <4>3, <5>1
      <4>5. Started(c)' + Len(QueueOf(c)') = Started(c) + Len(QueueOf(c))
        BY <2>0, <4>1, <4>3
      <4> QED
        BY <2>0, <3>2, <3>3, <4>2, <4>4, <4>5
    <3>5. CASE c # handler[s].chat
      BY <2>0, <3>1, <3>2, <3>3, <3>5 DEF Started
    <3> QED
      BY <3>4, <3>5
  <2>8. ASSUME NEW s \in States, Retire(s) \/ Delete(s) PROVE AccountsOf(c)'
    <3>1. UNCHANGED <<RunOf(c), QueueOf(c)>>
      BY <2>8, QuietHandler DEF Quiet
    <3>2. UNCHANGED <<dispatcher, answered, sent>>
      BY <2>8 DEF Retire, Delete
    <3> QED
      BY <2>1, <3>1, <3>2 DEF Dispatching
  <2>9. CASE UNCHANGED vars
    BY <2>1, <2>9 DEF vars, RunOf, QueueOf, Dispatching
  <2> QED
    BY <2>2, <2>3, <2>4, <2>5, <2>6, <2>7, <2>8, <2>9 DEF Next, Dispatch, Handle
<1> QED
  BY <1>1, <1>2 DEF Accounts

----------------------------------------------------------------------------

\* The accounts of all messages hold in every state of the channel.
THEOREM Invariance == Spec => []Inv
<1>1. Inv /\ [Next]_vars => Inv'
  BY TypeNext, AliveNext, EntriesNext, HeldNext, AccountsNext DEF Inv
<1> QED
  BY InitInv, <1>1, PTL DEF Spec

\* The map, the chatState objects, the dispatcher and the handlers are typed.
THEOREM TypeCorrect == Spec => []TypeOK
<1>1. Inv => TypeOK
  BY DEF Inv
<1> QED
  BY <1>1, Invariance, PTL

\* A queued message is on the state its chat has in the map, and a handler will
\* look at that queue again.
THEOREM NothingOnDeadState == Spec => []QueueReachable
<1>1. Inv => QueueReachable
  BY DEF Inv, Alive, AliveOf, QueueReachable
<1> QED
  BY <1>1, Invariance, PTL

\* An entry of the map has a handler or is about to get one.
THEOREM NoLeak == Spec => []NoIdleEntry
<1>1. Inv => NoIdleEntry
  BY DEF Inv, Entries, NoIdleEntry
<1> QED
  BY <1>1, Invariance, PTL

\* Initial states map to initial states, and a step to a step of one chat's queue
\* or to a stutter.
LEMMA InitQueue == Init => Queue!Init
  BY DEF Init, Queue!Init, RunOf

LEMMA NextQueue == Inv /\ [Next]_vars => [Queue!Next]_(Queue!vars)
<1> SUFFICES ASSUME Inv, [Next]_vars PROVE [Queue!Next]_(Queue!vars)
  OBVIOUS
<1> DEFINE running == [c \in Chats |-> RunOf(c)]
<1>0. TypeOK /\ Accounts /\ \A c \in Chats : AccountsOf(c)
  BY DEF Inv, Accounts
<1> USE DEF Queue!Next, Queue!vars
<1>1. ASSUME NEW c \in Chats, Receive(c) PROVE Queue!Send(c)
  BY <1>1, QuietDispatch DEF Receive, Quiet, Queue!Send
<1>2. CASE LoadOrStore \/ Retry
  BY <1>2, QuietDispatch DEF LoadOrStore, Retry, Quiet
<1>3. CASE Enqueue
  BY <1>3, EnqueueEffect DEF Enqueue
<1>4. CASE Start
  <2> DEFINE c == dispatcher.chat
  <2>1. /\ c \in Chats /\ RunOf(c) = 0 /\ Len(QueueOf(c)) = 0
        /\ running' = [running EXCEPT ![c] = dispatcher.msg]
    BY <1>4, StartEffect
  <2>2. /\ answered[c] \in Nat
        /\ dispatcher.msg = sent[c] /\ sent[c] = answered[c] + 1
    BY <1>0, <1>4, <2>1, AccountTypes DEF AccountsOf, Started, Dispatching, Start, Locked
  <2>3. Queue!Begin(c)
    BY <1>4, <2>1, <2>2 DEF Queue!Begin, Start
  <2> QED
    BY <2>1, <2>3
<1>5. ASSUME NEW s \in States, RunEnds(s) PROVE [Queue!Next]_(Queue!vars)
  <2> DEFINE c == handler[s].chat
  <2>1. /\ c \in Chats /\ RunOf(c) = handler[s].msg /\ RunOf(c) # 0
        /\ running' = [running EXCEPT ![c] = 0]
    BY <1>5, RunEndsEffect
  <2>2. Queue!End(c)
    BY <1>5, <2>1 DEF Queue!End, RunEnds
  <2> QED
    BY <2>1, <2>2
<1>6. ASSUME NEW s \in States, TakeNext(s) PROVE [Queue!Next]_(Queue!vars)
  <2> DEFINE c == handler[s].chat
  <2>1. /\ c \in Chats /\ RunOf(c) = 0 /\ QueueOf(c) # <<>>
        /\ running' = [running EXCEPT ![c] = Head(QueueOf(c))]
    BY <1>6, TakeNextEffect
  <2>2. /\ QueueOf(c) \in Seq(Nat) /\ answered[c] \in Nat /\ Started(c) = answered[c]
        /\ sent[c] \in Nat
    BY <1>0, <2>1, AccountTypes DEF Started
  <2>3. 1 \in 1..Len(QueueOf(c)) /\ Head(QueueOf(c)) = QueueOf(c)[1]
    BY <2>1, <2>2
  <2>4. Head(QueueOf(c)) = answered[c] + 1 /\ answered[c] < sent[c]
    BY <1>0, <2>1, <2>2, <2>3 DEF AccountsOf
  <2>5. Queue!Begin(c)
    BY <1>6, <2>1, <2>4 DEF Queue!Begin, TakeNext
  <2> QED
    BY <2>1, <2>5
<1>7. ASSUME NEW s \in States, Retire(s) \/ Delete(s) PROVE UNCHANGED Queue!vars
  BY <1>7, QuietHandler DEF Retire, Delete, Quiet
<1>8. CASE UNCHANGED vars
  BY <1>8 DEF vars, RunOf
<1> QED
  BY <1>1, <1>2, <1>3, <1>4, <1>5, <1>6, <1>7, <1>8 DEF Next, Dispatch, Handle

\* Each chat is served as a queue of its own: every message once, in the order
\* received, and one run at a time, while its handlers come and go.
THEOREM Implements == Spec => QueueSpec
  BY InitQueue, NextQueue, Invariance, PTL DEF Spec, QueueSpec, Queue!Spec

=============================================================================
