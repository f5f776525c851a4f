----------------------------- MODULE ChatQueue -----------------------------
(***************************************************************************)
(* What a chat channel promises each of its chats: every message is run     *)
(* once, in the order sent, and no two runs of a chat overlap.  Chats are   *)
(* independent.  The messages of a chat are numbered from 1.                *)
(*                                                                         *)
(* TelegramChats is shown to implement this module.                        *)
(***************************************************************************)
EXTENDS Naturals

CONSTANT Chats

VARIABLES
  sent,      \* chat -> messages received from it
  running,   \* chat -> the message being run for it, 0 for none
  answered   \* chat -> the message whose run ended last

vars == <<sent, running, answered>>

Init ==
  /\ sent = [c \in Chats |-> 0]
  /\ running = [c \in Chats |-> 0]
  /\ answered = [c \in Chats |-> 0]

Send(c) ==
  /\ sent' = [sent EXCEPT ![c] = @ + 1]
  /\ UNCHANGED <<running, answered>>

Begin(c) ==
  /\ running[c] = 0
  /\ answered[c] < sent[c]
  /\ running' = [running EXCEPT ![c] = answered[c] + 1]
  /\ UNCHANGED <<sent, answered>>

End(c) ==
  /\ running[c] # 0
  /\ answered' = [answered EXCEPT ![c] = running[c]]
  /\ running' = [running EXCEPT ![c] = 0]
  /\ UNCHANGED sent

Next == \E c \in Chats : Send(c) \/ Begin(c) \/ End(c)

Spec == Init /\ [][Next]_vars

=============================================================================
