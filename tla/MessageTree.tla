---------------------------- MODULE MessageTree ----------------------------
(***************************************************************************)
(* What the conversation store promises its readers (README.md, "immutable  *)
(* message graph"): messages form a tree that grows at the tips of its      *)
(* branches.  A message never changes its parent; a new one always extends  *)
(* the tip of the branch it is written to; the only message that may go     *)
(* away is a leaf nobody else has reached (the user message of a run whose  *)
(* first LLM call failed).                                                  *)
(*                                                                         *)
(* AgentLoop is shown to implement this module.                             *)
(***************************************************************************)
EXTENDS Integers, Sequences

CONSTANTS
  MaxNode,    \* bound: messages ever appended
  MaxBranch   \* bound: branches ever opened

\* What the theorems assume of the constants.
TreeAssumption == MaxNode \in Nat /\ MaxBranch \in Nat

VARIABLES
  tree,       \* message -> its parent, for the messages that exist
  next,       \* messages are numbered in the order they were appended
  tip         \* the last message of each branch, None for an empty branch

vars == <<tree, next, tip>>

None == 0

Messages == DOMAIN tree

Init ==
  /\ tree = [n \in {} |-> None]
  /\ next = 1
  /\ tip = <<None>>

\* A message is written to branch b: it extends the tip of b.
Extend(b) ==
  /\ next <= MaxNode
  /\ tree' = [n \in Messages \cup {next} |-> IF n = next THEN tip[b] ELSE tree[n]]
  /\ next' = next + 1
  /\ tip' = [tip EXCEPT ![b] = next]

\* The tip of b is taken back: it has no reply and no other branch stands on it.
Retract(b) ==
  /\ tip[b] \in Messages
  /\ \A n \in Messages : tree[n] # tip[b]
  /\ \A c \in DOMAIN tip \ {b} : tip[c] # tip[b]
  /\ tree' = [n \in Messages \ {tip[b]} |-> tree[n]]
  /\ tip' = [tip EXCEPT ![b] = tree[tip[b]]]
  /\ UNCHANGED next

\* A branch is opened at a message that exists, or empty.
Open(n) ==
  /\ Len(tip) < MaxBranch
  /\ tip' = Append(tip, n)
  /\ UNCHANGED <<tree, next>>

\* A branch starts over; its messages stay where they are.
Clear(b) ==
  /\ tip' = [tip EXCEPT ![b] = None]
  /\ UNCHANGED <<tree, next>>

Next ==
  \/ \E b \in DOMAIN tip : Extend(b) \/ Retract(b) \/ Clear(b)
  \/ \E n \in Messages \cup {None} : Open(n)

Spec == Init /\ [][Next]_vars

----------------------------------------------------------------------------

\* Messages are numbered below next, parents and tips are message numbers.
TypeOK ==
  /\ next \in Nat \ {0}
  /\ Messages \subseteq 1..(next - 1)
  /\ tree \in [Messages -> Nat]
  /\ tip \in Seq(Nat)

\* Every reply has its parent in the store, so the context of any message can be
\* read back to its root (GetAncestors drops the rest of a chain silently when a
\* parent has no row).
ParentsExist == \A n \in Messages : tree[n] \in Messages \cup {None}

\* Every branch ends in a message that exists or is empty, so opening a branch
\* never shows an empty conversation in place of the one it had.
TipsExist == \A b \in DOMAIN tip : tip[b] \in Messages \cup {None}

\* A parent is older than its reply: no chain of parents closes a cycle, which
\* is what makes the recursive queries of GetAncestors terminate.
ParentsOlder == \A n \in Messages : tree[n] < n

\* A message keeps its parent for as long as it exists, and a number that has
\* been given out is never given to another message.
Immutable ==
  [][/\ \A n \in Messages \cap DOMAIN tree' : tree'[n] = tree[n]
     /\ \A n \in DOMAIN tree' \ Messages : n >= next]_vars

=============================================================================
