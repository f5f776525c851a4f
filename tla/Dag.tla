-------------------------------- MODULE Dag --------------------------------
(***************************************************************************)
(* The conversation store of internal/core/dag.go: two SQLite tables       *)
(* (nodes, branches), the node_aliases table, and the *DAG handles that     *)
(* share them.  A handle is nothing but the branch it is bound to.          *)
(*                                                                         *)
(* The module holds the state and the operations; AgentLoop is the client   *)
(* that calls them.  Row ids, which the code draws at random (genID), are   *)
(* the order of creation here: an id is fresh and is never drawn again.     *)
(***************************************************************************)
EXTENDS Integers, Sequences, FiniteSets

CONSTANTS
  Handles,    \* the *DAG values that may be open at a time
  Main,       \* the handle NewDAG returns; the others come from ForkFrom
  MaxNode,    \* bound: rows ever inserted in nodes
  MaxBranch   \* bound: rows ever inserted in branches

ASSUME DagAssumption ==
  /\ Main \in Handles
  /\ MaxNode \in Nat
  /\ MaxBranch \in Nat \ {0}

VARIABLES
  node,       \* nodes: id -> [parent, msg] for the rows that exist
  nextNode,   \* the id the next inserted node gets
  branch,     \* branches: id -> [head, forked]; rows are never deleted
  current,    \* branchID of each handle, None while the handle is not open
  alias       \* node_aliases: the auto-alias a<k> is the k-th element

dagVars == <<node, nextNode, branch, current, alias>>

\* The empty string of a head_node_id, parent_id or forked_from column, and the
\* branchID of a handle that is not open.
None == 0

Branches == 1..Len(branch)

----------------------------------------------------------------------------
\* Reads.

\* GetHead: the head of the handle's branch.
HeadOf(h) == branch[current[h]].head

\* GetAncestors: the chain of nodes from the root to n.  The recursive query
\* joins nodes on the parent id, so a parent that has no row ends the chain
\* without an error, and so does an n that has no row.
Ancestors(n) ==
  LET chain[m \in Nat] ==
        IF m \in DOMAIN node THEN Append(chain[node[m].parent], m) ELSE <<>>
  IN  chain[n]

Elements(s) == {s[i] : i \in DOMAIN s}

\* NextAutoAlias: one more than the greatest k of an existing alias a<k>.
NextAutoAlias == Len(alias) + 1

----------------------------------------------------------------------------
\* Writes.  Each is one SQLite transaction, so it happens or it does not.

\* AddNode on a branch: insert the row and advance the head of that branch to
\* it, whatever the parent is.
AddNodeTo(b, parent, msg) ==
  /\ nextNode <= MaxNode
  /\ node' = [n \in DOMAIN node \cup {nextNode} |->
                IF n = nextNode THEN [parent |-> parent, msg |-> msg] ELSE node[n]]
  /\ nextNode' = nextNode + 1
  /\ branch' = [branch EXCEPT ![b].head = nextNode]

AddNode(h, parent, msg) ==
  /\ AddNodeTo(current[h], parent, msg)
  /\ UNCHANGED <<current, alias>>

\* Mutant: the row goes and the head stays.
RemoveNodeKeepsHead(h, n) ==
  /\ node' = [m \in DOMAIN node \ {n} |-> node[m]]
  /\ UNCHANGED <<nextNode, branch, current, alias>>

\* RemoveNode: delete the row and rewind the head of the handle's branch to the
\* row's parent.  Other branches and aliases that name the row keep their value.
\* The row is looked up first: without it nothing changes.
RemoveNode(h, n) ==
  /\ IF n \in DOMAIN node
       THEN /\ node' = [m \in DOMAIN node \ {n} |-> node[m]]
            /\ branch' = [branch EXCEPT ![current[h]].head = node[n].parent]
       ELSE UNCHANGED <<node, branch>>
  /\ UNCHANGED <<nextNode, current, alias>>

\* ResetHead: the next message of this branch starts a new chain.
ResetHead(h) ==
  /\ branch' = [branch EXCEPT ![current[h]].head = None]
  /\ UNCHANGED <<node, nextNode, current, alias>>

InsertBranch(head, forked) ==
  /\ Len(branch) < MaxBranch
  /\ branch' = Append(branch, [head |-> head, forked |-> forked])

\* Branch: a branch that continues from n, and the handle moves to it.
Branch(h, n) ==
  /\ InsertBranch(n, n)
  /\ current' = [current EXCEPT ![h] = Len(branch) + 1]
  /\ UNCHANGED <<node, nextNode, alias>>

\* NewBranch: a branch with no head that remembers where it was left.
NewBranch(h) ==
  /\ InsertBranch(None, HeadOf(h))
  /\ current' = [current EXCEPT ![h] = Len(branch) + 1]
  /\ UNCHANGED <<node, nextNode, alias>>

\* Mutants: as Branch does, the caller moves too; the new handle is bound to the
\* caller's branch.
ForkFromMovesCaller(n, g) ==
  /\ InsertBranch(n, n)
  /\ current' = [current EXCEPT ![g] = Len(branch) + 1, ![Main] = Len(branch) + 1]
  /\ UNCHANGED <<node, nextNode, alias>>

ForkFromSharesBranch(n, g) ==
  /\ InsertBranch(n, n)
  /\ current' = [current EXCEPT ![g] = current[Main]]
  /\ UNCHANGED <<node, nextNode, alias>>

\* ForkFrom: a branch that continues from n and a new handle g bound to it; the
\* handle it is called on does not move.
ForkFrom(n, g) ==
  /\ InsertBranch(n, n)
  /\ current' = [current EXCEPT ![g] = Len(branch) + 1]
  /\ UNCHANGED <<node, nextNode, alias>>

\* SwitchBranch: the handle moves to a branch that exists.
SwitchBranch(h, b) ==
  /\ b \in Branches
  /\ current' = [current EXCEPT ![h] = b]
  /\ UNCHANGED <<node, nextNode, branch, alias>>

\* SetAlias with an auto-alias: insert it, or overwrite the row that has it.
SetAlias(n, k) ==
  /\ alias' = [i \in 1..(IF k > Len(alias) THEN k ELSE Len(alias)) |->
                 IF i = k THEN n ELSE alias[i]]
  /\ UNCHANGED <<node, nextNode, branch, current>>

----------------------------------------------------------------------------
\* NewDAG.

\* The timestamp ORDER BY sees for a branch: that of its head, and 0 when the
\* head is empty or has no row (the LEFT JOIN finds nothing).  Time is the order
\* of insertion.
HeadTime(b) == IF branch[b].head \in DOMAIN node THEN branch[b].head ELSE 0

\* The branch a process that opens an existing database starts on.  Which of
\* several equally new ones is not determined by the query.
StartBranch(b) ==
  /\ b \in Branches
  /\ \A c \in Branches : HeadTime(c) <= HeadTime(b)

\* On a new database: one branch, "main", with an empty head.
DagInit ==
  /\ node = [n \in {} |-> None]
  /\ nextNode = 1
  /\ branch = <<[head |-> None, forked |-> None]>>
  /\ current = [h \in Handles |-> IF h = Main THEN 1 ELSE None]
  /\ alias = <<>>

\* On an existing one: every handle of the old process is gone.
Reopen(b) ==
  /\ StartBranch(b)
  /\ current' = [h \in Handles |-> IF h = Main THEN b ELSE None]
  /\ UNCHANGED <<node, nextNode, branch, alias>>

=============================================================================
