-------------------------- MODULE AgentLoopProofs --------------------------
(***************************************************************************)
(* What AgentLoop guarantees for any number of loops, messages, branches,   *)
(* turns, retries, steering messages, commands and crashes.  Each theorem   *)
(* names the options it depends on and no other.                            *)
(*                                                                          *)
(* First, trees of messages: TreeInv is kept by every step of MessageTree.  *)
(*                                                                          *)
(* Then the store, whatever is done to it: Sound gathers the types, and     *)
(* what the rows of the tables and the locals of the loops refer to.        *)
(*                                                                          *)
(* Then the runs that no command has disturbed (Calm).  Nobody else writes  *)
(* to the branch of such a run (BranchesApart, by HandlesApart), so that    *)
(* what it remembers across its steps is still true of the store: the head  *)
(* it has read (TurnInv), where the call its tool results answer stands     *)
(* (InOrder), and that its user message is in its context (Carried).        *)
(* RollbackSafe and the refinement need more: until the first answer is     *)
(* stored nothing at all refers to the user message (Grounded), which takes *)
(* sub-agents to be spawned by answers that are stored and compaction to be *)
(* off (Ordinary).                                                          *)
(*                                                                          *)
(* Last, what holds with compaction and whatever is disturbed: nothing      *)
(* another loop stands on is taken back (Anchored), so that every chain     *)
(* stays complete as long as nobody opens the branch of somebody else.      *)
(***************************************************************************)
EXTENDS AgentLoop, WellFoundedInduction, TLAPS

----------------------------------------------------------------------------
\* The tree of messages: what a store guarantees that changes as MessageTree says.

TreeStep == [Tree!Next]_(Tree!vars)

TreeInv == Tree!TypeOK /\ ParentsExist /\ TipsExist /\ Tree!ParentsOlder

\* TreeInv, of a tree, the next number and the tips of the branches.
TreeSound(tree, next, tip) ==
  /\ next \in Nat \ {0}
  /\ DOMAIN tree \subseteq 1..(next - 1)
  /\ tree \in [DOMAIN tree -> Nat]
  /\ tip \in Seq(Nat)
  /\ \A n \in DOMAIN tree : tree[n] \in DOMAIN tree \cup {None} /\ tree[n] < n
  /\ \A b \in DOMAIN tip : tip[b] \in DOMAIN tree \cup {None}

\* A message is written to branch b.
LEMMA ExtendSound ==
  ASSUME NEW tree, NEW next, NEW tip, TreeSound(tree, next, tip), NEW b \in DOMAIN tip
  PROVE  TreeSound([n \in DOMAIN tree \cup {next} |-> IF n = next THEN tip[b] ELSE tree[n]],
                   next + 1, [tip EXCEPT ![b] = next])
  BY DEF TreeSound, None

\* The tip of branch b, which no message and no other branch stands on, goes.
LEMMA RetractSound ==
  ASSUME NEW tree, NEW next, NEW tip, TreeSound(tree, next, tip), NEW b \in DOMAIN tip,
         tip[b] \in DOMAIN tree,
         \A n \in DOMAIN tree : tree[n] # tip[b],
         \A c \in DOMAIN tip \ {b} : tip[c] # tip[b]
  PROVE  TreeSound([n \in DOMAIN tree \ {tip[b]} |-> tree[n]], next, [tip EXCEPT ![b] = tree[tip[b]]])
  BY DEF TreeSound, None

\* A branch starts over.
LEMMA ClearSound ==
  ASSUME NEW tree, NEW next, NEW tip, TreeSound(tree, next, tip), NEW b \in DOMAIN tip
  PROVE  TreeSound(tree, next, [tip EXCEPT ![b] = None])
  BY DEF TreeSound, None

\* A branch is opened.
LEMMA OpenSound ==
  ASSUME NEW tree, NEW next, NEW tip, TreeSound(tree, next, tip),
         NEW n \in DOMAIN tree \cup {None}
  PROVE  TreeSound(tree, next, Append(tip, n))
<1>1. n \in Nat /\ tip \in Seq(Nat)
  BY DEF TreeSound, None
<1>2. Append(tip, n) \in Seq(Nat)
  BY <1>1
<1>3. \A b \in DOMAIN Append(tip, n) :
        Append(tip, n)[b] = n \/ (b \in DOMAIN tip /\ Append(tip, n)[b] = tip[b])
  BY <1>1
<1> QED
  BY <1>2, <1>3 DEF TreeSound

\* The guarantees of MessageTree are inductive together: taking a message back
\* keeps parents in the store only because a parent is older than its reply, and
\* appending one keeps parents older only because tips are numbered below next.
LEMMA TreeNext == TreeInv /\ TreeStep => TreeInv'
<1> SUFFICES ASSUME TreeInv, TreeStep PROVE TreeInv'
  OBVIOUS
<1> DEFINE tree == [n \in DOMAIN node |-> node[n].parent]
           tip == [b \in Branches |-> branch[b].head]
<1>1. TreeSound(tree, nextNode, tip)
  BY DEF TreeInv, Tree!TypeOK, ParentsExist, TipsExist, Tree!ParentsExist, Tree!TipsExist,
         Tree!ParentsOlder, Tree!Messages, Tree!None, None, TreeSound
<1>2. ASSUME TreeSound(tree', nextNode', tip') PROVE TreeInv'
  BY <1>2 DEF TreeInv, Tree!TypeOK, ParentsExist, TipsExist, Tree!ParentsExist, Tree!TipsExist,
              Tree!ParentsOlder, Tree!Messages, Tree!None, None, TreeSound
<1>3. ASSUME NEW b \in DOMAIN tip, Tree!Extend(b) PROVE TreeInv'
  <2>1. /\ tree' = [n \in DOMAIN tree \cup {nextNode} |-> IF n = nextNode THEN tip[b] ELSE tree[n]]
        /\ nextNode' = nextNode + 1 /\ tip' = [tip EXCEPT ![b] = nextNode]
    BY <1>3 DEF Tree!Extend, Tree!Messages
  <2> HIDE DEF tree, tip
  <2> QED
    BY <1>1, <1>2, <2>1, ExtendSound
<1>4. ASSUME NEW b \in DOMAIN tip, Tree!Retract(b) PROVE TreeInv'
  <2>1. /\ tip[b] \in DOMAIN tree
        /\ \A n \in DOMAIN tree : tree[n] # tip[b]
        /\ \A c \in DOMAIN tip \ {b} : tip[c] # tip[b]
    BY <1>4 DEF Tree!Retract, Tree!Messages
  <2>2. /\ tree' = [n \in DOMAIN tree \ {tip[b]} |-> tree[n]]
        /\ tip' = [tip EXCEPT ![b] = tree[tip[b]]]
        /\ nextNode' = nextNode
    BY <1>4 DEF Tree!Retract, Tree!Messages
  <2> HIDE DEF tree, tip
  <2> QED
    BY <1>1, <1>2, <2>1, <2>2, RetractSound
<1>5. ASSUME NEW b \in DOMAIN tip, Tree!Clear(b) PROVE TreeInv'
  <2>1. tree' = tree /\ nextNode' = nextNode /\ tip' = [tip EXCEPT ![b] = None]
    BY <1>5 DEF Tree!Clear, Tree!None, None
  <2> HIDE DEF tree, tip
  <2> QED
    BY <1>1, <1>2, <2>1, ClearSound
<1>6. ASSUME NEW n \in DOMAIN tree \cup {None}, Tree!Open(n) PROVE TreeInv'
  <2>1. tree' = tree /\ nextNode' = nextNode /\ tip' = Append(tip, n)
    BY <1>6 DEF Tree!Open
  <2> HIDE DEF tree, tip
  <2> QED
    BY <1>1, <1>2, <2>1, OpenSound
<1>7. CASE UNCHANGED Tree!vars
  <2>1. tree' = tree /\ nextNode' = nextNode /\ tip' = tip
    BY <1>7 DEF Tree!vars
  <2> HIDE DEF tree, tip
  <2> QED
    BY <1>1, <1>2, <2>1
<1> QED
  BY <1>3, <1>4, <1>5, <1>6, <1>7 DEF Tree!Next, TreeStep, Tree!Messages, Tree!None, None

LEMMA TreeInit == Tree!Init => TreeInv
  BY DEF TreeInv, Tree!TypeOK, ParentsExist, TipsExist, Tree!ParentsExist, Tree!TipsExist,
         Tree!ParentsOlder, Tree!Messages, Tree!None, Tree!Init

LEMMA TreeInvariance == Tree!Spec => []TreeInv
<1>1. TreeInv /\ [Tree!Next]_(Tree!vars) => TreeInv'
  BY TreeNext DEF TreeStep
<1> QED
  BY <1>1, TreeInit, PTL DEF Tree!Spec

\* No reply loses its parent: the chain of any message can be read to its root.
THEOREM ParentsKept == Tree!Spec => []ParentsExist
  BY TreeInvariance, PTL DEF TreeInv

\* No branch ends in a message that is gone.
THEOREM TipsKept == Tree!Spec => []TipsExist
  BY TreeInvariance, PTL DEF TreeInv

\* Parents are older than their replies: the chains have no cycle.
THEOREM Acyclic == Tree!Spec => []Tree!ParentsOlder
  BY TreeInvariance, PTL DEF TreeInv

\* A message keeps its parent, and its number is never given out again.
THEOREM NeverRewritten == Tree!Spec => Tree!Immutable
<1> DEFINE tree == [n \in DOMAIN node |-> node[n].parent]
           tip == [b \in Branches |-> branch[b].head]
           A == /\ \A n \in DOMAIN tree \cap DOMAIN tree' : tree'[n] = tree[n]
                /\ \A n \in DOMAIN tree' \ DOMAIN tree : n >= nextNode
<1>1. ASSUME TreeInv, TreeStep PROVE A \/ UNCHANGED Tree!vars
  <2>0. nextNode \in Nat
    BY <1>1 DEF TreeInv, Tree!TypeOK
  <2>1. ASSUME NEW b \in DOMAIN tip, Tree!Extend(b) PROVE A
    <3>1. tree' = [n \in DOMAIN tree \cup {nextNode} |-> IF n = nextNode THEN tip[b] ELSE tree[n]]
      BY <2>1 DEF Tree!Extend, Tree!Messages
    <3>2. nextNode \notin DOMAIN tree
      BY <1>1 DEF TreeInv, Tree!TypeOK, Tree!Messages
    <3> HIDE DEF tree, tip
    <3> QED
      BY <2>0, <3>1, <3>2
  <2>2. ASSUME NEW b \in DOMAIN tip, Tree!Retract(b) PROVE A
    <3>1. tree' = [n \in DOMAIN tree \ {tip[b]} |-> tree[n]]
      BY <2>2 DEF Tree!Retract, Tree!Messages
    <3> HIDE DEF tree, tip
    <3> QED
      BY <3>1
  <2>3. CASE tree' = tree
    <3> HIDE DEF tree, tip
    <3> QED
      BY <2>3
  <2>4. ASSUME NEW b \in DOMAIN tip, Tree!Clear(b) PROVE tree' = tree
    BY <2>4 DEF Tree!Clear
  <2>5. ASSUME NEW n \in DOMAIN tree \cup {None}, Tree!Open(n) PROVE tree' = tree
    BY <2>5 DEF Tree!Open
  <2> HIDE DEF A
  <2> QED
    BY <1>1, <2>1, <2>2, <2>3, <2>4, <2>5 DEF Tree!Next, TreeStep, Tree!Messages, Tree!None, None
<1>2. TreeInv /\ [Tree!Next]_(Tree!vars) =>
        [/\ \A n \in Tree!Messages \cap DOMAIN tree' : tree'[n] = tree[n]
         /\ \A n \in DOMAIN tree' \ Tree!Messages : n >= nextNode]_(Tree!vars)
  BY <1>1 DEF Tree!Messages, TreeStep
<1> QED
  BY <1>2, TreeInvariance, PTL DEF Tree!Spec, Tree!Immutable

----------------------------------------------------------------------------
\* What the operations of the store do to its types.

\* The sets of values grow with the ids given out.
LEMMA IdsGrow ==
  ASSUME StoreTypeOK, nextNode' \in Nat, nextNode' >= nextNode
  PROVE  Ids \subseteq Ids' /\ Rows \subseteq Rows' /\ Locals \subseteq Locals'
<1>1. Ids \subseteq Ids'
  BY DEF StoreTypeOK, Ids
<1> QED
  BY <1>1 DEF Rows, Locals

LEMMA BranchRows ==
  ASSUME StoreTypeOK
  PROVE  /\ Branches = 1..Len(branch)
         /\ Len(branch) \in Nat
         /\ branch \in [Branches -> Rows]
         /\ \A b \in Branches : branch[b].head \in Ids
<1>1. branch \in [1..Len(branch) -> Rows] /\ Len(branch) \in Nat
  BY DEF StoreTypeOK
<1> QED
  BY <1>1 DEF Branches, Rows

LEMMA AddNodeTyped ==
  ASSUME StoreTypeOK, NEW b \in Branches, NEW parent \in Ids, NEW msg \in Messages,
         AddNodeTo(b, parent, msg)
  PROVE  /\ nextNode' = nextNode + 1 /\ nextNode' \in 1..(MaxNode + 1)
         /\ DOMAIN node' = DOMAIN node \cup {nextNode}
         /\ DOMAIN node' \subseteq 1..(nextNode' - 1)
         /\ node' \in [DOMAIN node' -> [parent : Ids', msg : Messages]]
         /\ branch' \in Seq(Rows') /\ Len(branch') = Len(branch)
         /\ nextNode \in Ids' /\ Ids \subseteq Ids' /\ nextNode \notin Ids
<1>1. nextNode' = nextNode + 1 /\ nextNode' \in 1..(MaxNode + 1)
  BY DagAssumption DEF StoreTypeOK, AddNodeTo
<1>2. Ids \subseteq Ids' /\ nextNode \in Ids' /\ nextNode \notin Ids
  BY <1>1 DEF Ids, StoreTypeOK
<1>3. DOMAIN node' = DOMAIN node \cup {nextNode}
  BY DEF AddNodeTo
<1>4. DOMAIN node' \subseteq 1..(nextNode' - 1)
  BY <1>1, <1>3 DEF StoreTypeOK
<1>5. node' \in [DOMAIN node' -> [parent : Ids', msg : Messages]]
  BY <1>2, <1>3 DEF StoreTypeOK, AddNodeTo
<1>6. branch' \in Seq(Rows') /\ Len(branch') = Len(branch)
  <2>1. branch \in [1..Len(branch) -> Rows'] /\ Len(branch) \in Nat
    BY BranchRows, <1>2 DEF Rows
  <2>2. branch' \in [1..Len(branch) -> Rows']
    BY <2>1, <1>2 DEF AddNodeTo, Branches, Rows
  <2> QED
    BY <2>1, <2>2
<1> QED
  BY <1>1, <1>2, <1>3, <1>4, <1>5, <1>6

----------------------------------------------------------------------------
\* Induction on the age of a message.

LEMMA LessPairs ==
  \A x, y : <<x, y>> \in OpToRel(<, Nat) <=> x \in Nat /\ y \in Nat /\ x < y
  BY DEF OpToRel

\* A set of numbers has a least element.
LEMMA LeastElement ==
  ASSUME NEW T, T \subseteq Nat, T # {}
  PROVE  \E x \in T : \A y \in T : x <= y
<1>1. \E x \in T : \A y \in T : ~ (<<y, x>> \in OpToRel(<, Nat))
  BY NatLessThanWellFounded, WFMin
<1>2. PICK x \in T : \A y \in T : ~ (<<y, x>> \in OpToRel(<, Nat))
  BY <1>1
<1>3. ASSUME NEW y \in T PROVE ~ (y < x)
  <2>1. ~ (<<y, x>> \in OpToRel(<, Nat))
    BY <1>2
  <2>2. x \in Nat /\ y \in Nat
    BY Zenon
  <2> QED
    BY <2>1, <2>2, LessPairs, Zenon
<1>4. ASSUME NEW y \in T PROVE x <= y
  BY <1>3
<1> QED
  BY <1>4

\* Complete induction, for a set of numbers.
LEMMA SetInduction ==
  ASSUME NEW S, \A n \in Nat : (\A m \in 0..(n - 1) : m \in S) => n \in S
  PROVE  Nat \subseteq S
<1> DEFINE T == Nat \ S
<1>1. ASSUME T # {} PROVE FALSE
  <2>1. PICK x \in T : \A y \in T : x <= y
    BY <1>1, LeastElement
  <2>2. ASSUME NEW m \in 0..(x - 1) PROVE m \in S
    BY <2>1
  <2> QED
    BY <2>1, <2>2
<1> QED
  BY <1>1

\* A table of messages in which every parent is older than its reply.
Older(table) ==
  \A m \in DOMAIN table :
    m \in Nat /\ table[m].parent \in Nat /\ table[m].parent < m

\* g is the chain function of the messages up to n.
IsChain(g, n, table) ==
  g = [m \in 0..n |-> IF m \in DOMAIN table THEN Append(g[table[m].parent], m) ELSE <<>>]

LEMMA ChainValue ==
  ASSUME NEW table, NEW n, NEW g, IsChain(g, n, table), NEW m \in 0..n
  PROVE  g[m] = IF m \in DOMAIN table THEN Append(g[table[m].parent], m) ELSE <<>>
<1> DEFINE V(i) == IF i \in DOMAIN table THEN Append(g[table[i].parent], i) ELSE <<>>
<1>1. g = [i \in 0..n |-> V(i)]
  BY Zenon DEF IsChain
<1> HIDE DEF V
<1>2. [i \in 0..n |-> V(i)][m] = V(m)
  OBVIOUS
<1>3. g[m] = V(m)
  BY <1>1, <1>2
<1> QED
  BY <1>3 DEF V

LEMMA ChainUnique ==
  ASSUME NEW table, Older(table), NEW n \in Nat, NEW k \in Nat, NEW g, NEW h,
         IsChain(g, n, table), IsChain(h, k, table)
  PROVE  \A m \in 0..n : m \in 0..k => g[m] = h[m]
<1> DEFINE S == {m \in Nat : m <= n /\ m <= k => g[m] = h[m]}
<1>1. ASSUME NEW m \in Nat, \A i \in 0..(m - 1) : i \in S PROVE m \in S
  <2> SUFFICES ASSUME m <= n, m <= k PROVE g[m] = h[m]
    OBVIOUS
  <2>1. /\ g[m] = IF m \in DOMAIN table THEN Append(g[table[m].parent], m) ELSE <<>>
        /\ h[m] = IF m \in DOMAIN table THEN Append(h[table[m].parent], m) ELSE <<>>
    BY ChainValue
  <2>2. CASE m \in DOMAIN table
    <3>1. table[m].parent \in 0..(m - 1)
      BY <2>2 DEF Older
    <3>2. table[m].parent \in S /\ table[m].parent <= n /\ table[m].parent <= k
      BY <1>1, <3>1
    <3>3. g[table[m].parent] = h[table[m].parent]
      BY <3>2
    <3> QED
      BY <2>1, <3>3
  <2> QED
    BY <2>1, <2>2
<1>2. Nat \subseteq S
  <2> HIDE DEF S
  <2> QED BY <1>1, SetInduction
<1> QED
  BY <1>2

LEMMA ChainExists ==
  ASSUME NEW table, Older(table)
  PROVE  \A n \in Nat : \E g : IsChain(g, n, table)
<1> DEFINE S == {n \in Nat : \E g : IsChain(g, n, table)}
<1>1. ASSUME NEW n \in Nat, \A i \in 0..(n - 1) : i \in S PROVE n \in S
  <2>1. CASE n = 0
    <3> DEFINE g == [m \in 0..0 |-> <<>>]
    <3>1. 0 \notin DOMAIN table
      BY DEF Older
    <3>2. g = [m \in 0..0 |-> IF m \in DOMAIN table THEN Append(g[table[m].parent], m) ELSE <<>>]
      BY <3>1
    <3> QED
      BY <2>1, <3>2 DEF IsChain
  <2>2. CASE n # 0
    <3>1. n - 1 \in S
      BY <1>1, <2>2
    <3>2. PICK g : IsChain(g, n - 1, table)
      BY <3>1
    <3> DEFINE h == [m \in 0..n |->
                       IF m = n THEN IF n \in DOMAIN table THEN Append(g[table[n].parent], n) ELSE <<>>
                                ELSE g[m]]
    <3>3. ASSUME NEW m \in 0..n
          PROVE  h[m] = IF m \in DOMAIN table THEN Append(h[table[m].parent], m) ELSE <<>>
      <4>1. m \in DOMAIN table => table[m].parent \in 0..(n - 1) /\ h[table[m].parent] = g[table[m].parent]
        BY DEF Older
      <4>2. m # n => m \in 0..(n - 1)
        OBVIOUS
      <4>3. m # n => g[m] = IF m \in DOMAIN table THEN Append(g[table[m].parent], m) ELSE <<>>
        BY <3>2, <4>2, ChainValue
      <4> QED
        BY <4>1, <4>3
    <3>4. h = [m \in 0..n |-> h[m]]
      OBVIOUS
    <3> HIDE DEF h
    <3>5. IsChain(h, n, table)
      BY <3>3, <3>4 DEF IsChain
    <3> QED
      BY <3>5
  <2> QED
    BY <2>1, <2>2
<1>2. Nat \subseteq S
  <2> HIDE DEF S
  <2> QED BY <1>1, SetInduction
<1> QED
  BY <1>2

\* The chain function of the whole table: from those of its beginnings, which
\* exist and agree.
LEMMA ChainFunction ==
  ASSUME NEW table, Older(table)
  PROVE  \E f : f = [m \in Nat |-> IF m \in DOMAIN table THEN Append(f[table[m].parent], m) ELSE <<>>]
<1> DEFINE G(n) == CHOOSE g : IsChain(g, n, table)
           f == [m \in Nat |-> G(m)[m]]
<1>1. \A n \in Nat : IsChain(G(n), n, table)
  BY ChainExists
<1>2. ASSUME NEW m \in Nat
      PROVE  f[m] = IF m \in DOMAIN table THEN Append(f[table[m].parent], m) ELSE <<>>
  <2>1. IsChain(G(m), m, table)
    BY <1>1
  <2>2. G(m)[m] = IF m \in DOMAIN table THEN Append(G(m)[table[m].parent], m) ELSE <<>>
    <3> HIDE DEF G
    <3> QED BY <2>1, ChainValue
  <2>3. CASE m \in DOMAIN table
    <3> DEFINE p == table[m].parent
    <3>1. p \in Nat /\ p \in 0..p /\ p \in 0..m
      BY <2>3 DEF Older
    <3>2. IsChain(G(p), p, table)
      BY <1>1, <3>1
    <3> HIDE DEF G
    <3>3. G(p)[p] = G(m)[p]
      BY <2>1, <3>1, <3>2, ChainUnique
    <3> QED
      BY <2>2, <2>3, <3>1, <3>3
  <2> QED
    BY <2>2, <2>3
<1>3. f = [m \in Nat |-> f[m]]
  OBVIOUS
<1> HIDE DEF f
<1> QED
  BY <1>2, <1>3

\* GetAncestors on a given table.
ChainOf(table, n) ==
  LET chain[m \in Nat] ==
        IF m \in DOMAIN table THEN Append(chain[table[m].parent], m) ELSE <<>>
  IN  chain[n]

LEMMA ChainStep ==
  ASSUME NEW table, Older(table), NEW n \in Nat
  PROVE  ChainOf(table, n) =
           IF n \in DOMAIN table THEN Append(ChainOf(table, table[n].parent), n) ELSE <<>>
<1> DEFINE F == CHOOSE f : f = [m \in Nat |-> IF m \in DOMAIN table
                                               THEN Append(f[table[m].parent], m) ELSE <<>>]
<1>1. F = [m \in Nat |-> IF m \in DOMAIN table THEN Append(F[table[m].parent], m) ELSE <<>>]
  BY ChainFunction
<1>2. \A m : ChainOf(table, m) = F[m]
  BY DEF ChainOf
<1> QED
  BY <1>1, <1>2

\* A chain is a sequence of messages of the table.
LEMMA ChainElements ==
  ASSUME NEW table, Older(table)
  PROVE  \A n \in Nat :
           /\ ChainOf(table, n) \in Seq(Nat)
           /\ Elements(ChainOf(table, n)) =
                IF n \in DOMAIN table
                  THEN Elements(ChainOf(table, table[n].parent)) \cup {n} ELSE {}
           /\ Elements(ChainOf(table, n)) \subseteq DOMAIN table
           /\ \A m \in Elements(ChainOf(table, n)) : m <= n
<1> DEFINE Good(n) ==
      /\ ChainOf(table, n) \in Seq(Nat)
      /\ Elements(ChainOf(table, n)) =
           IF n \in DOMAIN table
             THEN Elements(ChainOf(table, table[n].parent)) \cup {n} ELSE {}
      /\ Elements(ChainOf(table, n)) \subseteq DOMAIN table
      /\ \A m \in Elements(ChainOf(table, n)) : m <= n
<1> DEFINE S == {n \in Nat : Good(n)}
<1>1. ASSUME NEW n \in Nat, \A i \in 0..(n - 1) : i \in S PROVE n \in S
  <2>1. CASE n \in DOMAIN table
    <3> DEFINE p == table[n].parent
               c == ChainOf(table, p)
    <3>1. p \in 0..(n - 1) /\ p < n /\ p \in Nat
      BY <2>1 DEF Older
    <3>2. Good(p)
      BY <1>1, <3>1
    <3>3. ChainOf(table, n) = Append(c, n)
      BY <2>1, ChainStep
    <3>4. c \in Seq(Nat) /\ Elements(c) \subseteq DOMAIN table /\ \A m \in Elements(c) : m <= p
      BY <3>2
    <3>5. ASSUME NEW m \in DOMAIN table PROVE m \in Nat
      BY DEF Older
    <3> HIDE DEF c
    <3>6. Append(c, n) \in Seq(Nat) /\ Elements(Append(c, n)) = Elements(c) \cup {n}
      <4>1. Len(Append(c, n)) = Len(c) + 1 /\ Len(c) \in Nat
        BY <3>4
      <4>2. DOMAIN Append(c, n) = 1..(Len(c) + 1) /\ DOMAIN c = 1..Len(c)
        BY <3>4
      <4>3. \A i \in DOMAIN Append(c, n) : Append(c, n)[i] = IF i = Len(c) + 1 THEN n ELSE c[i]
        BY <3>4
      <4>4. ASSUME NEW x \in Elements(c) PROVE x \in Elements(Append(c, n))
        <5>1. PICK i \in DOMAIN c : x = c[i]
          BY DEF Elements
        <5>2. i \in DOMAIN Append(c, n) /\ Append(c, n)[i] = x
          BY <4>1, <4>2, <4>3, <5>1
        <5> QED
          BY <5>2 DEF Elements
      <4>5. n \in Elements(Append(c, n))
        <5>1. Len(c) + 1 \in DOMAIN Append(c, n) /\ Append(c, n)[Len(c) + 1] = n
          BY <4>1, <4>2, <4>3
        <5> QED
          BY <5>1 DEF Elements
      <4>6. ASSUME NEW x \in Elements(Append(c, n)) PROVE x \in Elements(c) \cup {n}
        <5>1. PICK i \in DOMAIN Append(c, n) : x = Append(c, n)[i]
          BY DEF Elements
        <5>2. i = Len(c) + 1 \/ i \in DOMAIN c
          BY <4>1, <4>2
        <5> QED
          BY <4>3, <5>1, <5>2 DEF Elements
      <4>7. Append(c, n) \in Seq(Nat)
        BY <3>4
      <4> QED
        BY <4>4, <4>5, <4>6, <4>7
    <3>7. Good(n)
      <4>1. Elements(ChainOf(table, n)) = Elements(c) \cup {n} /\ ChainOf(table, n) \in Seq(Nat)
        BY <3>3, <3>6
      <4>2. \A m \in Elements(ChainOf(table, n)) : m <= n
        BY <3>1, <3>4, <3>5, <4>1
      <4> QED
        BY <2>1, <3>4, <4>1, <4>2 DEF c
    <3> QED
      BY <3>7
  <2>2. CASE n \notin DOMAIN table
    <3>1. ChainOf(table, n) = <<>>
      BY <2>2, ChainStep
    <3>2. Elements(<<>>) = {}
      BY DEF Elements
    <3> QED
      BY <2>2, <3>1, <3>2
  <2> QED
    BY <2>1, <2>2
<1>2. Nat \subseteq S
  <2> HIDE DEF S
  <2> QED BY <1>1, SetInduction
<1> QED
  BY <1>2

LEMMA ChainGrows ==
  ASSUME NEW table, Older(table), NEW n \in DOMAIN table
  PROVE  Elements(ChainOf(table, n)) = Elements(ChainOf(table, table[n].parent)) \cup {n}
<1>1. n \in Nat
  BY DEF Older
<1> QED
  BY <1>1, ChainElements

\* Two tables that agree on a set of messages closed under parents have the same
\* chains there.
LEMMA ChainSame ==
  ASSUME NEW t, NEW u, Older(t), Older(u), NEW A, A \subseteq Nat,
         \A m \in A : m \in DOMAIN t <=> m \in DOMAIN u,
         \A m \in A : m \in DOMAIN t => t[m].parent = u[m].parent /\ t[m].parent \in A
  PROVE  \A m \in A : ChainOf(t, m) = ChainOf(u, m)
<1> DEFINE S == {m \in Nat : m \in A => ChainOf(t, m) = ChainOf(u, m)}
<1>1. ASSUME NEW n \in Nat, \A i \in 0..(n - 1) : i \in S PROVE n \in S
  <2> SUFFICES ASSUME n \in A PROVE ChainOf(t, n) = ChainOf(u, n)
    OBVIOUS
  <2>1. CASE n \in DOMAIN t
    <3>1. t[n].parent \in 0..(n - 1) /\ t[n].parent \in A /\ u[n].parent = t[n].parent
      BY <2>1 DEF Older
    <3>2. ChainOf(t, t[n].parent) = ChainOf(u, t[n].parent)
      BY <1>1, <3>1
    <3>3. ChainOf(t, n) = Append(ChainOf(t, t[n].parent), n)
      BY <2>1, ChainStep
    <3>4. ChainOf(u, n) = Append(ChainOf(u, u[n].parent), n)
      BY <2>1, ChainStep
    <3> QED
      BY <3>1, <3>2, <3>3, <3>4
  <2>2. CASE n \notin DOMAIN t
    BY <2>2, ChainStep
  <2> QED
    BY <2>1, <2>2
<1>2. Nat \subseteq S
  <2> HIDE DEF S
  <2> QED BY <1>1, SetInduction
<1> QED
  BY <1>2

LEMMA AncestorsChain == \A n : Ancestors(n) = ChainOf(node, n) /\ Ancestors(n)' = ChainOf(node', n)
  BY DEF Ancestors, ChainOf

----------------------------------------------------------------------------
Active(l) == ~At(l, "idle")

\* The alias a loop is about to store is one that exists or the next one, so that
\* the aliases stay numbered without a gap.
AliasInRange ==
  \A l \in Loops : At(l, "setAlias") => run[l].autoAlias \in 1..(Len(alias) + 1)

\* The user message of a run is one its loop has written.
UserRows ==
  \A l \in Loops : LET u == run[l].userNode IN
    u \in DOMAIN node => node[u].msg.role = "user" /\ node[u].msg.by = l

\* What holds of any instance.
Sound == TypeOK /\ Older(node) /\ AliasInRange /\ UserRows

\* A loop that has a handle to write through.
Bound(l) == current[HandleOf[l]] # None

LEMMA BoundBranch ==
  ASSUME Sound, NEW l \in Loops, Bound(l)
  PROVE  /\ HandleOf[l] \in Handles
         /\ current[HandleOf[l]] \in Branches
         /\ HeadNode(l) \in Ids
<1>1. HandleOf[l] \in Handles
  BY LoopAssumption
<1>2. current[HandleOf[l]] \in Branches
  BY <1>1 DEF Bound, Sound, TypeOK, StoreTypeOK, Branches, None
<1> QED
  BY <1>1, <1>2, BranchRows DEF Sound, TypeOK, HeadNode, HeadOf

LEMMA ActiveBound ==
  ASSUME Sound, NEW l \in Loops, Active(l) PROVE Bound(l)
  BY DEF Sound, TypeOK, RunTypeOK, Active, Bound

LEMMA MainBound ==
  ASSUME Sound, NEW l \in MainLoops PROVE l \in Loops /\ Bound(l)
  BY DEF Sound, TypeOK, StoreTypeOK, MainLoops, Bound

LEMMA ScreenBound ==
  ASSUME Sound, NEW l \in Screens PROVE l \in Loops /\ HandleOf[l] = Main /\ Bound(l)
<1>1. l \in Loops /\ HandleOf[l] = Main
  BY LoopAssumption
<1> QED
  BY <1>1 DEF Sound, TypeOK, StoreTypeOK, Bound

LEMMA SoundLocals ==
  ASSUME Sound, NEW l \in Loops
  PROVE  run \in [Loops -> Locals] /\ run[l] \in Locals
  BY DEF Sound, TypeOK, RunTypeOK

LEMMA SoundStore ==
  ASSUME Sound
  PROVE  /\ nextNode \in Nat \ {0} /\ nextNode \notin Ids /\ nextNode \notin DOMAIN node
         /\ 0 \in Ids /\ None \in Ids /\ Ids \subseteq Nat
         /\ None \notin DOMAIN node
         /\ DOMAIN node \subseteq Ids /\ DOMAIN node \subseteq Nat
         /\ \A n \in DOMAIN node : node[n].parent \in Ids /\ node[n].msg \in Messages
         /\ Branches = 1..Len(branch) /\ Len(branch) \in Nat /\ branch \in Seq(Rows)
         /\ branch \in [Branches -> Rows]
         /\ current \in [Handles -> 0..Len(branch)] /\ current[Main] # None
<1>1. StoreTypeOK
  BY DEF Sound, TypeOK
<1>2. /\ nextNode \in Nat \ {0} /\ nextNode \notin Ids /\ nextNode \notin DOMAIN node
      /\ 0 \in Ids /\ Ids \subseteq Nat
      /\ DOMAIN node \subseteq Ids /\ 0 \notin DOMAIN node
  BY <1>1 DEF StoreTypeOK, Ids
<1>3. \A n \in DOMAIN node : node[n].parent \in Ids /\ node[n].msg \in Messages
  BY <1>1 DEF StoreTypeOK
<1> QED
  BY <1>1, <1>2, <1>3, BranchRows DEF StoreTypeOK, None

LEMMA IdleTyped ==
  ASSUME Sound
  PROVE  Idle \in Locals /\ Idle.pc = "idle" /\ Idle.userNode = None /\ Idle.turn = 0
<1>1. <<>> \in Seq(Messages)
  OBVIOUS
<1> QED
  BY <1>1, SoundStore DEF Idle, Locals, None, Points

----------------------------------------------------------------------------
\* What the operations of the store do, whoever calls them.

\* A message is added to branch c under a parent p.
Adds(c, p, msg) ==
  /\ nextNode' = nextNode + 1
  /\ DOMAIN node' = DOMAIN node \cup {nextNode}
  /\ node'[nextNode].parent = p /\ node'[nextNode].msg = msg
  /\ \A n \in DOMAIN node : node'[n] = node[n]
  /\ Branches' = Branches
  /\ branch'[c].head = nextNode /\ branch'[c].forked = branch[c].forked
  /\ \A b \in Branches \ {c} : branch'[b] = branch[b]
  /\ current' = current /\ alias' = alias

LEMMA AddEffect ==
  ASSUME Sound, NEW h \in Handles, current[h] \in Branches, NEW p \in Ids, NEW msg \in Messages,
         AddNode(h, p, msg)
  PROVE  /\ Adds(current[h], p, msg)
         /\ StoreTypeOK' /\ Older(node')
         /\ Ids \subseteq Ids' /\ Locals \subseteq Locals' /\ nextNode \in Ids'
<1> DEFINE c == current[h]
<1>1. AddNodeTo(c, p, msg) /\ current' = current /\ alias' = alias
  BY DEF AddNode
<1>2. StoreTypeOK
  BY DEF Sound, TypeOK
<1>3. c \in Branches
  OBVIOUS
<1> HIDE DEF c
<1>4. /\ nextNode' = nextNode + 1 /\ nextNode' \in 1..(MaxNode + 1)
      /\ DOMAIN node' = DOMAIN node \cup {nextNode}
      /\ DOMAIN node' \subseteq 1..(nextNode' - 1)
      /\ node' \in [DOMAIN node' -> [parent : Ids', msg : Messages]]
      /\ branch' \in Seq(Rows') /\ Len(branch') = Len(branch)
      /\ nextNode \in Ids' /\ Ids \subseteq Ids' /\ nextNode \notin Ids
  BY <1>1, <1>2, <1>3, AddNodeTyped
<1>5. StoreTypeOK'
  <2>1. alias' \in Seq(Ids')
    BY <1>1, <1>2, <1>4 DEF StoreTypeOK
  <2> QED
    BY <1>1, <1>2, <1>4, <2>1 DEF StoreTypeOK
<1>6. Locals \subseteq Locals'
  BY <1>2, <1>4, IdsGrow DEF StoreTypeOK
<1>7. /\ node'[nextNode] = [parent |-> p, msg |-> msg]
      /\ \A n \in DOMAIN node : node'[n] = node[n]
  <2>1. nextNode \notin DOMAIN node
    BY SoundStore
  <2> QED
    BY <1>1, <1>4, <2>1 DEF AddNodeTo
<1>8. /\ Branches' = Branches
      /\ branch'[c].head = nextNode /\ branch'[c].forked = branch[c].forked
      /\ \A b \in Branches \ {c} : branch'[b] = branch[b]
  <2>1. branch' = [branch EXCEPT ![c].head = nextNode]
    BY <1>1 DEF AddNodeTo
  <2> QED
    BY <1>3, <1>4, <2>1, SoundStore DEF Branches, Rows
<1>9. Older(node')
  <2>1. nextNode \in Nat /\ p \in Nat /\ p < nextNode
    BY <1>2 DEF Ids, StoreTypeOK
  <2> QED
    BY <1>4, <1>7, <2>1 DEF Older, Sound
<1> QED
  BY <1>1, <1>4, <1>5, <1>6, <1>7, <1>8, <1>9 DEF Adds, c

\* The message u is taken back through a handle on branch c.
Removes(c, u) ==
  /\ nextNode' = nextNode
  /\ u \in DOMAIN node /\ DOMAIN node' = DOMAIN node \ {u}
  /\ \A n \in DOMAIN node' : node'[n] = node[n]
  /\ Branches' = Branches
  /\ branch'[c].head = node[u].parent /\ branch'[c].forked = branch[c].forked
  /\ \A b \in Branches \ {c} : branch'[b] = branch[b]
  /\ current' = current /\ alias' = alias

LEMMA RemoveEffect ==
  ASSUME Sound, NEW h \in Handles, current[h] \in Branches, NEW u, RemoveNode(h, u)
  PROVE  /\ UNCHANGED dagVars \/ Removes(current[h], u)
         /\ StoreTypeOK' /\ Older(node') /\ Ids' = Ids /\ Locals' = Locals
<1> DEFINE c == current[h]
<1>1. c \in Branches
  OBVIOUS
<1>2. nextNode' = nextNode /\ current' = current /\ alias' = alias
  BY DEF RemoveNode
<1>3. Ids' = Ids /\ Locals' = Locals /\ Rows' = Rows
  BY <1>2 DEF Ids, Locals, Rows
<1>4. StoreTypeOK /\ Older(node)
  BY DEF Sound, TypeOK
<1>5. CASE u \notin DOMAIN node
  <2>1. UNCHANGED dagVars
    BY <1>2, <1>5 DEF RemoveNode, dagVars
  <2> QED
    BY <1>3, <1>4, <2>1 DEF dagVars, StoreTypeOK
<1>6. CASE u \in DOMAIN node
  <2>1. /\ node' = [m \in DOMAIN node \ {u} |-> node[m]]
        /\ branch' = [branch EXCEPT ![c].head = node[u].parent]
    BY <1>6 DEF RemoveNode
  <2> HIDE DEF c
  <2>2. node[u].parent \in Ids
    BY <1>6, SoundStore
  <2>3. branch' \in [Branches -> Rows] /\ branch' \in Seq(Rows) /\ Len(branch') = Len(branch)
    <3>1. branch' \in [Branches -> Rows]
      BY <1>1, <2>1, <2>2, SoundStore DEF Rows
    <3> QED
      BY <3>1, SoundStore
  <2>4. /\ Branches' = Branches /\ branch'[c].head = node[u].parent
        /\ branch'[c].forked = branch[c].forked
        /\ \A b \in Branches \ {c} : branch'[b] = branch[b]
    BY <1>1, <2>1, <2>2, <2>3, SoundStore DEF Branches, Rows
  <2>5. StoreTypeOK'
    BY <1>2, <1>3, <1>4, <2>1, <2>3 DEF StoreTypeOK
  <2>6. Older(node')
    BY <1>4, <2>1 DEF Older
  <2>7. Removes(c, u)
    BY <1>2, <1>6, <2>1, <2>4 DEF Removes
  <2> QED
    BY <1>3, <2>5, <2>6, <2>7 DEF c
<1> QED
  BY <1>5, <1>6

\* A branch is opened, for handle h or for none.
OpensRow(row) ==
  /\ nextNode' = nextNode /\ node' = node /\ alias' = alias
  /\ Branches' = Branches \cup {Len(branch) + 1}
  /\ branch'[Len(branch) + 1] = row
  /\ \A b \in Branches : branch'[b] = branch[b]

LEMMA InsertEffect ==
  ASSUME Sound, NEW n \in Ids, NEW f \in Ids, InsertBranch(n, f),
         UNCHANGED <<node, nextNode, alias>>,
         current' = current \/ \E h \in Handles : current' = [current EXCEPT ![h] = Len(branch) + 1]
  PROVE  /\ OpensRow([head |-> n, forked |-> f])
         /\ StoreTypeOK' /\ Older(node') /\ Ids' = Ids /\ Locals' = Locals
<1> DEFINE row == [head |-> n, forked |-> f]
<1>1. StoreTypeOK /\ Ids' = Ids /\ Rows' = Rows /\ Locals' = Locals
  BY DEF Sound, TypeOK, Ids, Rows, Locals
<1>2. row \in Rows
  BY DEF Rows
<1>3. Len(branch) < MaxBranch /\ branch' = Append(branch, row)
  BY DEF InsertBranch
<1> HIDE DEF row
<1>4. branch \in Seq(Rows) /\ Len(branch) \in Nat /\ Branches = 1..Len(branch)
  BY SoundStore
<1>5. /\ branch' \in Seq(Rows) /\ Len(branch') = Len(branch) + 1
      /\ branch'[Len(branch) + 1] = row
      /\ \A b \in 1..Len(branch) : branch'[b] = branch[b]
  BY <1>2, <1>3, <1>4
<1>6. Branches' = Branches \cup {Len(branch) + 1}
  BY <1>4, <1>5 DEF Branches
<1>7. current' \in [Handles -> 0..Len(branch')] /\ current'[Main] # None
  BY <1>4, <1>5, SoundStore, DagAssumption DEF None
<1>8. StoreTypeOK'
  <2>1. Len(branch') \in 1..MaxBranch
    BY <1>3, <1>4, <1>5, DagAssumption
  <2> QED
    BY <1>1, <1>5, <1>7, <2>1 DEF StoreTypeOK
<1> QED
  BY <1>1, <1>4, <1>5, <1>6, <1>8 DEF OpensRow, row, Sound

----------------------------------------------------------------------------
\* What a step does to the locals of its loop.

\* They stay typed, and those of the other loops stay what they are.  The alias
\* picked is the next one, and the user message the one just written.
Own(l) ==
  /\ run' \in [Loops -> Locals'] /\ \A k \in Loops \ {l} : run'[k] = run[k]
  /\ run'[l].pc = "setAlias" => run'[l].autoAlias = Len(alias) + 1 /\ alias' = alias
  /\ \/ run'[l].userNode \in {run[l].userNode, None}
     \/ run'[l].userNode = nextNode /\ At(l, "addUser")

LEMMA OwnLocals ==
  ASSUME Sound, NEW l \in Loops, NEW r \in Locals', Locals \subseteq Locals',
         run' = [run EXCEPT ![l] = r],
         r.pc = "setAlias" => r.autoAlias = Len(alias) + 1 /\ alias' = alias,
         \/ r.userNode \in {run[l].userNode, None}
         \/ r.userNode = nextNode /\ At(l, "addUser")
  PROVE  Own(l) /\ run'[l] = r
<1>1. run \in [Loops -> Locals]
  BY SoundLocals
<1>2. run' \in [Loops -> Locals'] /\ run'[l] = r /\ \A k \in Loops \ {l} : run'[k] = run[k]
  BY <1>1
<1> QED
  BY <1>2 DEF Own

\* A step that leaves the store alone.
QuietStepOf(l) ==
  \/ ReadHead(l) \/ BeginTurn(l) \/ SkipCompaction(l) \/ EndCompaction(l) \/ StartEagerTool(l)
  \/ CallFails(l) \/ CallAnswers(l) \/ CancelRetry(l) \/ PickAlias(l) \/ Answered(l) \/ Stop(l)
  \/ InterruptTools(l) \/ ToolsDone(l) \/ Finish(l)

LEMMA QuietOwn ==
  ASSUME Sound, NEW l \in Loops, QuietStepOf(l)
  PROVE  Own(l) /\ Active(l) /\ UNCHANGED dagVars /\ Locals' = Locals
<1>1. Active(l) /\ UNCHANGED dagVars
  BY DEF QuietStepOf, ReadHead, BeginTurn, SkipCompaction, EndCompaction, StartEagerTool,
         CallFails, CallAnswers, CancelRetry, PickAlias, Answered, Stop, InterruptTools,
         ToolsDone, Finish, Active, At
<1>2. Locals' = Locals /\ alias' = alias
  BY <1>1 DEF dagVars, Locals, Ids
<1> SUFFICES Own(l)
  BY <1>1, <1>2
<1>3. run[l] \in Locals /\ run \in [Loops -> Locals]
  BY SoundLocals
<1>4. HeadNode(l) \in Ids /\ None \in Ids
  BY <1>1, ActiveBound, BoundBranch, SoundStore
<1>5. ASSUME NEW r \in Locals, run' = [run EXCEPT ![l] = r], r.userNode \in {run[l].userNode, None},
             r.pc = "setAlias" => r.autoAlias = Len(alias) + 1
      PROVE  Own(l)
  BY <1>2, <1>5, OwnLocals
<1>6. Idle \in Locals /\ Idle.userNode = None /\ Idle.pc = "idle"
  BY IdleTyped
<1>7. RetryOrFail(l) \in {"call", "failed"} /\ "call" \in Points /\ "failed" \in Points
  BY DEF RetryOrFail, Points
<1>9. run[l].eager + 1 \in Nat /\ run[l].attempt + 1 \in Nat
  BY <1>3 DEF Locals
<1>8. \A p \in AfterPrepare : p \in {"call", "exit"} /\ p \in Points
  BY DEF AfterPrepare, Points
<1>a. CASE ReadHead(l)
  <2> DEFINE r == [run[l] EXCEPT !.pc = "addUser", !.at = HeadNode(l)]
  <2>1. r \in Locals /\ r.pc = "addUser" /\ r.userNode = run[l].userNode
    BY <1>3, <1>4 DEF Locals, Points
  <2>2. run' = [run EXCEPT ![l] = r]
    BY <1>3, <1>a DEF ReadHead, Locals
  <2> HIDE DEF r
  <2> QED
    BY <1>5, <2>1, <2>2
<1>b. CASE BeginTurn(l)
  <2> DEFINE r == IF MaxTurns = 0 \/ run[l].turn < MaxTurns
                    THEN [run[l] EXCEPT !.pc = "prepare", !.at = HeadNode(l), !.sent = HeadNode(l),
                                        !.attempt = 0, !.llmErr = "none", !.resp = NoResp,
                                        !.eager = 0]
                    ELSE [run[l] EXCEPT !.pc = "exit"]
  <2>1. r \in Locals /\ r.pc \in {"prepare", "exit"} /\ r.userNode = run[l].userNode
    BY <1>3, <1>4 DEF Locals, Points
  <2>2. run' = [run EXCEPT ![l] = r]
    BY <1>3, <1>b DEF BeginTurn, Locals
  <2> HIDE DEF r
  <2> QED
    BY <1>5, <2>1, <2>2
<1>c. CASE SkipCompaction(l)
  <2>1. PICK p \in AfterPrepare : run' = [run EXCEPT ![l].pc = p]
    BY <1>c DEF SkipCompaction
  <2> DEFINE r == [run[l] EXCEPT !.pc = p]
  <2>2. r \in Locals /\ r.pc = p /\ r.userNode = run[l].userNode
    BY <1>3, <1>8 DEF Locals
  <2>3. run' = [run EXCEPT ![l] = r]
    BY <1>3, <2>1 DEF Locals
  <2> HIDE DEF r
  <2> QED
    BY <1>5, <1>8, <2>2, <2>3
<1>d. CASE EndCompaction(l)
  <2>1. CASE l \in Screens
    <3>1. run' = [run EXCEPT ![l] = Idle]
      BY <1>d, <2>1 DEF EndCompaction
    <3> QED
      BY <1>5, <1>6, <3>1
  <2>2. CASE l \notin Screens
    <3>1. PICK p \in AfterPrepare : run' = [run EXCEPT ![l].pc = p, ![l].sent = HeadNode(l)]
      BY <1>d, <2>2 DEF EndCompaction
    <3> DEFINE r == [run[l] EXCEPT !.pc = p, !.sent = HeadNode(l)]
    <3>2. r \in Locals /\ r.pc = p /\ r.userNode = run[l].userNode
      BY <1>3, <1>4, <1>8 DEF Locals
    <3>3. run' = [run EXCEPT ![l] = r]
      BY <1>3, <3>1 DEF Locals
    <3> HIDE DEF r
    <3> QED
      BY <1>5, <1>8, <3>2, <3>3
  <2> QED
    BY <2>1, <2>2
<1>e. CASE StartEagerTool(l)
  <2> DEFINE r == [run[l] EXCEPT !.eager = @ + 1]
  <2>1. r \in Locals /\ r.pc = "call" /\ r.userNode = run[l].userNode
    BY <1>3, <1>9, <1>e, ZenonT(40) DEF Locals, StartEagerTool, At
  <2>2. run' = [run EXCEPT ![l] = r]
    BY <1>3, <1>e DEF StartEagerTool, Locals
  <2> HIDE DEF r
  <2> QED
    BY <1>5, <2>1, <2>2
<1>f. CASE CallFails(l)
  <2>1. PICK err \in {"transient", "fatal"} :
          run' = [run EXCEPT ![l].llmErr = err, ![l].resp = NoResp,
                             ![l].attempt = @ + 1, ![l].eager = 0,
                             ![l].pc = IF err = "transient" THEN RetryOrFail(l) ELSE "failed"]
    BY <1>f DEF CallFails
  <2> DEFINE p == IF err = "transient" THEN RetryOrFail(l) ELSE "failed"
             r == [run[l] EXCEPT !.llmErr = err, !.resp = NoResp, !.attempt = @ + 1,
                                 !.eager = 0, !.pc = p]
  <2>2. p \in {"call", "failed"} /\ p \in Points
    BY <1>7
  <2>3. run' = [run EXCEPT ![l] = r]
    BY <1>3, <2>1 DEF Locals
  <2> HIDE DEF p
  <2>4. r \in Locals /\ r.pc = p /\ r.userNode = run[l].userNode
    BY <1>3, <1>9, <2>2, ZenonT(40) DEF Locals
  <2> HIDE DEF r
  <2> QED
    BY <1>5, <2>2, <2>3, <2>4
<1>g. CASE CallAnswers(l)
  <2>1. PICK a \in Responses :
          IF l \in Streaming \/ run[l].llmErr = "none"
            THEN run' = [run EXCEPT ![l].resp = a, ![l].llmErr = "none", ![l].pc = "answer"]
            ELSE run' = [run EXCEPT ![l].resp = a, ![l].attempt = @ + 1,
                                    ![l].pc = RetryOrFail(l)]
    BY <1>g DEF CallAnswers, Answers
  <2> DEFINE p == RetryOrFail(l)
             r == IF l \in Streaming \/ run[l].llmErr = "none"
                    THEN [run[l] EXCEPT !.resp = a, !.llmErr = "none", !.pc = "answer"]
                    ELSE [run[l] EXCEPT !.resp = a, !.attempt = @ + 1, !.pc = p]
  <2>2. run' = [run EXCEPT ![l] = r]
    BY <1>3, <2>1 DEF Locals
  <2>3. p \in {"call", "failed"} /\ p \in Points
    BY <1>7
  <2> HIDE DEF p
  <2>4. r \in Locals /\ r.pc \in {p, "answer"} /\ r.userNode = run[l].userNode
    BY <1>3, <1>9, <2>3, ZenonT(40) DEF Locals, Points
  <2> HIDE DEF r
  <2> QED
    BY <1>5, <2>2, <2>3, <2>4
<1>h. CASE CancelRetry(l)
  <2> DEFINE r == [run[l] EXCEPT !.llmErr = "fatal", !.pc = "failed"]
  <2>1. r \in Locals /\ r.pc = "failed" /\ r.userNode = run[l].userNode
    BY <1>3 DEF Locals, Points
  <2>2. run' = [run EXCEPT ![l] = r]
    BY <1>3, <1>h DEF CancelRetry, Locals
  <2> HIDE DEF r
  <2> QED
    BY <1>5, <2>1, <2>2
<1>i. CASE PickAlias(l)
  <2> DEFINE r == [run[l] EXCEPT !.pc = "setAlias", !.autoAlias = NextAutoAlias]
  <2>1. NextAutoAlias = Len(alias) + 1 /\ NextAutoAlias \in Nat
    BY DEF NextAutoAlias, Sound, TypeOK, StoreTypeOK
  <2>2. r \in Locals /\ r.autoAlias = Len(alias) + 1 /\ r.userNode = run[l].userNode
    BY <1>3, <2>1 DEF Locals, Points
  <2>3. run' = [run EXCEPT ![l] = r]
    BY <1>3, <1>i DEF PickAlias, Locals
  <2> HIDE DEF r
  <2> QED
    BY <1>5, <2>2, <2>3
<1>j. CASE Answered(l)
  <2> DEFINE r == [run[l] EXCEPT !.pc = IF run[l].resp.calls = 0 THEN "stop" ELSE "tools",
                                 !.conts = IF run[l].resp.truncated THEN @ ELSE 0]
  <2>1. r \in Locals /\ r.pc \in {"stop", "tools"} /\ r.userNode = run[l].userNode
    BY <1>3 DEF Locals, Points
  <2>2. run' = [run EXCEPT ![l] = r]
    BY <1>3, <1>j DEF Answered, Locals
  <2> HIDE DEF r
  <2> QED
    BY <1>5, <2>1, <2>2
<1>k. CASE Stop(l) \/ InterruptTools(l) \/ ToolsDone(l)
  <2>1. PICK p \in {"drain", "exit", "cut", "toolsDone"} : run' = [run EXCEPT ![l].pc = p]
    BY <1>k DEF Stop, InterruptTools, ToolsDone
  <2> DEFINE r == [run[l] EXCEPT !.pc = p]
  <2>2. r \in Locals /\ r.pc = p /\ r.userNode = run[l].userNode
    BY <1>3 DEF Locals, Points
  <2>3. run' = [run EXCEPT ![l] = r]
    BY <1>3, <2>1 DEF Locals
  <2> HIDE DEF r
  <2> QED
    BY <1>5, <2>2, <2>3
<1>l. CASE Finish(l)
  BY <1>5, <1>6, <1>l DEF Finish
<1> QED
  BY <1>1, <1>2, <1>a, <1>b, <1>c, <1>d, <1>e, <1>f, <1>g, <1>h, <1>i, <1>j, <1>k, <1>l
     DEF QuietStepOf

----------------------------------------------------------------------------
----------------------------------------------------------------------------
\* The messages a loop writes: the user's, those of a hook, a continuation or
\* steering, an answer, its thinking, a tool result, the summary of a compaction
\* and its copies.
Says(l, p, msg) ==
  \/ /\ run[l].pc \in {"answered", "stop", "drain", "cut", "toolsDone"}
     /\ p = HeadNode(l) /\ msg = Message("user", l)
  \/ At(l, "addUser") /\ p = run[l].at /\ msg = Message("user", l)
  \/ At(l, "answer") /\ p = run[l].at
     /\ msg = [Message("assistant", l) EXCEPT !.calls = run[l].resp.calls]
  \/ At(l, "thinking") /\ p = run[l].reply /\ msg = Message("thinking", l)
  \/ At(l, "tools") /\ p = HeadNode(l) /\ msg = ToolResult(l, run[l].done + 1)
  \/ At(l, "summary") /\ p = run[l].copyAt /\ msg = Message("assistant", l)
  \/ /\ At(l, "copy") /\ run[l].copies # <<>>
     /\ p = run[l].copyAt /\ msg = Head(run[l].copies)

SaysNode(l) == \E p, msg : Says(l, p, msg) /\ AddNode(HandleOf[l], p, msg)

LEMMA PlainMessage ==
  ASSUME Sound, NEW l \in Loops, NEW role \in Roles
  PROVE  /\ Message(role, l) \in Messages
         /\ Message(role, l).by = l /\ Message(role, l).id = nextNode
         /\ Message(role, l).role = role
<1>1. nextNode \in Nat
  BY SoundStore
<1> QED
  BY <1>1 DEF Message, Messages, None

LEMMA AnswerMessage ==
  ASSUME Sound, NEW l \in Loops
  PROVE  LET msg == [Message("assistant", l) EXCEPT !.calls = run[l].resp.calls]
         IN  msg \in Messages /\ msg.role = "assistant" /\ msg.by = l /\ msg.id = nextNode
<1>1. Message("assistant", l) \in Messages
  BY PlainMessage DEF Roles
<1>2. run[l].resp \in Responses \cup {NoResp} /\ MaxCalls \in Nat
  BY SoundLocals, LoopAssumption DEF Locals
<1>3. run[l].resp.calls \in Nat
  <2>1. CASE run[l].resp \in Responses
    <3>1. run[l].resp.calls \in 0..MaxCalls
      BY <2>1 DEF Responses
    <3> QED
      BY <1>2, <3>1
  <2>2. CASE run[l].resp = NoResp
    BY <2>2 DEF NoResp
  <2> QED
    BY <1>2, <2>1, <2>2
<1> QED
  BY <1>1, <1>3 DEF Message, Messages

LEMMA ResultMessage ==
  ASSUME Sound, NEW l \in Loops
  PROVE  LET msg == ToolResult(l, run[l].done + 1)
         IN  /\ msg \in Messages /\ msg.role = "tool" /\ msg.by = l /\ msg.id = nextNode
             /\ msg.for = run[l].reply /\ msg.call = run[l].done + 1
<1>1. run[l].done + 1 \in Nat /\ run[l].reply \in Nat
  BY SoundLocals, SoundStore, SMTT(20) DEF Locals
<1>2. Message("tool", l) \in Messages
  BY PlainMessage DEF Roles
<1> QED
  BY <1>1, <1>2 DEF ToolResult, Message, Messages

LEMMA ResultCalm ==
  ASSUME NEW l \in Loops, ToolResult(l, run[l].done + 1).calm = TRUE PROVE l \in Calm
  BY DEF ToolResult, Message

LEMMA SaysTyped ==
  ASSUME Sound, NEW l \in Loops, NEW p, NEW msg, Says(l, p, msg)
  PROVE  Active(l) /\ p \in Ids /\ msg \in Messages
<1>1. Active(l)
  BY DEF Says, Active, At
<1>2. HeadNode(l) \in Ids
  BY <1>1, ActiveBound, BoundBranch
<1>3. /\ run[l].at \in Ids /\ run[l].reply \in Ids /\ run[l].copyAt \in Ids
      /\ run[l].copies \in Seq(Messages)
  BY SoundLocals DEF Locals
<1>4. run[l].copies # <<>> => Head(run[l].copies) \in Messages
  BY <1>3
<1>5. \A role \in Roles : Message(role, l) \in Messages
  BY PlainMessage
<1>6. {"user", "assistant", "thinking", "tool"} \subseteq Roles
  BY DEF Roles
<1> QED
  BY <1>1, <1>2, <1>3, <1>4, <1>5, <1>6, AnswerMessage, ResultMessage DEF Says

LEMMA SaysEffect ==
  ASSUME Sound, NEW l \in Loops, NEW p, NEW msg, Says(l, p, msg), AddNode(HandleOf[l], p, msg)
  PROVE  /\ Adds(current[HandleOf[l]], p, msg)
         /\ StoreTypeOK' /\ Older(node')
         /\ Ids \subseteq Ids' /\ Locals \subseteq Locals' /\ nextNode \in Ids'
<1>1. Active(l) /\ p \in Ids /\ msg \in Messages
  BY SaysTyped
<1>2. HandleOf[l] \in Handles /\ current[HandleOf[l]] \in Branches
  BY <1>1, ActiveBound, BoundBranch
<1> QED
  BY <1>1, <1>2, AddEffect

WritingStepOf(l) ==
  \/ AddUser(l) \/ Answer(l) \/ StoreThinking(l) \/ Continue(l) \/ HookResumes(l) \/ Drain(l)
  \/ RunTool(l) \/ DrainCut(l) \/ AfterTools(l) \/ AddSummary(l) \/ CopyTail(l)

LEMMA WritingSays ==
  ASSUME NEW l \in Loops, WritingStepOf(l)
  PROVE  SaysNode(l) \/ UNCHANGED dagVars
  BY DEF WritingStepOf, AddUser, Answer, StoreThinking, Continue, HookResumes, Drain, DrainCut,
         RunTool, AfterTools, AddSummary, CopyTail, TakeSteering, AddAtHead, AddNodeBy, SaysNode,
         Says, At

LEMMA WritingOwn ==
  ASSUME Sound, NEW l \in Loops, WritingStepOf(l)
  PROVE  Own(l) /\ Active(l)
<1>1. Active(l)
  BY DEF WritingStepOf, AddUser, Answer, StoreThinking, Continue, HookResumes, Drain, DrainCut,
         RunTool, AfterTools, AddSummary, CopyTail, At, Active
<1>2. SaysNode(l) \/ UNCHANGED dagVars
  BY WritingSays
<1>3. Ids \subseteq Ids' /\ Locals \subseteq Locals' /\ (SaysNode(l) => nextNode \in Ids')
  <2>1. CASE SaysNode(l)
    BY <2>1, SaysEffect DEF SaysNode
  <2>2. CASE UNCHANGED dagVars
    <3>1. Ids' = Ids
      BY <2>2 DEF dagVars, Ids
    <3>2. SaysNode(l) => FALSE
      <4>1. \A p, msg : AddNode(HandleOf[l], p, msg) => nextNode' = nextNode + 1
        BY DEF AddNode, AddNodeTo
      <4>2. nextNode \in Nat /\ nextNode' = nextNode
        BY <2>2, SoundStore DEF dagVars
      <4> QED
        BY <4>1, <4>2 DEF SaysNode
    <3>3. Locals' = Locals
      BY <3>1 DEF Locals
    <3> QED
      BY <3>1, <3>2, <3>3
  <2> QED
    BY <1>2, <2>1, <2>2
<1>4. run \in [Loops -> Locals] /\ run[l] \in Locals /\ run[l] \in Locals'
  BY <1>3, SoundLocals
<1>5. ASSUME NEW r \in Locals', run' = [run EXCEPT ![l] = r], r.pc # "setAlias",
             \/ r.userNode = run[l].userNode
             \/ r.userNode = nextNode /\ At(l, "addUser")
      PROVE  Own(l)
  BY <1>3, <1>5, OwnLocals
<1> SUFFICES Own(l)
  BY <1>1
<1>6. /\ run[l].turn + 1 \in Nat /\ run[l].conts + 1 \in Nat /\ run[l].done + 1 \in Nat
      /\ run[l].copies # <<>> => Tail(run[l].copies) \in Seq(Messages)
  <2>1. run[l].turn \in Nat /\ run[l].conts \in Nat /\ run[l].done \in Nat /\ run[l].copies \in Seq(Messages)
    BY <1>4 DEF Locals
  <2> QED
    BY <2>1
<1>7. {"turn", "alias", "answered", "drain", "tools", "cut", "toolsDone", "copy"} \subseteq Points
  BY DEF Points
<1>a. CASE AddUser(l)
  <2> DEFINE r == [run[l] EXCEPT !.pc = "turn", !.userNode = nextNode]
  <2>1. nextNode \in Ids'
    <3>1. SaysNode(l)
      BY <1>a DEF AddUser, AddNodeBy, SaysNode, Says
    <3> QED
      BY <1>3, <3>1
  <2>2. r \in Locals' /\ r.pc = "turn" /\ r.userNode = nextNode
    BY <1>4, <1>7, <2>1 DEF Locals
  <2>3. run' = [run EXCEPT ![l] = r]
    BY <1>4, <1>a DEF AddUser, Locals
  <2> HIDE DEF r
  <2> QED
    BY <1>5, <1>a, <2>2, <2>3 DEF AddUser
<1>b. CASE Answer(l)
  <2> DEFINE r == [run[l] EXCEPT !.pc = "alias", !.reply = nextNode, !.done = 0]
  <2>1. nextNode \in Ids'
    <3>1. SaysNode(l)
      BY <1>b DEF Answer, AddNodeBy, SaysNode, Says
    <3> QED
      BY <1>3, <3>1
  <2>2. r \in Locals' /\ r.pc = "alias" /\ r.userNode = run[l].userNode
    BY <1>4, <1>7, <2>1 DEF Locals
  <2>3. run' = [run EXCEPT ![l] = r]
    BY <1>4, <1>b DEF Answer, Locals
  <2> HIDE DEF r
  <2> QED
    BY <1>5, <2>2, <2>3
<1>c. CASE AddSummary(l) \/ CopyTail(l)
  <2>1. nextNode \in Ids'
    <3>1. SaysNode(l)
      BY <1>c DEF AddSummary, CopyTail, AddNodeBy, SaysNode, Says
    <3> QED
      BY <1>3, <3>1
  <2>2. PICK c \in Seq(Messages) :
          run' = [run EXCEPT ![l].pc = "copy", ![l].copies = c, ![l].copyAt = nextNode]
    <3>1. CASE AddSummary(l)
      <4>1. run[l].copies \in Seq(Messages)
        BY <1>4 DEF Locals
      <4>2. run' = [run EXCEPT ![l].pc = "copy", ![l].copies = run[l].copies, ![l].copyAt = nextNode]
        BY <1>4, <3>1 DEF AddSummary, Locals
      <4> QED
        BY <4>1, <4>2
    <3>2. CASE CopyTail(l)
      <4>1. run' = [run EXCEPT ![l].pc = "copy", ![l].copies = Tail(run[l].copies), ![l].copyAt = nextNode]
        BY <1>4, <3>2 DEF CopyTail, Locals, At
      <4> QED
        BY <1>6, <3>2, <4>1 DEF CopyTail
    <3> QED
      BY <1>c, <3>1, <3>2
  <2> DEFINE r == [run[l] EXCEPT !.pc = "copy", !.copies = c, !.copyAt = nextNode]
  <2>3. r \in Locals' /\ r.pc = "copy" /\ r.userNode = run[l].userNode
    BY <1>4, <1>7, <2>1 DEF Locals
  <2>4. run' = [run EXCEPT ![l] = r]
    BY <1>4, <2>2 DEF Locals
  <2> HIDE DEF r
  <2> QED
    BY <1>5, <2>3, <2>4
<1>d. CASE StoreThinking(l) \/ AfterTools(l)
  <2>1. PICK p \in {"answered", "drain"} : run' = [run EXCEPT ![l].pc = p]
    BY <1>d DEF StoreThinking, AfterTools
  <2> DEFINE r == [run[l] EXCEPT !.pc = p]
  <2>2. r \in Locals' /\ r.pc = p /\ r.userNode = run[l].userNode
    BY <1>4, <1>7 DEF Locals
  <2>3. run' = [run EXCEPT ![l] = r]
    BY <1>4, <2>1 DEF Locals
  <2> HIDE DEF r
  <2> QED
    BY <1>5, <2>2, <2>3
<1>e. CASE Continue(l)
  <2> DEFINE r == [run[l] EXCEPT !.pc = "turn", !.turn = @ + 1, !.conts = @ + 1]
  <2>2. r \in Locals' /\ r.pc = "turn" /\ r.userNode = run[l].userNode
    BY <1>4, <1>6, <1>7, ZenonT(40) DEF Locals
  <2>3. run' = [run EXCEPT ![l] = r]
    BY <1>4, <1>e DEF Continue, Locals
  <2> HIDE DEF r
  <2> QED
    BY <1>5, <2>2, <2>3
<1>f. CASE run' = [run EXCEPT ![l].pc = "turn", ![l].turn = @ + 1]
  <2> DEFINE r == [run[l] EXCEPT !.pc = "turn", !.turn = @ + 1]
  <2>2. r \in Locals' /\ r.pc = "turn" /\ r.userNode = run[l].userNode
    BY <1>4, <1>6, <1>7, ZenonT(40) DEF Locals
  <2>3. run' = [run EXCEPT ![l] = r]
    BY <1>4, <1>f DEF Locals
  <2> HIDE DEF r
  <2> QED
    BY <1>5, <2>2, <2>3
<1>g. CASE run' = [run EXCEPT ![l].pc = "toolsDone"]
  <2> DEFINE r == [run[l] EXCEPT !.pc = "toolsDone"]
  <2>2. r \in Locals' /\ r.pc = "toolsDone" /\ r.userNode = run[l].userNode
    BY <1>4, <1>7 DEF Locals
  <2>3. run' = [run EXCEPT ![l] = r]
    BY <1>4, <1>g DEF Locals
  <2> HIDE DEF r
  <2> QED
    BY <1>5, <2>2, <2>3
<1>h. CASE TakeSteering(l) /\ run[l].pc \in {"drain", "cut"}
  <2>1. run' = [run EXCEPT ![l] = run[l]]
    BY <1>4, <1>h DEF TakeSteering
  <2> QED
    BY <1>4, <1>5, <1>h, <2>1
<1>i. CASE RunTool(l)
  <2> DEFINE r == [run[l] EXCEPT !.done = @ + 1]
  <2>2. r \in Locals' /\ r.pc = "tools" /\ r.userNode = run[l].userNode
    BY <1>4, <1>6, <1>i, ZenonT(40) DEF Locals, RunTool, At
  <2>3. run' = [run EXCEPT ![l] = r]
    BY <1>4, <1>i DEF RunTool, Locals
  <2> HIDE DEF r
  <2> QED
    BY <1>5, <2>2, <2>3
<1>j. CASE HookResumes(l) \/ Drain(l) \/ DrainCut(l)
  BY <1>f, <1>g, <1>h, <1>j DEF HookResumes, Drain, DrainCut, At
<1> QED
  BY <1>a, <1>b, <1>c, <1>d, <1>e, <1>i, <1>j DEF WritingStepOf

----------------------------------------------------------------------------
\* In a chain every message is followed by a reply to it, and the last one is the
\* message it is the chain of.
LEMMA ChainLinks ==
  ASSUME NEW table, Older(table)
  PROVE  \A n \in Nat :
           LET c == ChainOf(table, n) IN
           /\ n \in DOMAIN table => c # <<>> /\ c[Len(c)] = n
           /\ n \notin DOMAIN table => c = <<>>
           /\ \A i \in 2..Len(c) : table[c[i]].parent = c[i - 1]
<1> DEFINE Linked(c) == \A i \in 2..Len(c) : table[c[i]].parent = c[i - 1]
           Good(n) == /\ n \in DOMAIN table =>
                           ChainOf(table, n) # <<>> /\ ChainOf(table, n)[Len(ChainOf(table, n))] = n
                      /\ n \notin DOMAIN table => ChainOf(table, n) = <<>>
                      /\ Linked(ChainOf(table, n))
           S == {n \in Nat : Good(n)}
<1>1. ASSUME NEW n \in Nat, \A i \in 0..(n - 1) : i \in S PROVE n \in S
  <2>1. CASE n \in DOMAIN table
    <3> DEFINE p == table[n].parent
               c == ChainOf(table, p)
               d == ChainOf(table, n)
    <3>1. p \in 0..(n - 1) /\ p \in Nat
      BY <2>1 DEF Older
    <3>2. Good(p)
      BY <1>1, <3>1
    <3>3. d = Append(c, n)
      BY <2>1, ChainStep
    <3>4. c \in Seq(Nat)
      BY <3>1, ChainElements
    <3>5. Linked(c) /\ (c # <<>> => c[Len(c)] = p)
      BY <3>2
    <3> HIDE DEF c
    <3>6. Len(d) = Len(c) + 1 /\ d[Len(c) + 1] = n /\ \A i \in 1..Len(c) : d[i] = c[i]
      BY <3>3, <3>4
    <3>7. d # <<>> /\ d[Len(d)] = n
      BY <3>3, <3>4, <3>6
    <3>8. Len(c) \in Nat /\ (Len(c) >= 1 => c # <<>>)
      BY <3>4
    <3> HIDE DEF d
    <3>9. ASSUME NEW i \in 2..Len(d) PROVE table[d[i]].parent = d[i - 1]
      <4>1. CASE i = Len(c) + 1
        BY <3>5, <3>6, <3>8, <4>1
      <4>2. CASE i # Len(c) + 1
        <5>1. i \in 2..Len(c) /\ i - 1 \in 1..Len(c) /\ i \in 1..Len(c)
          BY <3>6, <3>8, <4>2
        <5> QED
          BY <3>5, <3>6, <5>1
      <4> QED
        BY <4>1, <4>2
    <3>10. Linked(d)
      BY <3>9
    <3> QED
      BY <2>1, <3>7, <3>10 DEF d
  <2>2. CASE n \notin DOMAIN table
    <3>1. ChainOf(table, n) = <<>>
      BY <2>2, ChainStep
    <3>2. Linked(<<>>)
      OBVIOUS
    <3> QED
      BY <2>2, <3>1, <3>2
  <2> QED
    BY <2>1, <2>2
<1>2. Nat \subseteq S
  <2> HIDE DEF S
  <2> QED BY <1>1, SetInduction
<1> QED
  BY <1>2

\* The conversation a compaction reads.
LEMMA SoundChain ==
  ASSUME Sound, NEW h \in Nat
  PROVE  LET chain == Ancestors(h) IN
         /\ chain \in Seq(Nat) /\ \A i \in 1..Len(chain) : chain[i] \in DOMAIN node
         /\ h \in DOMAIN node => chain # <<>> /\ chain[Len(chain)] = h
         /\ chain # <<>> => h \in DOMAIN node
         /\ \A i \in 2..Len(chain) : node[chain[i]].parent = chain[i - 1]
<1> DEFINE chain == ChainOf(node, h)
<1>1. Ancestors(h) = chain
  BY AncestorsChain
<1>2. Older(node)
  BY DEF Sound
<1>3. chain \in Seq(Nat) /\ Elements(chain) \subseteq DOMAIN node
  BY <1>2, ChainElements
<1>4. /\ h \in DOMAIN node => chain # <<>> /\ chain[Len(chain)] = h
      /\ h \notin DOMAIN node => chain = <<>>
      /\ \A i \in 2..Len(chain) : node[chain[i]].parent = chain[i - 1]
  BY <1>2, ChainLinks
<1> HIDE DEF chain
<1>5. \A i \in 1..Len(chain) : chain[i] \in DOMAIN node
  BY <1>3 DEF Elements
<1> QED
  BY <1>1, <1>3, <1>4, <1>5

\* The tail that is copied begins at the first message from KeepLastN before the
\* end on that is not a tool result.
LEMMA TailBegins ==
  ASSUME NEW chain \in Seq(Nat), Len(chain) > KeepLastN + 1
  PROVE  LET first == Len(chain) - KeepLastN + 1
             t == TailStart(chain)
         IN  /\ t \in first..(Len(chain) + 1) /\ t \in 2..(Len(chain) + 1)
             /\ t <= Len(chain) => ~IsTool(chain[t])
             /\ \A j \in first..(t - 1) : IsTool(chain[j])
             /\ first <= Len(chain)
<1> DEFINE first == Len(chain) - KeepLastN + 1
           T == {i \in first..(Len(chain) + 1) : i <= Len(chain) => ~IsTool(chain[i])}
           P(i) == /\ i <= Len(chain) => ~IsTool(chain[i])
                   /\ \A j \in first..(i - 1) : IsTool(chain[j])
<1>1. KeepLastN \in Nat \ {0} /\ Len(chain) \in Nat
  BY LoopAssumption
<1>2. first \in Nat /\ first > 2 /\ first <= Len(chain)
  BY <1>1
<1>3. T \subseteq Nat /\ Len(chain) + 1 \in T
  BY <1>1, <1>2
<1>4. PICK i \in T : \A j \in T : i <= j
  <2> HIDE DEF T
  <2> QED
    BY <1>3, LeastElement
<1>5. i \in first..(Len(chain) + 1) /\ P(i)
  <2>1. i \in first..(Len(chain) + 1) /\ i \in Nat /\ (i <= Len(chain) => ~IsTool(chain[i]))
    BY <1>2, <1>3, <1>4
  <2>2. ASSUME NEW j \in first..(i - 1) PROVE IsTool(chain[j])
    <3>1. j <= Len(chain) /\ j \in first..(Len(chain) + 1) /\ ~(i <= j)
      BY <1>1, <1>2, <2>1
    <3>2. j \notin T
      BY <1>4, <3>1
    <3> QED
      BY <3>1, <3>2
  <2> QED
    BY <2>1, <2>2
<1>6. TailStart(chain) = CHOOSE k \in first..(Len(chain) + 1) : P(k)
  BY DEF TailStart
<1> DEFINE t == CHOOSE k \in first..(Len(chain) + 1) : P(k)
<1>7. t \in first..(Len(chain) + 1) /\ P(t)
  <2> HIDE DEF first, P
  <2> QED
    BY <1>5
<1>8. t = TailStart(chain)
  BY <1>6
<1> HIDE DEF t
<1>9. t \in 2..(Len(chain) + 1)
  BY <1>1, <1>2, <1>7
<1> QED
  BY <1>2, <1>7, <1>8, <1>9

\* A copy of the messages of the tail.
CopiesOf(chain, t) ==
  LET tail == SubSeq(chain, t, Len(chain)) IN [i \in DOMAIN tail |-> node[tail[i]].msg]

LEMMA CopiesTyped ==
  ASSUME Sound, NEW chain \in Seq(Nat), NEW t \in 1..(Len(chain) + 1),
         \A i \in 1..Len(chain) : chain[i] \in DOMAIN node
  PROVE  LET c == CopiesOf(chain, t) IN
         /\ c \in Seq(Messages) /\ Len(c) = Len(chain) - t + 1
         /\ \A i \in 1..Len(c) : c[i] = node[chain[t + i - 1]].msg
<1> DEFINE tail == SubSeq(chain, t, Len(chain))
           n == Len(chain) - t + 1
<1>1. Len(chain) \in Nat /\ n \in Nat
  OBVIOUS
<1>2. DOMAIN tail = 1..n /\ \A i \in 1..n : tail[i] = chain[t + i - 1]
  BY <1>1
<1> HIDE DEF tail
<1>3. CopiesOf(chain, t) = [i \in 1..n |-> node[tail[i]].msg]
  BY <1>2 DEF CopiesOf, tail
<1>4. \A i \in 1..n : t + i - 1 \in 1..Len(chain)
  BY <1>1
<1>5. \A i \in 1..n : node[chain[t + i - 1]].msg \in Messages
  BY <1>4, SoundStore
<1> DEFINE c == CopiesOf(chain, t)
<1>6. c = [i \in 1..n |-> node[chain[t + i - 1]].msg]
  BY <1>2, <1>3
<1> HIDE DEF c
<1>7. c \in [1..n -> Messages]
  BY <1>5, <1>6
<1> HIDE DEF n
<1>8. c \in Seq(Messages) /\ Len(c) = n
  BY <1>1, <1>7
<1> QED
  BY <1>6, <1>8 DEF c, n

----------------------------------------------------------------------------
\* A loop, or the user, begins a compaction: the tail is read.
LEMMA ReadEffect ==
  ASSUME Sound, NEW l \in Loops, Bound(l), ReadTail(l)
  PROVE  LET chain == Ancestors(HeadNode(l))
             t     == TailStart(chain)
         IN  /\ Compaction /\ HeadNode(l) \in DOMAIN node
             /\ chain \in Seq(Nat) /\ Len(chain) > KeepLastN + 1
             /\ chain[1] \in DOMAIN node
             /\ UNCHANGED dagVars /\ Locals' = Locals
             /\ Own(l)
             /\ run'[l] = [run[l] EXCEPT !.pc = "summarise", !.copies = CopiesOf(chain, t),
                                         !.copyAt = chain[1]]
<1> DEFINE chain == Ancestors(HeadNode(l))
           t     == TailStart(chain)
<1>1. HeadNode(l) \in Ids
  BY BoundBranch
<1>2. /\ chain \in Seq(Nat) /\ \A i \in 1..Len(chain) : chain[i] \in DOMAIN node
      /\ chain # <<>> => HeadNode(l) \in DOMAIN node
  BY <1>1, SoundChain, SoundStore
<1>3. /\ Compaction /\ Len(chain) > KeepLastN + 1 /\ UNCHANGED dagVars
      /\ run' = [run EXCEPT ![l].pc = "summarise", ![l].copies = CopiesOf(chain, t),
                            ![l].copyAt = chain[1]]
  BY DEF ReadTail, CopiesOf
<1> HIDE DEF chain
<1>4. chain # <<>> /\ 1 \in 1..Len(chain)
  <2>1. Len(chain) > 0 /\ Len(chain) \in Nat
    BY <1>2, <1>3, LoopAssumption
  <2> QED
    BY <2>1
<1>5. chain[1] \in DOMAIN node /\ chain[1] \in Ids
  BY <1>2, <1>4, SoundStore
<1>6. t \in 1..(Len(chain) + 1)
  <2>1. t \in 2..(Len(chain) + 1)
    BY <1>2, <1>3, TailBegins
  <2> QED
    BY <2>1
<1> HIDE DEF t
<1> DEFINE c == CopiesOf(chain, t)
<1>7. c \in Seq(Messages)
  BY <1>2, <1>6, CopiesTyped
<1> HIDE DEF c
<1>9. Locals' = Locals
  BY <1>3 DEF dagVars, Locals, Ids
<1> DEFINE r == [run[l] EXCEPT !.pc = "summarise", !.copies = c, !.copyAt = chain[1]]
<1>10. r \in Locals /\ r.pc = "summarise" /\ r.userNode = run[l].userNode
  <2>1. run[l] \in Locals /\ "summarise" \in Points
    BY SoundLocals DEF Points
  <2> QED
    BY <1>5, <1>7, <2>1 DEF Locals
<1>11. run' = [run EXCEPT ![l] = r]
  BY <1>3, SoundLocals DEF Locals, c
<1> HIDE DEF r
<1>12. Own(l) /\ run'[l] = r
  BY <1>9, <1>10, <1>11, OwnLocals
<1> QED
  BY <1>2, <1>3, <1>4, <1>5, <1>9, <1>12 DEF chain, t, c, r

\* The branch of a compaction is opened.
LEMMA OpenEffect ==
  ASSUME Sound, NEW l \in Loops, OpenCompacted(l)
  PROVE  /\ OpensRow([head |-> run[l].copyAt, forked |-> run[l].copyAt])
         /\ current' = [current EXCEPT ![HandleOf[l]] = Len(branch) + 1]
         /\ StoreTypeOK' /\ Older(node') /\ Ids' = Ids /\ Locals' = Locals
         /\ Own(l) /\ Active(l)
         /\ run'[l] = [run[l] EXCEPT !.pc = "summary"]
<1>1. HandleOf[l] \in Handles /\ run[l] \in Locals /\ run[l].copyAt \in Ids
  BY LoopAssumption, SoundLocals DEF Locals
<1>2. Branch(HandleOf[l], run[l].copyAt) /\ run' = [run EXCEPT ![l].pc = "summary"]
  BY DEF OpenCompacted
<1> DEFINE n == run[l].copyAt
<1>3. /\ InsertBranch(n, n) /\ UNCHANGED <<node, nextNode, alias>>
      /\ current' = [current EXCEPT ![HandleOf[l]] = Len(branch) + 1]
  BY <1>2 DEF Branch
<1> HIDE DEF n
<1>4. /\ OpensRow([head |-> n, forked |-> n]) /\ StoreTypeOK' /\ Older(node')
      /\ Ids' = Ids /\ Locals' = Locals
  <2>1. n \in Ids
    BY <1>1 DEF n
  <2> QED
    BY <1>1, <1>3, <2>1, InsertEffect
<1> DEFINE r == [run[l] EXCEPT !.pc = "summary"]
<1>5. r \in Locals /\ r.pc = "summary" /\ r.userNode = run[l].userNode
  BY <1>1 DEF Locals, Points
<1>6. run' = [run EXCEPT ![l] = r]
  BY <1>1, <1>2 DEF Locals
<1> HIDE DEF r
<1>7. Own(l) /\ run'[l] = r
  BY <1>4, <1>5, <1>6, OwnLocals
<1>8. Active(l)
  BY DEF OpenCompacted, Active, At
<1> QED
  BY <1>3, <1>4, <1>7, <1>8 DEF n, r

\* The steps of a loop, by what they do to the store.
TakesUserBack(l) ==
  At(l, "failed") /\ run[l].turn = 0 /\ RemoveNode(HandleOf[l], run[l].userNode)

LEMMA Kinds ==
  ASSUME Sound, NEW l \in Loops, Step(l)
  PROVE  /\ Active(l)
         /\ \/ Own(l) /\ UNCHANGED dagVars
            \/ Own(l) /\ StoreAlias(l)
            \/ Own(l) /\ SaysNode(l)
            \/ Own(l) /\ TakesUserBack(l)
            \/ Compact(l)
            \/ OpenCompacted(l)
            \/ \E s \in Loops : Spawn(l, s)
<1>1. CASE QuietStepOf(l)
  BY <1>1, QuietOwn
<1>2. CASE WritingStepOf(l)
  BY <1>2, WritingOwn, WritingSays
<1>3. CASE Fail(l)
  <2>1. Active(l) /\ (TakesUserBack(l) \/ UNCHANGED dagVars)
    BY <1>3 DEF Fail, TakesUserBack, Active, At
  <2>2. nextNode' = nextNode
    BY <2>1 DEF TakesUserBack, RemoveNode, dagVars
  <2>3. Locals' = Locals
    BY <2>2 DEF Locals, Ids
  <2>4. Idle \in Locals /\ Idle.pc = "idle" /\ Idle.userNode = None
    BY IdleTyped
  <2>5. run' = [run EXCEPT ![l] = Idle]
    BY <1>3 DEF Fail
  <2>6. Own(l)
    BY <2>3, <2>4, <2>5, OwnLocals
  <2> QED
    BY <2>1, <2>6
<1>4. CASE StoreAlias(l)
  <2> DEFINE p == IF run[l].resp.thinks THEN "thinking" ELSE "answered"
             r == [run[l] EXCEPT !.pc = p]
  <2>1. Active(l) /\ nextNode' = nextNode
    BY <1>4 DEF StoreAlias, SetAlias, Active, At
  <2>2. Locals' = Locals
    BY <2>1 DEF Locals, Ids
  <2>3. p \in {"thinking", "answered"} /\ p \in Points
    BY DEF Points
  <2>4. run' = [run EXCEPT ![l] = r]
    BY <1>4, SoundLocals DEF StoreAlias, Locals
  <2> HIDE DEF p
  <2>5. r \in Locals /\ r.pc = p /\ r.userNode = run[l].userNode
    BY <2>3, SoundLocals DEF Locals
  <2> HIDE DEF r
  <2>6. Own(l)
    BY <2>2, <2>3, <2>4, <2>5, OwnLocals
  <2> QED
    BY <1>4, <2>1, <2>6
<1>5. CASE Compact(l)
  BY <1>5 DEF Compact, Active, At
<1>7. CASE OpenCompacted(l)
  BY <1>7 DEF OpenCompacted, Active, At
<1>6. ASSUME NEW s \in Loops, Spawn(l, s) PROVE Active(l)
  BY <1>6 DEF Spawn, ToolRuns, Active, At
<1> QED
  BY <1>1, <1>2, <1>3, <1>4, <1>5, <1>6, <1>7 DEF Step, QuietStepOf, WritingStepOf

----------------------------------------------------------------------------
\* The counters of the environment.
LEMMA EnvNext == ASSUME EnvTypeOK, [Next]_vars PROVE EnvTypeOK'
<1>1. CASE UNCHANGED envVars
  BY <1>1 DEF EnvTypeOK, envVars
<1>2. {MaxRuns, MaxSteering, MaxGiven, MaxCrash} \subseteq Nat
  BY LoopAssumption
<1>3. ASSUME NEW l \in Loops, UserInput(l) PROVE EnvTypeOK'
  <2>1. runs' \in 0..MaxRuns /\ disturbed' \subseteq Loops
    BY <1>2, <1>3 DEF UserInput, EnvTypeOK
  <2> QED
    BY <1>3, <2>1 DEF UserInput, EnvTypeOK
<1>4. ASSUME NEW l \in Loops, TakeSteering(l) PROVE EnvTypeOK'
  BY <1>4 DEF TakeSteering, EnvTypeOK
<1>5. ASSUME NEW l \in Loops, Step(l) PROVE EnvTypeOK'
  <2>1. TakeSteering(l) \/ UNCHANGED envVars
    BY <1>5 DEF Step, ReadHead, AddUser, BeginTurn, SkipCompaction, Compact, OpenCompacted,
       AddSummary, CopyTail, EndCompaction, StartEagerTool, CallFails, CallAnswers, CancelRetry,
       Fail, Answer, PickAlias, StoreAlias, StoreThinking, Continue, Answered, HookResumes, Stop,
       Drain, RunTool, Spawn, InterruptTools, DrainCut, ToolsDone, AfterTools, Finish, AddNodeBy
  <2> QED
    BY <1>1, <1>4, <2>1
<1>6. CASE Steer
  BY <1>2, <1>6 DEF Steer, EnvTypeOK
<1>7. CASE Crash
  BY <1>2, <1>7 DEF Crash, EnvTypeOK
<1>8. CASE New \/ Clear \/ Fork \/ Switch \/ CompactCommand
  <2>1. PICK c, ls : Give(c, ls)
    BY <1>8 DEF New, Clear, Fork, Switch, Command, CompactCommand
  <2>2. given' \in 0..MaxGiven
    BY <1>2, <2>1 DEF Give, EnvTypeOK
  <2>3. disturbed' \subseteq Loops
    <3>1. disturbed \subseteq Loops
      BY DEF EnvTypeOK
    <3>2. \A k : k \in disturbed' => k \in disturbed \/ k \in MainLoops \/ k \in Loops
      BY <1>8, <3>1 DEF New, Clear, Fork, Switch, Command, CompactCommand, Give, MainLoops
    <3> QED
      BY <3>1, <3>2 DEF MainLoops
  <2> QED
    BY <2>1, <2>2, <2>3 DEF Give, EnvTypeOK
<1>9. CASE UNCHANGED vars
  BY <1>1, <1>9 DEF vars, envVars
<1> QED
  BY <1>3, <1>5, <1>6, <1>7, <1>8, <1>9 DEF Next

\* The rows of the table are those of before.
RowsSame ==
  \A n \in DOMAIN node' : n \in Ids => n \in DOMAIN node /\ node'[n] = node[n]

\* What is left to show of a step.
LEMMA SoundClosing ==
  ASSUME Sound, StoreTypeOK', RunTypeOK', EnvTypeOK', Older(node'), RowsSame,
         AliasInRange',
         \A k \in Loops :
           \/ run'[k].userNode \in {run[k].userNode, None}
           \/ /\ node'[run'[k].userNode].msg.role = "user"
              /\ node'[run'[k].userNode].msg.by = k
  PROVE  Sound'
<1>1. ASSUME NEW k \in Loops, run'[k].userNode \in DOMAIN node'
      PROVE  /\ node'[run'[k].userNode].msg.role = "user"
             /\ node'[run'[k].userNode].msg.by = k
  <2>1. CASE run'[k].userNode = None
    BY <1>1, <2>1 DEF StoreTypeOK, None
  <2>2. CASE run'[k].userNode = run[k].userNode
    <3>1. run[k].userNode \in Ids
      BY SoundLocals DEF Locals
    <3> QED
      BY <1>1, <2>2, <3>1 DEF RowsSame, Sound, UserRows
  <2> QED
    BY <2>1, <2>2
<1> QED
  BY <1>1 DEF Sound, TypeOK, UserRows

\* The aliases a loop has picked stay in range while the table of aliases does not
\* shrink.
LEMMA AliasOwn ==
  ASSUME Sound, NEW l \in Loops, Own(l), alias' = alias PROVE AliasInRange'
<1>1. Len(alias) + 1 \in 1..(Len(alias) + 1)
  BY DEF Sound, TypeOK, StoreTypeOK
<1>2. ASSUME NEW k \in Loops, run'[k].pc = "setAlias"
      PROVE  run'[k].autoAlias \in 1..(Len(alias) + 1)
  BY <1>1, <1>2 DEF Own, Sound, AliasInRange, At
<1> QED
  BY <1>2 DEF AliasInRange, At

LEMMA AliasSame ==
  ASSUME Sound, alias' = alias,
         \A k \in Loops : run'[k] = run[k] \/ run'[k].pc # "setAlias"
  PROVE  AliasInRange'
  BY DEF Sound, AliasInRange, At

\* A step of a loop that keeps every handle open.
LEMMA SoundOwn ==
  ASSUME Sound, NEW l \in Loops, Active(l), Own(l), StoreTypeOK', Older(node'), EnvTypeOK', RowsSame,
         AliasInRange',
         \A h \in Handles : current[h] # None => current'[h] # None,
         \/ run'[l].userNode \in {run[l].userNode, None}
         \/ /\ node'[run'[l].userNode].msg.role = "user"
            /\ node'[run'[l].userNode].msg.by = l
  PROVE  Sound'
<1>1. RunTypeOK'
  <2>1. ASSUME NEW k \in Loops, run'[k].pc # "idle" PROVE current'[HandleOf[k]] # None
    <3>1. Active(k)
      BY <2>1 DEF Own, Active, At
    <3> QED
      BY <3>1, ActiveBound, BoundBranch DEF Bound
  <2> QED
    BY <2>1 DEF RunTypeOK, Own, At
<1>2. \A k \in Loops \ {l} : run'[k].userNode = run[k].userNode
  BY DEF Own
<1> QED
  BY <1>1, <1>2, SoundClosing

LEMMA SoundStep ==
  ASSUME Sound, EnvTypeOK', NEW l \in Loops, Step(l) PROVE Sound'
<1>1. Active(l) /\ HandleOf[l] \in Handles /\ current[HandleOf[l]] \in Branches
  BY Kinds, ActiveBound, BoundBranch
<1>2. CASE Own(l) /\ UNCHANGED dagVars
  <2>1. /\ StoreTypeOK' /\ Older(node') /\ RowsSame /\ alias' = alias /\ current' = current
        /\ nextNode' = nextNode
    BY <1>2 DEF dagVars, Sound, TypeOK, StoreTypeOK, Ids, Rows, RowsSame
  <2>2. run'[l].userNode \in {run[l].userNode, None}
    <3>1. CASE run'[l].userNode = nextNode
      <4>1. run'[l].userNode \in Ids'
        BY <1>2 DEF Own, Locals
      <4> QED
        BY <2>1, <3>1, <4>1, SoundStore DEF Ids
    <3> QED
      BY <1>2, <3>1 DEF Own
  <2> QED
    BY <1>1, <1>2, <2>1, <2>2, AliasOwn, SoundOwn
<1>3. CASE Own(l) /\ StoreAlias(l)
  <2>1. UNCHANGED <<node, nextNode, branch, current>> /\ ~At(l, "addUser")
    BY <1>3 DEF StoreAlias, SetAlias, At
  <2>2. alias' \in Seq(Ids) /\ Len(alias') >= Len(alias)
    <3> DEFINE k == run[l].autoAlias
               n == IF k > Len(alias) THEN k ELSE Len(alias)
    <3>1. Len(alias) \in Nat /\ alias \in [1..Len(alias) -> Ids]
      BY DEF Sound, TypeOK, StoreTypeOK
    <3>2. k \in 1..(Len(alias) + 1)
      BY <1>3 DEF StoreAlias, Sound, AliasInRange
    <3>3. run[l].reply \in Ids
      BY SoundLocals DEF Locals
    <3>4. n \in Nat /\ n >= Len(alias) /\ \A i \in 1..n : i = k \/ i \in 1..Len(alias)
      BY <3>1, <3>2
    <3>5. alias' = [i \in 1..n |-> IF i = k THEN run[l].reply ELSE alias[i]]
      BY <1>3 DEF StoreAlias, SetAlias
    <3> HIDE DEF k, n
    <3>6. alias' \in [1..n -> Ids]
      BY <3>1, <3>3, <3>4, <3>5
    <3> QED
      BY <3>4, <3>6
  <2>3. StoreTypeOK' /\ Older(node') /\ RowsSame
    BY <2>1, <2>2 DEF Sound, TypeOK, StoreTypeOK, Ids, Rows, RowsSame
  <2>4. AliasInRange'
    <3>1. Len(alias) \in Nat /\ Len(alias') \in Nat
      BY <2>2 DEF Sound, TypeOK, StoreTypeOK
    <3>2. ASSUME NEW k \in Loops, run'[k].pc = "setAlias"
          PROVE  run'[k].autoAlias \in 1..(Len(alias') + 1)
      <4>1. k # l
        BY <1>3, <3>2, SoundLocals DEF StoreAlias, Locals
      <4>2. run[k].autoAlias \in 1..(Len(alias) + 1)
        BY <1>3, <3>2, <4>1 DEF Own, Sound, AliasInRange, At
      <4>3. run'[k].autoAlias = run[k].autoAlias
        BY <1>3, <4>1 DEF Own
      <4> QED
        BY <2>2, <3>1, <4>2, <4>3
    <3> QED
      BY <3>2 DEF AliasInRange, At
  <2>5. run'[l].userNode \in {run[l].userNode, None}
    BY <1>3, <2>1 DEF Own
  <2> QED
    BY <1>1, <1>3, <2>1, <2>3, <2>4, <2>5, SoundOwn
<1>4. CASE Own(l) /\ SaysNode(l)
  <2>1. PICK p, msg : Says(l, p, msg) /\ AddNode(HandleOf[l], p, msg)
    BY <1>4 DEF SaysNode
  <2>2. Adds(current[HandleOf[l]], p, msg) /\ StoreTypeOK' /\ Older(node')
    BY <2>1, SaysEffect
  <2>3. RowsSame /\ alias' = alias /\ current' = current
    BY <2>2, SoundStore DEF Adds, RowsSame
  <2>4. \/ run'[l].userNode \in {run[l].userNode, None}
        \/ /\ node'[run'[l].userNode].msg.role = "user"
           /\ node'[run'[l].userNode].msg.by = l
    <3>1. CASE run'[l].userNode = nextNode /\ At(l, "addUser")
      <4>1. msg = Message("user", l)
        BY <2>1, <3>1 DEF Says, At
      <4>2. msg.role = "user" /\ msg.by = l
        BY <4>1 DEF Message
      <4> QED
        BY <2>2, <3>1, <4>2 DEF Adds
    <3> QED
      BY <1>4, <3>1 DEF Own
  <2> QED
    BY <1>1, <1>4, <2>2, <2>3, <2>4, AliasOwn, SoundOwn
<1>5. CASE Own(l) /\ TakesUserBack(l)
  <2>1. /\ UNCHANGED dagVars \/ Removes(current[HandleOf[l]], run[l].userNode)
        /\ StoreTypeOK' /\ Older(node')
    BY <1>1, <1>5, RemoveEffect DEF TakesUserBack
  <2>2. RowsSame /\ alias' = alias /\ current' = current
    BY <2>1 DEF Removes, RowsSame, dagVars
  <2>3. run'[l].userNode \in {run[l].userNode, None}
    BY <1>5 DEF Own, TakesUserBack, At
  <2> QED
    BY <1>1, <1>5, <2>1, <2>2, <2>3, AliasOwn, SoundOwn
<1>6. CASE Compact(l)
  <2>1. Own(l) /\ UNCHANGED dagVars
    BY <1>1, <1>6, ActiveBound, ReadEffect DEF Compact
  <2> QED
    BY <1>2, <2>1
<1>8. CASE OpenCompacted(l)
  <2> DEFINE row == [head |-> run[l].copyAt, forked |-> run[l].copyAt]
  <2>1. /\ OpensRow(row)
        /\ current' = [current EXCEPT ![HandleOf[l]] = Len(branch) + 1]
        /\ StoreTypeOK' /\ Older(node') /\ Own(l)
        /\ run'[l] = [run[l] EXCEPT !.pc = "summary"]
    BY <1>8, OpenEffect
  <2> HIDE DEF row
  <2>2. run'[l].userNode = run[l].userNode
    BY <2>1, SoundLocals DEF Locals
  <2>3. RowsSame /\ alias' = alias
    BY <2>1 DEF OpensRow, RowsSame
  <2>4. \A h \in Handles : current[h] # None => current'[h] # None
    BY <2>1, SoundStore DEF None
  <2> QED
    BY <1>1, <2>1, <2>2, <2>3, <2>4, AliasOwn, SoundOwn
<1>7. ASSUME NEW s \in Loops, Spawn(l, s) PROVE Sound'
  <2> DEFINE h == HeadNode(l)
             r == [Idle EXCEPT !.pc = "begin"]
  <2>1. /\ InsertBranch(h, h) /\ UNCHANGED <<node, nextNode, alias>>
        /\ \/ /\ current' = [current EXCEPT ![HandleOf[s]] = Len(branch) + 1]
              /\ run' = [run EXCEPT ![s] = r]
           \/ current' = current /\ run' = run
    BY <1>7 DEF Spawn, ForkFrom
  <2>2. h \in Ids /\ HandleOf[s] \in Handles
    BY <1>1, ActiveBound, BoundBranch, LoopAssumption
  <2>3. /\ r \in Locals /\ r.pc = "begin" /\ r.userNode = None
    BY IdleTyped DEF Locals, Points
  <2> HIDE DEF h, r
  <2>4. OpensRow([head |-> h, forked |-> h]) /\ StoreTypeOK' /\ Older(node') /\ Locals' = Locals
    BY <2>1, <2>2, InsertEffect
  <2>5. RowsSame
    BY <2>1 DEF RowsSame
  <2>6. run' \in [Loops -> Locals'] /\ \A k \in Loops : run'[k] = run[k] \/ (run'[k] = r /\ k = s /\ current'[HandleOf[s]] # None)
    BY <2>1, <2>2, <2>3, <2>4, SoundLocals, SoundStore DEF None
  <2>7. AliasInRange'
    BY <2>1, <2>3, <2>6, AliasSame
  <2>8. RunTypeOK'
    <3>1. \A g \in Handles : current[g] # None => current'[g] # None
      BY <2>1, <2>2, SoundStore DEF None
    <3>2. ASSUME NEW k \in Loops, run'[k].pc # "idle" PROVE current'[HandleOf[k]] # None
      <4>1. CASE run'[k] = run[k]
        BY <3>1, <3>2, <4>1, ActiveBound, BoundBranch DEF Active, At, Bound
      <4> QED
        BY <2>6, <4>1
    <3> QED
      BY <2>6, <3>2 DEF RunTypeOK, At
  <2>9. \A k \in Loops : run'[k].userNode \in {run[k].userNode, None}
    BY <2>3, <2>6
  <2> QED
    BY <2>4, <2>5, <2>7, <2>8, <2>9, SoundClosing
<1> QED
  BY <1>2, <1>3, <1>4, <1>5, <1>6, <1>7, <1>8, Kinds

\* A step that leaves the locals of every loop alone, or starts them again.
LEMMA SoundElse ==
  ASSUME Sound, EnvTypeOK', StoreTypeOK', Older(node'), RowsSame, alias' = alias, Locals' = Locals,
         run' \in [Loops -> Locals],
         \A k \in Loops : /\ run'[k] = run[k] \/ run'[k].pc # "setAlias"
                          /\ run'[k].pc # "idle" => current'[HandleOf[k]] # None
                          /\ run'[k].userNode \in {run[k].userNode, None}
  PROVE  Sound'
<1>1. AliasInRange'
  BY AliasSame
<1>2. RunTypeOK'
  BY DEF RunTypeOK, At
<1> QED
  BY <1>1, <1>2, SoundClosing

LEMMA SoundUser ==
  ASSUME Sound, EnvTypeOK', New \/ Clear \/ Fork \/ Switch PROVE Sound'
<1>1. run' = run /\ Main \in Handles /\ current[Main] \in Branches /\ HeadOf(Main) \in Ids
  <2>1. Main \in Handles /\ current[Main] \in Branches
    BY SoundStore, DagAssumption DEF None
  <2>2. HeadOf(Main) \in Ids
    BY <2>1, BranchRows DEF HeadOf, Sound, TypeOK
  <2> QED
    BY <2>1, <2>2 DEF New, Clear, Fork, Switch, Command
<1>2. ASSUME StoreTypeOK', Older(node'), node' = node, nextNode' = nextNode, alias' = alias,
             \A h \in Handles : current[h] # None => current'[h] # None
      PROVE  Sound'
  <2>1. Locals' = Locals /\ RowsSame
    BY <1>2 DEF Locals, Ids, RowsSame
  <2>2. ASSUME NEW k \in Loops, run'[k].pc # "idle" PROVE current'[HandleOf[k]] # None
    BY <1>1, <1>2, <2>2, ActiveBound, BoundBranch DEF Active, At, Bound
  <2> QED
    BY <1>1, <1>2, <2>1, <2>2, SoundElse, SoundLocals DEF Sound, TypeOK, RunTypeOK
<1>3. CASE New \/ Fork
  <2>1. PICK n \in Ids, f \in Ids :
          /\ InsertBranch(n, f) /\ UNCHANGED <<node, nextNode, alias>>
          /\ current' = [current EXCEPT ![Main] = Len(branch) + 1]
    BY <1>1, <1>3, SoundStore DEF New, NewBranch, Fork, Branch
  <2>2. StoreTypeOK' /\ Older(node')
    BY <1>1, <2>1, InsertEffect
  <2>3. \A h \in Handles : current[h] # None => current'[h] # None
    BY <2>1, SoundStore DEF None
  <2> QED
    BY <1>2, <2>1, <2>2, <2>3
<1>4. CASE Switch
  <2>1. PICK b \in Branches : SwitchBranch(Main, b)
    BY <1>4 DEF Switch
  <2>2. /\ UNCHANGED <<node, nextNode, branch, alias>>
        /\ current' = [current EXCEPT ![Main] = b]
    BY <2>1 DEF SwitchBranch
  <2>3. /\ current' \in [Handles -> 0..Len(branch)] /\ current'[Main] # None
        /\ \A h \in Handles : current[h] # None => current'[h] # None
    BY <2>2, SoundStore, DagAssumption DEF None
  <2>4. StoreTypeOK' /\ Older(node')
    BY <2>2, <2>3 DEF Sound, TypeOK, StoreTypeOK, Ids, Rows
  <2> QED
    BY <1>2, <2>2, <2>3, <2>4
<1>5. CASE Clear
  <2>1. /\ UNCHANGED <<node, nextNode, current, alias>>
        /\ branch' = [branch EXCEPT ![current[Main]].head = None]
    BY <1>5 DEF Clear, ResetHead
  <2>2. branch' \in Seq(Rows) /\ Len(branch') = Len(branch)
    <3>1. branch' \in [Branches -> Rows]
      BY <1>1, <2>1, SoundStore DEF Rows
    <3> QED
      BY <3>1, SoundStore
  <2>3. StoreTypeOK' /\ Older(node')
    BY <2>1, <2>2 DEF Sound, TypeOK, StoreTypeOK, Ids, Rows
  <2> QED
    BY <1>2, <2>1, <2>3
<1> QED
  BY <1>3, <1>4, <1>5

LEMMA SoundNext == ASSUME Sound, [Next]_vars PROVE Sound'
<1>1. EnvTypeOK'
  BY EnvNext DEF Sound, TypeOK
<1>2. Idle \in Locals /\ Idle.pc = "idle" /\ Idle.userNode = None
  BY IdleTyped
<1>3. ASSUME UNCHANGED dagVars
      PROVE  /\ StoreTypeOK' /\ Older(node') /\ RowsSame /\ alias' = alias /\ Locals' = Locals
             /\ current' = current
  BY <1>3 DEF dagVars, Sound, TypeOK, StoreTypeOK, Ids, Rows, RowsSame, Locals
<1>4. CASE UNCHANGED vars \/ Steer
  <2>1. UNCHANGED dagVars /\ run' = run
    BY <1>4 DEF vars, Steer
  <2>2. \A k \in Loops : run'[k].pc # "idle" => current'[HandleOf[k]] # None
    BY <1>3, <2>1, ActiveBound DEF Active, At, Bound
  <2> QED
    BY <1>1, <1>3, <2>1, <2>2, SoundElse DEF Sound, TypeOK, RunTypeOK
<1>5. ASSUME NEW l \in Loops, UserInput(l) PROVE Sound'
  <2>1. PICK r \in Locals : /\ run' = [run EXCEPT ![l] = r] /\ r.pc \in {"begin", "idle"}
                            /\ r.userNode \in {run[l].userNode, None}
    <3>1. [Idle EXCEPT !.pc = "begin"] \in Locals
      BY <1>2 DEF Locals, Points
    <3>2. [Idle EXCEPT !.pc = "begin"].pc = "begin" /\ [Idle EXCEPT !.pc = "begin"].userNode = None
      BY <1>2 DEF Locals
    <3>3. run = [run EXCEPT ![l] = run[l]] /\ run[l] \in Locals
      BY SoundLocals
    <3>4. run' = [run EXCEPT ![l] = [Idle EXCEPT !.pc = "begin"]] \/ run' = run
      BY <1>5 DEF UserInput
    <3>5. run[l].pc = "idle"
      BY <1>5 DEF UserInput, At
    <3> QED
      BY <3>1, <3>2, <3>3, <3>4, <3>5
  <2>2. UNCHANGED dagVars /\ current[HandleOf[l]] # None
    BY <1>5, MainBound DEF UserInput, Bound
  <2>3. run' \in [Loops -> Locals] /\ run'[l] = r /\ \A k \in Loops \ {l} : run'[k] = run[k]
    BY <2>1, SoundLocals
  <2>4. \A k \in Loops : /\ run'[k] = run[k] \/ run'[k].pc # "setAlias"
                         /\ run'[k].pc # "idle" => current'[HandleOf[k]] # None
                         /\ run'[k].userNode \in {run[k].userNode, None}
    BY <1>3, <2>1, <2>2, <2>3, ActiveBound DEF Active, At, Bound
  <2> QED
    BY <1>1, <1>3, <2>2, <2>3, <2>4, SoundElse
<1>6. CASE CompactCommand
  <2>1. PICK l \in Screens : ReadTail(l)
    BY <1>6 DEF CompactCommand
  <2>2. l \in Loops /\ Bound(l)
    BY ScreenBound
  <2>3. UNCHANGED dagVars /\ Own(l) /\ Locals' = Locals
    BY <2>1, <2>2, ReadEffect
  <2>4. run'[l].pc # "setAlias" /\ run'[l].userNode \in {run[l].userNode, None}
    <3>1. run'[l] = [run[l] EXCEPT !.pc = "summarise",
                       !.copies = CopiesOf(Ancestors(HeadNode(l)), TailStart(Ancestors(HeadNode(l)))),
                       !.copyAt = Ancestors(HeadNode(l))[1]]
      BY <2>1, <2>2, ReadEffect
    <3> QED
      BY <2>2, <3>1, SoundLocals DEF Locals
  <2>5. \A k \in Loops : /\ run'[k] = run[k] \/ run'[k].pc # "setAlias"
                         /\ run'[k].pc # "idle" => current'[HandleOf[k]] # None
                         /\ run'[k].userNode \in {run[k].userNode, None}
    <3>1. \A k \in Loops \ {l} : run'[k] = run[k]
      BY <2>3 DEF Own
    <3>2. current' = current
      BY <2>3 DEF dagVars
    <3> QED
      BY <2>2, <2>4, <3>1, <3>2, ActiveBound DEF Active, At, Bound
  <2> QED
    BY <1>1, <1>3, <2>3, <2>5, SoundElse DEF Own
<1>7. CASE Crash
  <2>1. PICK b \in Branches : Reopen(b)
    BY <1>7 DEF Crash
  <2>2. /\ UNCHANGED <<node, nextNode, branch, alias>>
        /\ current' = [h \in Handles |-> IF h = Main THEN b ELSE None]
    BY <2>1 DEF Reopen
  <2>3. current' \in [Handles -> 0..Len(branch)] /\ current'[Main] # None
    BY <2>2, SoundStore, DagAssumption DEF None
  <2>4. StoreTypeOK' /\ Older(node') /\ RowsSame /\ Locals' = Locals
    BY <2>2, <2>3 DEF Sound, TypeOK, StoreTypeOK, Ids, Rows, RowsSame, Locals
  <2>5. run' = [l \in Loops |-> Idle]
    BY <1>7 DEF Crash
  <2> QED
    BY <1>1, <1>2, <2>2, <2>4, <2>5, SoundElse
<1> QED
  BY <1>1, <1>4, <1>5, <1>6, <1>7, SoundStep, SoundUser DEF Next

LEMMA SoundInit == Init => Sound
<1> SUFFICES ASSUME Init PROVE Sound
  OBVIOUS
<1>1. /\ node = [n \in {} |-> None] /\ nextNode = 1
      /\ branch = <<[head |-> None, forked |-> None]>>
      /\ current = [h \in Handles |-> IF h = Main THEN 1 ELSE None]
      /\ alias = <<>>
      /\ run = [l \in Loops |-> Idle]
  BY DEF Init, DagInit
<1>2. Len(branch) = 1
  BY <1>1
<1>3. 0 \in Ids /\ DOMAIN node = {}
  BY <1>1 DEF Ids
<1>4. branch \in Seq(Rows)
  BY <1>1, <1>3 DEF Rows, None
<1>5. StoreTypeOK
  <2>1. alias \in Seq(Ids)
    BY <1>1
  <2>2. current \in [Handles -> 0..1] /\ current[Main] = 1
    BY <1>1, DagAssumption DEF None
  <2> QED
    BY <1>1, <1>2, <1>3, <1>4, <2>1, <2>2, DagAssumption DEF StoreTypeOK, None
<1>6. Idle \in Locals /\ Idle.pc = "idle"
  <2>1. <<>> \in Seq(Messages)
    OBVIOUS
  <2> QED
    BY <1>3, <2>1 DEF Idle, Locals, None, Points
<1>7. RunTypeOK
  BY <1>1, <1>6 DEF RunTypeOK, At
<1>8. EnvTypeOK
  BY LoopAssumption DEF Init, EnvTypeOK
<1>9. AliasInRange /\ Older(node) /\ UserRows
  BY <1>1, <1>6 DEF AliasInRange, Older, UserRows, At
<1> QED
  BY <1>5, <1>7, <1>8, <1>9 DEF Sound, TypeOK

LEMMA Soundness == Spec => []Sound
  BY SoundInit, SoundNext, PTL DEF Spec

\* The tables, the locals of every loop and the counters have their types: no
\* loop runs on a handle that is not open, and no row refers to one that was
\* never inserted (loop.go:141-445, dag.go:155-336).
THEOREM TypeCorrect == Spec => []TypeOK
  BY Soundness, PTL DEF Sound

----------------------------------------------------------------------------
\* The branches of the runs in progress.

\* Every loop that runs has a handle of its own.  With two of them on a handle
\* HeadKept is false: both read the same head.
OwnHandles == \A k, l \in Loops \ Screens : HandleOf[k] = HandleOf[l] => k = l

LEMMA CalmLoops == Calm \subseteq Loops \ Screens /\ Calm' \subseteq Loops \ Screens
  BY DEF Calm

\* The steps of a loop disturb nobody.
LEMMA StepCalm == ASSUME NEW l \in Loops, Step(l) PROVE disturbed' = disturbed /\ Calm' = Calm
<1>1. CASE TakeSteering(l)
  BY <1>1 DEF TakeSteering, Calm
<1>2. TakeSteering(l) \/ UNCHANGED envVars
  BY DEF Step, ReadHead, AddUser, BeginTurn, SkipCompaction, Compact, OpenCompacted,
     AddSummary, CopyTail, EndCompaction, StartEagerTool, CallFails, CallAnswers, CancelRetry,
     Fail, Answer, PickAlias, StoreAlias, StoreThinking, Continue, Answered, HookResumes, Stop,
     Drain, RunTool, Spawn, InterruptTools, DrainCut, ToolsDone, AfterTools, Finish, AddNodeBy
<1> QED
  BY <1>1, <1>2 DEF envVars, Calm

\* A run that was in progress and is not disturbed now was not disturbed before.
LEMMA CalmStays ==
  ASSUME [Next]_vars, NEW k \in Loops, k \in Calm', Active(k), ~Crash
  PROVE  k \in Calm
<1>1. CASE \E l \in Loops : UserInput(l)
  BY <1>1 DEF UserInput, Calm, Active, At
<1>3. CASE \E l \in Loops : Step(l)
  BY <1>3, StepCalm
<1>4. CASE New \/ Clear \/ Fork \/ Switch \/ CompactCommand
  BY <1>4 DEF New, Clear, Fork, Switch, CompactCommand, Command, Give, Calm
<1>5. CASE Steer \/ UNCHANGED vars
  BY <1>5 DEF Steer, vars, envVars, Calm
<1> QED
  BY <1>1, <1>3, <1>4, <1>5 DEF Next

\* A command disturbs the runs on the handle of the main agent.
LEMMA CommandCalm ==
  ASSUME Sound, BranchesApart, New \/ Clear \/ Fork \/ Switch \/ CompactCommand,
         NEW k \in Loops, k \in Calm', Active(k)
  PROVE  /\ k \in Calm /\ HandleOf[k] # Main /\ current[HandleOf[k]] # current[Main]
         /\ \A b : (Switch /\ SwitchBranch(Main, b) /\ current'[Main] = b) =>
                     current[HandleOf[k]] # b
         /\ \A j \in Screens : At(j, "idle")
<1>1. PICK c, ls : Give(c, ls)
  BY DEF New, Clear, Fork, Switch, Command, CompactCommand
<1>2. k \in Calm /\ k \notin MainLoops
  BY <1>1 DEF Give, Calm, Active
<1>3. HandleOf[k] # Main
  BY <1>2 DEF MainLoops, Calm
<1>4. current[HandleOf[k]] # current[Main]
  BY <1>2, <1>3 DEF BranchesApart, Active
<1>5. \A j \in Screens : At(j, "idle")
  BY <1>1 DEF Give, ScreenFree
<1>6. ASSUME NEW b, Switch, current'[Main] = b PROVE current[HandleOf[k]] # b
  <2>1. PICK d \in Branches :
          /\ Give("switch", {l \in Loops : current[HandleOf[l]] = d})
          /\ SwitchBranch(Main, d)
    BY <1>6 DEF Switch, Command
  <2>2. current'[Main] = d
    BY <2>1, SoundStore, DagAssumption DEF SwitchBranch
  <2>3. current[HandleOf[k]] # d
    BY <2>1 DEF Give, Calm, Active
  <2> QED
    BY <1>6, <2>2, <2>3
<1> QED
  BY <1>2, <1>3, <1>4, <1>5, <1>6

\* A handle moves to a branch that no handle was on.
LEMMA MovesApart ==
  ASSUME Sound, BranchesApart, NEW h \in Handles,
         current' = [current EXCEPT ![h] = Len(branch) + 1],
         \A k \in Loops : Active(k)' => Active(k) \/ HandleOf[k] = h,
         \A k \in Loops : k \in Calm' /\ Active(k)' =>
           \/ k \in Calm /\ Active(k) /\ HandleOf[k] # h
           \/ HandleOf[k] = h /\ \A j \in Loops \ {k} : Active(j)' => HandleOf[j] # h
  PROVE  BranchesApart'
<1> DEFINE b == Len(branch) + 1
<1>1. /\ \A g \in Handles : current[g] # b
      /\ \A k \in Loops : HandleOf[k] \in Handles
      /\ Main \in Handles
  BY SoundStore, LoopAssumption, DagAssumption
<1>2. current'[h] = b /\ \A g \in Handles \ {h} : current'[g] = current[g]
  BY <1>1, SoundStore
<1> HIDE DEF b
<1>3. ASSUME NEW k \in Loops, k \in Calm', Active(k)'
      PROVE  /\ HandleOf[k] # Main => current'[HandleOf[k]] # current'[Main]
             /\ \A j \in Loops \ {k} :
                  Active(j)' => current'[HandleOf[j]] # current'[HandleOf[k]]
  <2>1. CASE k \in Calm /\ Active(k) /\ HandleOf[k] # h
    <3>1. HandleOf[k] # Main => current[HandleOf[k]] # current[Main]
      BY <2>1 DEF BranchesApart, Active
    <3>2. \A j \in Loops \ {k} : Active(j) => current[HandleOf[j]] # current[HandleOf[k]]
      BY <2>1 DEF BranchesApart, Active, Shared
    <3> QED
      BY <1>1, <1>2, <2>1, <3>1, <3>2
  <2>2. CASE HandleOf[k] = h /\ \A j \in Loops \ {k} : Active(j)' => HandleOf[j] # h
    BY <1>1, <1>2, <2>2
  <2> QED
    BY <1>3, <2>1, <2>2
<1> QED
  BY <1>3, CalmLoops DEF BranchesApart, Shared, Active

\* No handle moves, and no run begins.
LEMMA StillApart ==
  ASSUME BranchesApart, current' = current,
         \A k \in Loops : Active(k)' => Active(k),
         \A k \in Loops : k \in Calm' /\ Active(k)' => k \in Calm
  PROVE  BranchesApart'
  BY CalmLoops DEF BranchesApart, Shared, Active, At

LEMMA ApartStep ==
  ASSUME Sound, BranchesApart, NEW l \in Loops, Step(l) PROVE BranchesApart'
<1>1. Active(l) /\ HandleOf[l] \in Handles /\ current[HandleOf[l]] \in Branches
  BY Kinds, ActiveBound, BoundBranch
<1>0. Calm' = Calm
  BY StepCalm
<1>2. ASSUME Own(l), current' = current PROVE BranchesApart'
  <2>1. \A k \in Loops : Active(k)' => Active(k)
    BY <1>1, <1>2 DEF Own, Active, At
  <2> QED
    BY <1>0, <1>2, <2>1, StillApart
<1>3. CASE Own(l) /\ UNCHANGED dagVars
  BY <1>2, <1>3 DEF dagVars
<1>4. CASE Own(l) /\ StoreAlias(l)
  BY <1>2, <1>4 DEF StoreAlias, SetAlias
<1>5. CASE Own(l) /\ SaysNode(l)
  BY <1>2, <1>5 DEF SaysNode, AddNode
<1>6. CASE Own(l) /\ TakesUserBack(l)
  BY <1>2, <1>6 DEF TakesUserBack, RemoveNode
<1>7. CASE Compact(l)
  <2>1. Own(l) /\ UNCHANGED dagVars
    BY <1>1, <1>7, ActiveBound, ReadEffect DEF Compact
  <2> QED
    BY <1>2, <2>1 DEF dagVars
<1>9. CASE OpenCompacted(l)
  <2>1. current' = [current EXCEPT ![HandleOf[l]] = Len(branch) + 1] /\ Own(l)
    BY <1>9, OpenEffect
  <2>2. \A k \in Loops : Active(k)' => Active(k)
    BY <1>1, <2>1 DEF Own, Active, At
  <2>3. ASSUME NEW k \in Loops, k \in Calm', Active(k)'
        PROVE  \/ k \in Calm /\ Active(k) /\ HandleOf[k] # HandleOf[l]
               \/ HandleOf[k] = HandleOf[l]
                  /\ \A j \in Loops \ {k} : Active(j)' => HandleOf[j] # HandleOf[l]
    <3>1. k \in Calm /\ Active(k)
      BY <1>0, <2>2, <2>3
    <3>2. \A j \in Loops \ {k} : Active(j) => HandleOf[j] # HandleOf[k]
      BY <3>1 DEF BranchesApart, Active, Shared
    <3> QED
      BY <1>1, <2>2, <3>1, <3>2
  <2> QED
    BY <1>1, <2>1, <2>2, <2>3, MovesApart
<1>8. ASSUME NEW s \in Loops, Spawn(l, s) PROVE BranchesApart'
  <2>0. HandleOf[s] \in Handles /\ \A j \in Loops : Active(j) => HandleOf[j] # HandleOf[s]
    BY <1>8, ActiveBound, LoopAssumption DEF Spawn, Bound
  <2>1. CASE current' = [current EXCEPT ![HandleOf[s]] = Len(branch) + 1]
             /\ run' = [run EXCEPT ![s] = [Idle EXCEPT !.pc = "begin"]]
    <3>1. \A k \in Loops \ {s} : run'[k] = run[k]
      BY <2>1, SoundLocals
    <3>2. \A k \in Loops \ {s} : Active(k)' => Active(k)
      BY <3>1 DEF Active, At
    <3>3. ASSUME NEW k \in Loops, k \in Calm', Active(k)'
          PROVE  \/ k \in Calm /\ Active(k) /\ HandleOf[k] # HandleOf[s]
                 \/ HandleOf[k] = HandleOf[s]
                    /\ \A j \in Loops \ {k} : Active(j)' => HandleOf[j] # HandleOf[s]
      BY <1>0, <2>0, <3>2, <3>3
    <3> QED
      BY <2>0, <2>1, <3>2, <3>3, MovesApart
  <2>2. CASE current' = current /\ run' = run
    BY <1>0, <2>2, StillApart DEF Active, At
  <2> QED
    BY <1>8, <2>1, <2>2 DEF Spawn, ForkFrom
<1> QED
  BY <1>3, <1>4, <1>5, <1>6, <1>7, <1>8, <1>9, Kinds

LEMMA ApartNext ==
  ASSUME OwnHandles, Sound, BranchesApart, [Next]_vars PROVE BranchesApart'
<1>1. ASSUME ~Crash, current' = current, \A k \in Loops : Active(k)' => Active(k)
      PROVE  BranchesApart'
  BY <1>1, StillApart, CalmStays
<1>2. CASE (Steer \/ Clear \/ UNCHANGED vars) /\ ~Crash
  BY <1>1, <1>2 DEF Steer, Clear, Command, ResetHead, vars, dagVars, Active, At
<1>3. ASSUME NEW l \in Loops, UserInput(l), ~Crash PROVE BranchesApart'
  <2>0. CASE run' = run
    BY <1>1, <1>3, <2>0 DEF UserInput, dagVars, Active, At
  <2>1. /\ HandleOf[l] = Main /\ l \notin Screens /\ current' = current /\ ~Active(l)
        /\ \A k \in Loops \ {l} : run'[k] = run[k]
        /\ \A k \in Screens : ~Active(k)
    BY <1>3, SoundLocals DEF UserInput, MainLoops, dagVars, Active, ScreenFree
  <2>2. \A k \in Loops \ {l} : Active(k) => HandleOf[k] # Main
    BY <2>1 DEF OwnHandles
  <2>3. \A k \in Loops \ {l} : Active(k)' <=> Active(k)
    BY <2>1 DEF Active, At
  <2>4. ASSUME NEW k \in Loops \ {l}, k \in Calm', Active(k)'
        PROVE  /\ HandleOf[k] # Main => current[HandleOf[k]] # current[Main]
               /\ \A j \in Loops \ {k} : Active(j)' => current[HandleOf[j]] # current[HandleOf[k]]
    <3>1. k \in Calm /\ Active(k)
      BY <1>3, <2>3, <2>4, CalmStays
    <3>2. HandleOf[k] # Main /\ current[HandleOf[k]] # current[Main]
      BY <2>2, <3>1 DEF BranchesApart, Active
    <3>3. \A j \in Loops \ {k} : Active(j) => current[HandleOf[j]] # current[HandleOf[k]]
      BY <3>1 DEF BranchesApart, Active, Shared
    <3> QED
      BY <2>1, <2>3, <3>2, <3>3
  <2>5. ASSUME l \in Calm', NEW j \in Loops \ {l}, Active(j)'
        PROVE  current[HandleOf[j]] # current[HandleOf[l]]
    <3>1. ~Shared(l)
      BY <1>3, <2>5 DEF UserInput, Calm
    <3> QED
      BY <2>3, <2>5, <3>1 DEF Shared, Active
  <2> QED
    BY <2>1, <2>4, <2>5, CalmLoops DEF BranchesApart, Shared, Active
<1>4. CASE \E l \in Loops : Step(l)
  BY <1>4, ApartStep
<1>5. CASE New \/ Fork \/ Switch
  <2>1. run' = run
    BY <1>5 DEF New, Fork, Switch, Command
  <2>2. PICK b : /\ current' = [current EXCEPT ![Main] = b]
                 /\ \/ \A h \in Handles : current[h] # b
                    \/ Switch /\ SwitchBranch(Main, b)
    <3>1. \A h \in Handles : current[h] # Len(branch) + 1
      BY SoundStore
    <3> QED
      BY <1>5, <3>1 DEF New, Fork, Switch, Command, NewBranch, Branch, SwitchBranch
  <2>3. current'[Main] = b /\ \A h \in Handles \ {Main} : current'[h] = current[h]
    BY <2>2, SoundStore, DagAssumption
  <2>4. ASSUME NEW k \in Loops, k \in Calm', Active(k)'
        PROVE  /\ current'[HandleOf[k]] # current'[Main]
               /\ \A j \in Loops \ {k} : Active(j)' => current'[HandleOf[j]] # current'[HandleOf[k]]
    <3>0. Active(k) /\ \A j \in Loops : Active(j)' => Active(j)
      BY <2>1, <2>4 DEF Active, At
    <3>1. k \in Calm /\ HandleOf[k] # Main /\ (Switch /\ SwitchBranch(Main, b) => current[HandleOf[k]] # b)
      BY <1>5, <2>3, <2>4, <3>0, CommandCalm
    <3>2. \A j \in Loops : HandleOf[j] \in Handles
      BY LoopAssumption
    <3>3. current'[HandleOf[k]] = current[HandleOf[k]] /\ current[HandleOf[k]] # b
      BY <2>2, <2>3, <3>1, <3>2
    <3>4. \A j \in Loops \ {k} : Active(j) => current[HandleOf[j]] # current[HandleOf[k]]
      BY <3>0, <3>1 DEF BranchesApart, Active, Shared
    <3>5. ASSUME NEW j \in Loops \ {k}, Active(j)' PROVE current'[HandleOf[j]] # current'[HandleOf[k]]
      <4>1. CASE HandleOf[j] = Main
        BY <2>3, <3>3, <4>1
      <4>2. CASE HandleOf[j] # Main
        BY <2>3, <3>0, <3>2, <3>3, <3>4, <3>5, <4>2
      <4> QED
        BY <4>1, <4>2
    <3> QED
      BY <2>3, <3>3, <3>5
  <2> QED
    BY <2>4, CalmLoops DEF BranchesApart, Shared, Active
<1>6. CASE CompactCommand /\ ~Crash
  <2>1. PICK l \in Screens : ReadTail(l)
    BY <1>6 DEF CompactCommand
  <2>2. l \in Loops /\ HandleOf[l] = Main /\ Bound(l)
    BY <2>1, ScreenBound
  <2>3. current' = current /\ Own(l)
    BY <2>1, <2>2, ReadEffect DEF dagVars
  <2>4. \A j \in Loops \ {l} : Active(j)' => Active(j)
    BY <2>3 DEF Own, Active, At
  <2>5. ASSUME NEW k \in Loops, k \in Calm', Active(k)'
        PROVE  /\ current[HandleOf[k]] # current[Main]
               /\ \A j \in Loops \ {k} : Active(j)' => current[HandleOf[j]] # current[HandleOf[k]]
    <3>1. k # l
      BY <2>1, <2>5 DEF Calm
    <3>2. k \in Calm /\ Active(k) /\ current[HandleOf[k]] # current[Main]
      BY <1>6, <2>4, <2>5, <3>1, CommandCalm
    <3>3. \A j \in Loops \ {k} : Active(j) => current[HandleOf[j]] # current[HandleOf[k]]
      BY <3>2 DEF BranchesApart, Active, Shared
    <3> QED
      BY <2>2, <2>4, <3>2, <3>3
  <2> QED
    BY <2>3, <2>5, CalmLoops DEF BranchesApart, Shared, Active
<1>7. CASE Crash
  <2>1. \A k \in Loops : run'[k].pc = "idle"
    BY <1>7 DEF Crash, Idle
  <2> QED
    BY <2>1, CalmLoops DEF BranchesApart, At
<1> QED
  BY <1>2, <1>3, <1>4, <1>5, <1>6, <1>7 DEF Next

LEMMA ApartInvariance == ASSUME OwnHandles PROVE Spec => [](Sound /\ BranchesApart)
<1>1. Init => BranchesApart
  BY CalmLoops DEF Init, BranchesApart, At, Idle
<1>2. Sound /\ BranchesApart /\ [Next]_vars => BranchesApart'
  BY ApartNext
<1> QED
  BY <1>1, <1>2, SoundInit, SoundNext, PTL DEF Spec

\* Nobody else writes to the branch of a run that no command has disturbed, and no
\* sub-agent of these writes to the one the user has open: ForkFrom leaves the
\* caller's handle alone, and a command moves the main handle alone (dag.go:53-63).
THEOREM Apart == ASSUME OwnHandles PROVE Spec => []BranchesApart
  BY ApartInvariance, PTL

----------------------------------------------------------------------------
\* What a step leaves to a loop that does not take it.

\* Its locals, its branch and what that branch ends with.
Untouched(k) ==
  /\ run'[k] = run[k]
  /\ current'[HandleOf[k]] = current[HandleOf[k]]
  /\ branch'[current[HandleOf[k]]] = branch[current[HandleOf[k]]]
  /\ HeadNode(k)' = HeadNode(k)

\* A sub-agent that is spawned begins.
LEMMA SpawnBegins ==
  ASSUME Sound, NEW l \in Loops, NEW s \in Loops, Spawn(l, s), NEW k \in Loops
  PROVE  /\ Active(k) => run'[k] = run[k]
         /\ run'[k] = run[k] \/ run'[k].pc = "begin"
<1>1. [Idle EXCEPT !.pc = "begin"].pc = "begin"
  BY DEF Idle
<1>2. \/ run' = [run EXCEPT ![s] = [Idle EXCEPT !.pc = "begin"]]
      \/ run' = run
  BY DEF Spawn
<1>3. Active(k) => HandleOf[k] # HandleOf[s]
  BY ActiveBound DEF Spawn, Bound
<1> QED
  BY <1>1, <1>2, <1>3, SoundLocals

\* A loop is not moved by its own spawning of a sub-agent.
LEMMA SpawnUntouched ==
  ASSUME Sound, NEW l \in Loops, NEW s \in Loops, Spawn(l, s), NEW k \in Loops, Active(k)
  PROVE  Untouched(k) /\ node' = node
<1> DEFINE h == HeadNode(l)
           d == current[HandleOf[k]]
<1>1. /\ InsertBranch(h, h) /\ UNCHANGED <<node, nextNode, alias>>
      /\ current' = current \/ current' = [current EXCEPT ![HandleOf[s]] = Len(branch) + 1]
  BY DEF Spawn, ForkFrom
<1>2. Active(l) /\ h \in Ids /\ HandleOf[s] \in Handles /\ d \in Branches /\ HandleOf[k] \in Handles
  <2>1. Active(l)
    BY DEF Spawn, ToolRuns, Active, At
  <2> QED
    BY <2>1, ActiveBound, BoundBranch, LoopAssumption
<1>3. s # k /\ HandleOf[s] # HandleOf[k]
  BY ActiveBound DEF Spawn, Bound
<1> HIDE DEF h, d
<1>4. OpensRow([head |-> h, forked |-> h])
  BY <1>1, <1>2, InsertEffect
<1>5. branch'[d] = branch[d] /\ current'[HandleOf[k]] = d /\ run'[k] = run[k]
  BY <1>1, <1>2, <1>3, <1>4, SoundStore, SpawnBegins DEF OpensRow, d
<1> QED
  BY <1>1, <1>5 DEF Untouched, HeadNode, HeadOf, d

LEMMA StepUntouched ==
  ASSUME Sound, BranchesApart, NEW l \in Loops, Step(l), NEW k \in Loops \ {l}, Active(k), k \in Calm
  PROVE  Untouched(k)
<1> DEFINE c == current[HandleOf[l]]
           d == current[HandleOf[k]]
<1>1. /\ Active(l) /\ Bound(l) /\ HandleOf[l] \in Handles /\ HandleOf[k] \in Handles
      /\ d \in Branches /\ c \in Branches
  BY Kinds, ActiveBound, BoundBranch
<1>2. d # c /\ HandleOf[k] # HandleOf[l]
  BY <1>1 DEF BranchesApart, Active, Shared
<1> HIDE DEF c
<1>3. ASSUME run'[k] = run[k], current'[HandleOf[k]] = d, branch'[d] = branch[d]
      PROVE  Untouched(k)
  BY <1>3 DEF Untouched, HeadNode, HeadOf
<1> HIDE DEF d
<1>4. CASE Own(l) /\ (UNCHANGED dagVars \/ StoreAlias(l))
  BY <1>3, <1>4 DEF Own, dagVars, StoreAlias, SetAlias, d
<1>5. CASE Own(l) /\ SaysNode(l)
  <2>1. PICK p, msg : Says(l, p, msg) /\ AddNode(HandleOf[l], p, msg)
    BY <1>5 DEF SaysNode
  <2>2. Adds(c, p, msg)
    BY <2>1, SaysEffect DEF c
  <2>3. current' = current /\ branch'[d] = branch[d]
    BY <1>1, <1>2, <2>2 DEF Adds
  <2> QED
    BY <1>3, <1>5, <2>3 DEF Own, d
<1>6. CASE Own(l) /\ TakesUserBack(l)
  <2>1. UNCHANGED dagVars \/ Removes(c, run[l].userNode)
    BY <1>1, <1>6, RemoveEffect DEF TakesUserBack, c
  <2>2. current' = current /\ branch'[d] = branch[d]
    BY <1>1, <1>2, <2>1 DEF Removes, dagVars
  <2> QED
    BY <1>3, <1>6, <2>2 DEF Own, d
<1>7. CASE Compact(l)
  <2>1. Own(l) /\ UNCHANGED dagVars
    BY <1>1, <1>7, ReadEffect DEF Compact
  <2> QED
    BY <1>4, <2>1
<1>9. CASE OpenCompacted(l)
  <2> DEFINE row == [head |-> run[l].copyAt, forked |-> run[l].copyAt]
  <2>2. /\ OpensRow(row) /\ current' = [current EXCEPT ![HandleOf[l]] = Len(branch) + 1] /\ Own(l)
    BY <1>9, OpenEffect
  <2> HIDE DEF row
  <2>3. branch'[d] = branch[d] /\ current'[HandleOf[k]] = d /\ run'[k] = run[k]
    BY <1>1, <1>2, <2>2, SoundStore DEF OpensRow, Own, d
  <2> QED
    BY <1>3, <2>3
<1>8. ASSUME NEW s \in Loops, Spawn(l, s) PROVE Untouched(k)
  BY <1>8, SpawnUntouched
<1> QED
  BY <1>4, <1>5, <1>6, <1>7, <1>8, <1>9, Kinds

\* The steps of the user, seen from a run that is in progress and not disturbed.
LEMMA OtherUntouched ==
  ASSUME Sound, BranchesApart, NEW k \in Loops, Active(k), k \in Calm',
         \/ \E l \in Loops : UserInput(l)
         \/ Steer \/ New \/ Clear \/ Fork \/ Switch \/ CompactCommand \/ UNCHANGED vars
  PROVE  Untouched(k) /\ node' = node
<1> DEFINE d == current[HandleOf[k]]
<1>1. HandleOf[k] \in Handles /\ d \in Branches /\ Main \in Handles
  BY ActiveBound, BoundBranch, DagAssumption
<1>2. ASSUME run'[k] = run[k], current'[HandleOf[k]] = d, branch'[d] = branch[d]
      PROVE  Untouched(k)
  BY <1>2 DEF Untouched, HeadNode, HeadOf
<1> HIDE DEF d
<1>3. CASE Steer \/ UNCHANGED vars
  BY <1>2, <1>3 DEF Steer, vars, dagVars, d
<1>4. ASSUME NEW l \in Loops, UserInput(l) PROVE Untouched(k) /\ node' = node
  <2>1. l # k
    BY <1>4 DEF UserInput, Active, At
  <2>2. run'[k] = run[k]
    BY <1>4, <2>1, SoundLocals DEF UserInput
  <2> QED
    BY <1>2, <1>4, <2>2 DEF UserInput, dagVars, d
<1>5. ASSUME New \/ Clear \/ Fork \/ Switch \/ CompactCommand
      PROVE  HandleOf[k] # Main /\ d # current[Main]
  BY <1>5, CommandCalm DEF d
<1>6. CASE New \/ Clear \/ Fork \/ Switch
  <2>1. run' = run /\ node' = node
    BY <1>6 DEF New, Clear, Fork, Switch, Command, NewBranch, ResetHead, Branch, SwitchBranch
  <2>2. current'[HandleOf[k]] = d
    BY <1>1, <1>5, <1>6, SoundStore
       DEF New, Clear, Fork, Switch, Command, NewBranch, ResetHead, Branch, SwitchBranch, d
  <2>3. branch'[d] = branch[d]
    <3>1. CASE Switch
      BY <3>1 DEF Switch, SwitchBranch
    <3>2. CASE Clear
      BY <1>1, <1>5, <3>2, SoundStore DEF Clear, ResetHead
    <3>3. CASE New \/ Fork
      <4>1. \E x : branch' = Append(branch, x)
        BY <3>3 DEF New, NewBranch, Fork, Branch, InsertBranch
      <4> QED
        BY <1>1, <4>1, SoundStore
    <3> QED
      BY <1>6, <3>1, <3>2, <3>3
  <2> QED
    BY <1>2, <2>1, <2>2, <2>3
<1>7. CASE CompactCommand
  <2>1. PICK l \in Screens : ReadTail(l)
    BY <1>7 DEF CompactCommand
  <2>2. l \in Loops /\ Bound(l) /\ HandleOf[l] = Main
    BY ScreenBound
  <2>3. l # k
    BY <1>5, <1>7, <2>2
  <2>4. UNCHANGED dagVars /\ Own(l)
    BY <2>1, <2>2, ReadEffect
  <2>5. /\ branch'[d] = branch[d] /\ current'[HandleOf[k]] = d /\ run'[k] = run[k]
        /\ node' = node
    BY <2>3, <2>4 DEF dagVars, Own, d
  <2> QED
    BY <1>2, <2>5
<1> QED
  BY <1>3, <1>4, <1>6, <1>7

\* Whoever is idle stays so, or begins.
LEMMA IdleBegins ==
  ASSUME Sound, [Next]_vars, NEW k \in Loops \ Screens, ~Active(k)
  PROVE  run'[k] = run[k] \/ run'[k] = Idle \/ run'[k] = [Idle EXCEPT !.pc = "begin"]
<1>2. run \in [Loops -> Locals]
  BY SoundLocals
<1>3. ASSUME NEW l \in Loops, Step(l)
      PROVE  run'[k] = run[k] \/ run'[k] = [Idle EXCEPT !.pc = "begin"]
  <2>1. l # k /\ Active(l) /\ Bound(l)
    BY <1>3, Kinds, ActiveBound
  <2>2. CASE Own(l)
    BY <2>1, <2>2 DEF Own
  <2>3. CASE Compact(l)
    BY <2>1, <2>2, <2>3, ReadEffect DEF Compact
  <2>4. CASE OpenCompacted(l)
    BY <2>2, <2>4, OpenEffect
  <2>5. ASSUME NEW s \in Loops, Spawn(l, s)
        PROVE  run'[k] = run[k] \/ run'[k] = [Idle EXCEPT !.pc = "begin"]
    BY <1>2, <2>5 DEF Spawn
  <2> QED
    BY <1>3, <2>2, <2>3, <2>4, <2>5, Kinds
<1>4. ASSUME NEW l \in Loops, UserInput(l)
      PROVE  run'[k] = run[k] \/ run'[k] = [Idle EXCEPT !.pc = "begin"]
  BY <1>2, <1>4 DEF UserInput
<1>5. CASE Crash
  BY <1>5 DEF Crash
<1>6. CASE Steer \/ New \/ Clear \/ Fork \/ Switch \/ UNCHANGED vars
  BY <1>6 DEF Steer, New, Clear, Fork, Switch, Command, vars
<1>7. CASE CompactCommand
  <2>1. PICK l \in Screens : ReadTail(l)
    BY <1>7 DEF CompactCommand
  <2>2. l \in Loops /\ Bound(l)
    BY ScreenBound
  <2> QED
    BY <2>1, <2>2, ReadEffect DEF Own
<1> QED
  BY <1>3, <1>4, <1>5, <1>6, <1>7 DEF Next

\* What a step of l leaves in the table: all but a user message of its own.
TakesOnly(l) ==
  \A n \in DOMAIN node :
    \/ n \in DOMAIN node' /\ node'[n] = node[n]
    \/ node[n].msg.role = "user" /\ node[n].msg.by = l

LEMMA StepTakesOnly == ASSUME Sound, NEW l \in Loops, Step(l) PROVE TakesOnly(l)
<1>1. Active(l) /\ HandleOf[l] \in Handles /\ current[HandleOf[l]] \in Branches
  BY Kinds, ActiveBound, BoundBranch
<1>2. CASE node' = node
  BY <1>2 DEF TakesOnly
<1>3. CASE SaysNode(l)
  <2>1. PICK p, msg : Says(l, p, msg) /\ AddNode(HandleOf[l], p, msg)
    BY <1>3 DEF SaysNode
  <2>2. Adds(current[HandleOf[l]], p, msg)
    BY <2>1, SaysEffect
  <2> QED
    BY <2>2 DEF Adds, TakesOnly
<1>4. CASE TakesUserBack(l)
  <2>1. UNCHANGED dagVars \/ Removes(current[HandleOf[l]], run[l].userNode)
    BY <1>1, <1>4, RemoveEffect DEF TakesUserBack
  <2>2. run[l].userNode \in DOMAIN node => /\ node[run[l].userNode].msg.role = "user"
                                           /\ node[run[l].userNode].msg.by = l
    BY DEF Sound, UserRows
  <2> QED
    BY <2>1, <2>2 DEF Removes, TakesOnly, dagVars
<1>5. CASE UNCHANGED dagVars \/ StoreAlias(l) \/ Compact(l) \/ OpenCompacted(l)
          \/ \E s \in Loops : Spawn(l, s)
  <2>1. node' = node
    BY <1>5 DEF dagVars, StoreAlias, SetAlias, Compact, ReadTail,
          OpenCompacted, Branch, Spawn, ForkFrom
  <2> QED
    BY <1>2, <2>1
<1> QED
  BY <1>3, <1>4, <1>5, Kinds

----------------------------------------------------------------------------
\* What a loop remembers of its turn.

\* h is the answer a, or the thinking stored with it.
EndsWithAnswer(t, h, a) ==
  /\ h \in DOMAIN t
  /\ IF t[h].msg.role = "thinking" THEN t[h].parent = a ELSE h = a

\* a is an answer, where it was first written.
IsAnswer(t, a) == a \in DOMAIN t /\ t[a].msg.role = "assistant" /\ t[a].msg.id = a

\* Of a loop with locals r on a branch with head h, in the table t.
HeadOfTurn(r, h) ==
  /\ r.pc \in {"addUser", "prepare"} => h = r.at
  /\ r.pc = "prepare" => r.sent = r.at
  /\ ~Compaction /\ r.pc \in {"call", "answer"} => h = r.at /\ r.sent = r.at
  /\ r.pc \in {"summarise", "summary", "copy"} => Compaction

AnswerOfTurn(r, h, t) ==
  /\ r.pc \in {"alias", "setAlias", "thinking"} => h = r.reply
  /\ r.pc \in {"alias", "setAlias", "thinking", "answered"} => r.done = 0
  /\ \/ r.pc \in {"alias", "setAlias", "thinking", "answered"}
     \/ r.pc = "tools" /\ r.done = 0
     => IsAnswer(t, r.reply) /\ EndsWithAnswer(t, h, r.reply)
  /\ r.pc = "tools" /\ r.done # 0 =>
       /\ h \in DOMAIN t
       /\ t[h].msg.role = "tool" /\ t[h].msg.for = r.reply /\ t[h].msg.call = r.done
  /\ ~Compaction /\ r.pc = "alias" => t[r.reply].parent = r.sent

Turn(r, h, t) == HeadOfTurn(r, h) /\ AnswerOfTurn(r, h, t)

LEMMA TurnKept ==
  ASSUME NEW l \in Loops, TakesOnly(l), NEW k \in Loops \ {l}, Untouched(k),
         Turn(run[k], HeadNode(k), node)
  PROVE  Turn(run'[k], HeadNode(k)', node')
<1> DEFINE r == run[k]
           h == HeadNode(k)
<1>1. run'[k] = r /\ HeadNode(k)' = h
  BY DEF Untouched
<1>2. \A n \in DOMAIN node : node[n].msg.role # "user" => n \in DOMAIN node' /\ node'[n] = node[n]
  BY DEF TakesOnly
<1> HIDE DEF r, h
<1>3. HeadOfTurn(r, h) /\ AnswerOfTurn(r, h, node)
  BY DEF Turn, r, h
<1>4. IsAnswer(node, r.reply) =>
        IsAnswer(node', r.reply) /\ node'[r.reply] = node[r.reply]
  BY <1>2 DEF IsAnswer
<1>5. IsAnswer(node, r.reply) /\ EndsWithAnswer(node, h, r.reply) =>
        EndsWithAnswer(node', h, r.reply)
  BY <1>2, <1>4 DEF IsAnswer, EndsWithAnswer
<1>6. h \in DOMAIN node /\ node[h].msg.role = "tool" =>
        h \in DOMAIN node' /\ node'[h] = node[h]
  BY <1>2
<1>7. AnswerOfTurn(r, h, node')
  BY <1>3, <1>4, <1>5, <1>6 DEF AnswerOfTurn
<1> QED
  BY <1>1, <1>3, <1>7 DEF Turn

LEMMA NewHead ==
  ASSUME Sound, NEW l \in Loops, NEW p, NEW msg, Says(l, p, msg), AddNode(HandleOf[l], p, msg)
  PROVE  /\ HeadNode(l)' = nextNode /\ nextNode \in DOMAIN node'
         /\ node'[nextNode].parent = p /\ node'[nextNode].msg = msg
         /\ \A n \in DOMAIN node : n \in DOMAIN node' /\ node'[n] = node[n]
<1> DEFINE c == current[HandleOf[l]]
<1>1. Adds(c, p, msg)
  BY SaysEffect
<1> HIDE DEF c
<1>2. branch'[c].head = nextNode /\ current' = current
  BY <1>1 DEF Adds
<1>3. HeadNode(l)' = nextNode
  BY <1>2 DEF HeadNode, HeadOf, c
<1> QED
  BY <1>1, <1>3 DEF Adds

\* The step of a loop, seen from itself.
LEMMA TurnOwnStep ==
  ASSUME Sound, NEW l \in Loops, Step(l), ~ \E s \in Loops : Spawn(l, s),
         Turn(run[l], HeadNode(l), node)
  PROVE  Turn(run'[l], HeadNode(l)', node')
<1>0. run \in [Loops -> Locals] /\ run[l] \in Locals
  BY SoundLocals
<1>1. HeadOfTurn(run[l], HeadNode(l)) /\ AnswerOfTurn(run[l], HeadNode(l), node)
  BY DEF Turn
<1>2. ASSUME UNCHANGED dagVars PROVE HeadNode(l)' = HeadNode(l) /\ node' = node
  BY <1>2 DEF dagVars, HeadNode, HeadOf
<1>3. CASE /\ AddUser(l) \/ CancelRetry(l) \/ Fail(l) \/ Continue(l) \/ HookResumes(l)
              \/ Stop(l) \/ Drain(l) \/ InterruptTools(l) \/ DrainCut(l) \/ ToolsDone(l)
              \/ AfterTools(l) \/ Finish(l)
  <2>0. Idle.pc = "idle"
    BY DEF Idle
  <2>1. run'[l].pc \in {"turn", "failed", "idle", "drain", "exit", "cut", "toolsDone"}
    BY <1>0, <1>3, <2>0 DEF AddUser, CancelRetry, Fail, Continue, HookResumes, Stop, Drain,
       InterruptTools, DrainCut, ToolsDone, AfterTools, Finish, TakeSteering, At, Locals
  <2> QED
    BY <2>1 DEF Turn, HeadOfTurn, AnswerOfTurn
<1>13. CASE Compact(l) \/ OpenCompacted(l) \/ AddSummary(l) \/ CopyTail(l)
  <2>1. run'[l].pc \in {"summarise", "summary", "copy"}
    <3>1. CASE Compact(l)
      <4>1. PICK tail, root :
              run' = [run EXCEPT ![l].pc = "summarise", ![l].copies = tail, ![l].copyAt = root]
        BY <3>1 DEF Compact, ReadTail
      <4> QED
        BY <1>0, <4>1 DEF Locals
    <3>4. CASE OpenCompacted(l)
      BY <1>0, <3>4 DEF OpenCompacted, Locals
    <3>2. CASE AddSummary(l)
      BY <1>0, <3>2 DEF AddSummary, Locals
    <3>3. CASE CopyTail(l)
      BY <1>0, <3>3 DEF CopyTail, At, Locals
    <3> QED
      BY <1>13, <3>1, <3>2, <3>3, <3>4
  <2>2. Compaction
    BY <1>1, <1>13 DEF HeadOfTurn, Compact, ReadTail, OpenCompacted, AddSummary, CopyTail, At
  <2> QED
    BY <2>1, <2>2 DEF Turn, HeadOfTurn, AnswerOfTurn
<1>4. CASE ReadHead(l)
  <2>1. run'[l].pc = "addUser" /\ run'[l].at = HeadNode(l) /\ HeadNode(l)' = HeadNode(l)
    BY <1>0, <1>2, <1>4 DEF ReadHead, Locals
  <2> QED
    BY <2>1 DEF Turn, HeadOfTurn, AnswerOfTurn
<1>5. CASE BeginTurn(l)
  <2>1. \/ /\ run'[l].pc = "prepare" /\ run'[l].sent = HeadNode(l) /\ run'[l].at = HeadNode(l)
           /\ HeadNode(l)' = HeadNode(l)
        \/ run'[l].pc = "exit"
    BY <1>0, <1>2, <1>5 DEF BeginTurn, Locals
  <2> QED
    BY <2>1 DEF Turn, HeadOfTurn, AnswerOfTurn
<1>6. CASE SkipCompaction(l) \/ CallFails(l) \/ CallAnswers(l) \/ StartEagerTool(l)
  <2>1. ~Compaction => HeadNode(l) = run[l].at /\ run[l].sent = run[l].at
    BY <1>1, <1>6 DEF HeadOfTurn, SkipCompaction, CallFails, CallAnswers, StartEagerTool, At
  <2>2. /\ run'[l].pc \in {"call", "exit", "failed", "answer"}
        /\ run'[l].sent = run[l].sent /\ run'[l].at = run[l].at /\ UNCHANGED dagVars
    <3>1. RetryOrFail(l) \in {"call", "failed"}
      BY DEF RetryOrFail
    <3>2. CASE SkipCompaction(l)
      BY <1>0, <3>2 DEF SkipCompaction, AfterPrepare, Locals
    <3>3. CASE CallFails(l)
      BY <1>0, <3>1, <3>3 DEF CallFails, Locals
    <3>4. CASE CallAnswers(l)
      BY <1>0, <3>1, <3>4 DEF CallAnswers, Locals
    <3>5. CASE StartEagerTool(l)
      BY <1>0, <3>5 DEF StartEagerTool, Locals, At
    <3> QED
      BY <1>6, <3>2, <3>3, <3>4, <3>5
  <2> QED
    BY <1>2, <2>1, <2>2 DEF Turn, HeadOfTurn, AnswerOfTurn
<1>7. CASE EndCompaction(l)
  <2>1. run'[l].pc \in {"idle", "call", "exit"}
    <3>1. CASE l \in Screens
      BY <1>0, <1>7, <3>1 DEF EndCompaction, Idle
    <3>2. CASE l \notin Screens
      <4>1. PICK p \in {"call", "exit"} :
              run' = [run EXCEPT ![l].pc = p, ![l].sent = HeadNode(l)]
        BY <1>7, <3>2 DEF EndCompaction, AfterPrepare
      <4> QED
        BY <1>0, <4>1 DEF Locals
    <3> QED
      BY <3>1, <3>2
  <2>2. Compaction
    BY <1>1, <1>7 DEF HeadOfTurn, EndCompaction, At
  <2> QED
    BY <2>1, <2>2 DEF Turn, HeadOfTurn, AnswerOfTurn
<1>8. CASE Answer(l)
  <2> DEFINE msg == [Message("assistant", l) EXCEPT !.calls = run[l].resp.calls]
  <2>1. /\ run'[l].pc = "alias" /\ run'[l].reply = nextNode /\ run'[l].done = 0
        /\ run'[l].sent = run[l].sent
    BY <1>0, <1>8 DEF Answer, Locals
  <2>2. ~Compaction => run[l].sent = run[l].at
    BY <1>1, <1>8 DEF HeadOfTurn, Answer, At
  <2>3. Says(l, run[l].at, msg) /\ AddNode(HandleOf[l], run[l].at, msg)
    BY <1>8 DEF Answer, AddNodeBy, Says, At
  <2>4. msg.role = "assistant" /\ msg.id = nextNode
    BY AnswerMessage
  <2> HIDE DEF msg
  <2>5. /\ HeadNode(l)' = nextNode /\ nextNode \in DOMAIN node'
        /\ node'[nextNode].parent = run[l].at /\ node'[nextNode].msg = msg
    BY <2>3, NewHead
  <2>6. IsAnswer(node', nextNode) /\ EndsWithAnswer(node', nextNode, nextNode)
    BY <2>4, <2>5 DEF IsAnswer, EndsWithAnswer
  <2> QED
    BY <2>1, <2>2, <2>5, <2>6 DEF Turn, HeadOfTurn, AnswerOfTurn
<1>9. CASE PickAlias(l) \/ StoreAlias(l)
  <2>1. /\ \/ run[l].pc = "alias" /\ run'[l].pc = "setAlias"
           \/ run[l].pc = "setAlias" /\ run'[l].pc \in {"thinking", "answered"}
        /\ node' = node /\ HeadNode(l)' = HeadNode(l)
        /\ run'[l].done = run[l].done /\ run'[l].reply = run[l].reply
    BY <1>0, <1>9 DEF PickAlias, StoreAlias, SetAlias, Locals, At, HeadNode, HeadOf, dagVars
  <2> QED
    BY <1>1, <2>1 DEF Turn, HeadOfTurn, AnswerOfTurn
<1>10. CASE StoreThinking(l)
  <2> DEFINE msg == Message("thinking", l)
  <2>1. /\ run[l].pc = "thinking" /\ run'[l].pc = "answered"
        /\ run'[l].done = run[l].done /\ run'[l].reply = run[l].reply
    BY <1>0, <1>10 DEF StoreThinking, Locals, At
  <2>2. IsAnswer(node, run[l].reply) /\ run[l].done = 0
    BY <1>1, <2>1 DEF AnswerOfTurn
  <2>3. Says(l, run[l].reply, msg) /\ AddNode(HandleOf[l], run[l].reply, msg)
    BY <1>10 DEF StoreThinking, AddNodeBy, Says, At
  <2>4. msg.role = "thinking"
    BY PlainMessage DEF Roles
  <2> HIDE DEF msg
  <2>5. /\ HeadNode(l)' = nextNode /\ nextNode \in DOMAIN node'
        /\ node'[nextNode].parent = run[l].reply /\ node'[nextNode].msg = msg
        /\ \A n \in DOMAIN node : n \in DOMAIN node' /\ node'[n] = node[n]
    BY <2>3, NewHead
  <2>6. IsAnswer(node', run[l].reply) /\ EndsWithAnswer(node', nextNode, run[l].reply)
    BY <2>2, <2>4, <2>5 DEF IsAnswer, EndsWithAnswer
  <2> QED
    BY <2>1, <2>2, <2>5, <2>6 DEF Turn, HeadOfTurn, AnswerOfTurn
<1>11. CASE Answered(l)
  <2>1. /\ run[l].pc = "answered" /\ run'[l].pc \in {"stop", "tools"}
        /\ node' = node /\ HeadNode(l)' = HeadNode(l)
        /\ run'[l].done = run[l].done /\ run'[l].reply = run[l].reply
    BY <1>0, <1>2, <1>11 DEF Answered, Locals, At
  <2> QED
    BY <1>1, <2>1 DEF Turn, HeadOfTurn, AnswerOfTurn
<1>12. CASE RunTool(l)
  <2> DEFINE msg == ToolResult(l, run[l].done + 1)
  <2>1. /\ run'[l].pc = "tools" /\ run'[l].done = run[l].done + 1 /\ run[l].done \in Nat
        /\ run'[l].reply = run[l].reply
    BY <1>0, <1>12 DEF RunTool, Locals, At
  <2>2. Says(l, HeadNode(l), msg) /\ AddNode(HandleOf[l], HeadNode(l), msg)
    BY <1>12 DEF RunTool, AddAtHead, Says, At
  <2>3. msg.role = "tool" /\ msg.for = run[l].reply /\ msg.call = run[l].done + 1
    BY ResultMessage
  <2> HIDE DEF msg
  <2>4. HeadNode(l)' = nextNode /\ nextNode \in DOMAIN node' /\ node'[nextNode].msg = msg
    BY <2>2, NewHead
  <2> QED
    BY <2>1, <2>3, <2>4 DEF Turn, HeadOfTurn, AnswerOfTurn
<1> QED
  BY <1>3, <1>4, <1>5, <1>6, <1>7, <1>8, <1>9, <1>10, <1>11, <1>12, <1>13
     DEF Step

\* Of the runs that no command has disturbed.
TurnInv == \A l \in Calm : Turn(run[l], HeadNode(l), node)


LEMMA TurnStep ==
  ASSUME Sound, BranchesApart, TurnInv, NEW l \in Loops, Step(l)
  PROVE  TurnInv'
<1>0. Calm' = Calm /\ Calm \subseteq Loops
  BY StepCalm, CalmLoops
<1>1. \A r, h, t : r.pc \in {"idle", "begin"} => Turn(r, h, t)
  BY DEF Turn, HeadOfTurn, AnswerOfTurn
<1>2. ASSUME NEW s \in Loops, Spawn(l, s), NEW k \in Calm
      PROVE  Turn(run'[k], HeadNode(k)', node')
  <2>1. CASE Active(k)
    <3>1. Untouched(k) /\ node' = node
      BY <1>0, <1>2, <2>1, SpawnUntouched
    <3> QED
      BY <3>1 DEF TurnInv, Untouched
  <2>2. CASE ~Active(k)
    <3>1. run'[k].pc \in {"idle", "begin"}
      BY <1>0, <1>2, <2>2, SpawnBegins DEF Active, At
    <3> QED
      BY <1>1, <3>1
  <2> QED
    BY <2>1, <2>2
<1>3. ASSUME ~ \E s \in Loops : Spawn(l, s), NEW k \in Calm
      PROVE  Turn(run'[k], HeadNode(k)', node')
  <2>0. k \in Loops
    BY <1>0
  <2>1. CASE k = l
    BY <1>3, <2>1, TurnOwnStep DEF TurnInv
  <2>2. CASE k # l /\ Active(k)
    BY <2>0, <2>2, StepUntouched, StepTakesOnly, TurnKept DEF TurnInv
  <2>3. CASE k # l /\ ~Active(k)
    <3>1. run'[k] = run[k]
      <4>1. CASE Compact(l)
        BY <2>0, <2>3, <4>1, SoundLocals DEF Compact, ReadTail
      <4>2. CASE OpenCompacted(l)
        BY <2>0, <2>3, <4>2, SoundLocals DEF OpenCompacted
      <4> QED
        BY <1>3, <2>0, <2>3, <4>1, <4>2, Kinds DEF Own
    <3> QED
      BY <1>1, <2>3, <3>1 DEF Active, At
  <2> QED
    BY <2>1, <2>2, <2>3
<1> QED
  BY <1>0, <1>2, <1>3 DEF TurnInv

LEMMA TurnNext ==
  ASSUME Sound, BranchesApart, TurnInv, [Next]_vars PROVE TurnInv'
<1>0. Calm' \subseteq Loops \ Screens
  BY CalmLoops
<1>1. \A r, h, t : r.pc \in {"idle", "begin"} => Turn(r, h, t)
  BY DEF Turn, HeadOfTurn, AnswerOfTurn
<1>2. CASE \E l \in Loops : Step(l)
  BY <1>2, TurnStep
<1>3. ASSUME ~ \E l \in Loops : Step(l), NEW k \in Calm'
      PROVE  Turn(run'[k], HeadNode(k)', node')
  <2>0. k \in Loops \ Screens
    BY <1>0
  <2>1. CASE Active(k) /\ ~Crash
    <3>1. Untouched(k) /\ node' = node /\ k \in Calm
      BY <1>3, <2>0, <2>1, OtherUntouched, CalmStays DEF Next
    <3> QED
      BY <3>1 DEF TurnInv, Untouched
  <2>2. CASE Crash
    <3>1. run'[k].pc = "idle"
      BY <2>0, <2>2 DEF Crash, Idle
    <3> QED
      BY <1>1, <3>1
  <2>3. CASE ~Active(k)
    <3>1. run'[k].pc \in {"idle", "begin"}
      BY <2>0, <2>3, IdleBegins DEF Active, At, Idle
    <3> QED
      BY <1>1, <3>1
  <2> QED
    BY <2>1, <2>2, <2>3
<1> QED
  BY <1>2, <1>3 DEF TurnInv

LEMMA TurnInit == Init => TurnInv
  BY CalmLoops DEF Init, TurnInv, Turn, HeadOfTurn, AnswerOfTurn, Idle

LEMMA TurnInvariance == ASSUME OwnHandles PROVE Spec => []TurnInv
<1>1. Sound /\ BranchesApart /\ TurnInv /\ [Next]_vars => TurnInv'
  BY TurnNext
<1> QED
  BY <1>1, TurnInit, ApartInvariance, PTL DEF Spec

\* What a run has read with GetHead is still the head when it calls AddNode, unless
\* a command has moved it: no message is written beside the conversation it belongs
\* to (loop.go:149-154, 367-379).
THEOREM NoLostUpdate == ASSUME OwnHandles, Compaction = FALSE PROVE Spec => []HeadKept
<1>1. TurnInv => HeadKept
  BY DEF TurnInv, Turn, HeadOfTurn, AnswerOfTurn, HeadKept, KeepsHead
<1> QED
  BY <1>1, TurnInvariance, PTL

\* An answer is stored right after the context it was given to.
THEOREM AnswersFollow == ASSUME OwnHandles, Compaction = FALSE PROVE Spec => []AnswerFollowsContext
<1>1. Sound /\ TurnInv => AnswerFollowsContext
  <2> SUFFICES ASSUME Sound, TurnInv, NEW l \in Calm, At(l, "alias")
               PROVE  Ancestors(run[l].reply) = Append(Ancestors(run[l].sent), run[l].reply)
    BY DEF AnswerFollowsContext
  <2>1. run[l].reply \in DOMAIN node /\ node[run[l].reply].parent = run[l].sent
    BY DEF TurnInv, Turn, AnswerOfTurn, IsAnswer, At
  <2>2. Older(node) /\ run[l].reply \in Nat
    BY <2>1, SoundStore DEF Sound
  <2> QED
    BY <2>1, <2>2, ChainStep, AncestorsChain
<1> QED
  BY <1>1, ApartInvariance, TurnInvariance, PTL

----------------------------------------------------------------------------
\* The order of tool results, and what a compaction makes of it.

\* A tool result of a run that was not disturbed when it wrote it.
CalmResult(m) == m.role = "tool" /\ m.calm = TRUE

\* Message m may stand directly behind message p.
Behind(m, p) ==
  CalmResult(m) =>
    IF m.call = 1
      THEN p.role = "assistant" /\ p.id = m.for
      ELSE p.role = "tool" /\ p.for = m.for /\ p.call = m.call - 1

\* ToolResultsFollowCall for message n of the table t; what it stands behind is no
\* message a loop could take back.
FollowsCall(n, t) ==
  LET m == t[n].msg
      p == t[n].parent
      q == IF p \in DOMAIN t /\ t[p].msg.role = "thinking" THEN t[p].parent ELSE p
  IN  CalmResult(m) =>
        IF m.call = 1
          THEN q \in DOMAIN t /\ Behind(m, t[q].msg)
          ELSE p \in DOMAIN t /\ Behind(m, t[p].msg)

\* The messages r has still to copy follow one another, and what is in t already.
CopiesInOrder(r, t) ==
  LET c == r.copies IN
  /\ r.pc \in {"summarise", "summary", "copy"} =>
       /\ \A i \in 2..Len(c) : Behind(c[i], c[i - 1])
       /\ \A i \in 1..Len(c) : ~PersistThinking => c[i].role # "thinking"
  /\ r.pc \in {"summarise", "summary"} /\ c # <<>> => c[1].role # "tool"
  /\ r.pc = "copy" /\ c # <<>> /\ CalmResult(c[1]) =>
       r.copyAt \in DOMAIN t /\ Behind(c[1], t[r.copyAt].msg)
  /\ r.pc = "thinking" => PersistThinking

RowInOrder(n, t) ==
  FollowsCall(n, t) /\ (~PersistThinking => t[n].msg.role # "thinking")

InOrder ==
  /\ \A n \in DOMAIN node : RowInOrder(n, node)
  /\ \A l \in Loops : CopiesInOrder(run[l], node)

\* Thinking is copied like any message: a tail that begins with it is cut off from
\* its answer.
ThinkingApart == Compaction => ~PersistThinking

LEMMA BehindKept ==
  ASSUME NEW l \in Loops, TakesOnly(l), NEW n \in DOMAIN node, n \in DOMAIN node',
         node'[n] = node[n], RowInOrder(n, node)
  PROVE  RowInOrder(n, node')
<1> DEFINE m == node[n].msg
           p == node[n].parent
<1>1. \A k \in DOMAIN node : node[k].msg.role # "user" => k \in DOMAIN node' /\ node'[k] = node[k]
  BY DEF TakesOnly
<1> SUFFICES ASSUME CalmResult(m) PROVE FollowsCall(n, node')
  BY DEF RowInOrder, FollowsCall
<1>2. CASE m.call # 1
  <2>1. p \in DOMAIN node /\ Behind(m, node[p].msg)
    BY <1>2 DEF RowInOrder, FollowsCall
  <2>2. node[p].msg.role = "tool"
    BY <1>2, <2>1 DEF Behind
  <2> QED
    BY <1>1, <1>2, <2>1, <2>2 DEF FollowsCall
<1>3. CASE m.call = 1
  <2> DEFINE q == IF p \in DOMAIN node /\ node[p].msg.role = "thinking"
                    THEN node[p].parent ELSE p
  <2>1. q \in DOMAIN node /\ Behind(m, node[q].msg)
    BY <1>3 DEF RowInOrder, FollowsCall
  <2>2. node[q].msg.role = "assistant"
    BY <1>3, <2>1 DEF Behind
  <2>3. q \in DOMAIN node' /\ node'[q] = node[q]
    BY <1>1, <2>1, <2>2
  <2>4. p \in DOMAIN node /\ node[p].msg.role = "thinking" =>
          p \in DOMAIN node' /\ node'[p] = node[p]
    BY <1>1
  <2>5. CASE p \in DOMAIN node /\ node[p].msg.role = "thinking"
    BY <1>3, <2>1, <2>3, <2>4, <2>5 DEF FollowsCall
  <2>6. CASE ~(p \in DOMAIN node /\ node[p].msg.role = "thinking")
    BY <1>3, <2>1, <2>2, <2>3, <2>6 DEF FollowsCall
  <2> QED
    BY <2>5, <2>6
<1> QED
  BY <1>2, <1>3

\* A message that stands behind another in a chain without thinking.
LEMMA ChainBehind ==
  ASSUME ~PersistThinking, \A n \in DOMAIN node : RowInOrder(n, node),
         NEW n \in DOMAIN node, node[n].parent \in DOMAIN node
  PROVE  Behind(node[n].msg, node[node[n].parent].msg)
<1>1. RowInOrder(n, node) /\ RowInOrder(node[n].parent, node)
  OBVIOUS
<1> QED
  BY <1>1 DEF RowInOrder, FollowsCall, Behind

\* The tail that a compaction keeps is in order.
LEMMA CopiesBegin ==
  ASSUME ThinkingApart, Sound, NEW l \in Loops, Bound(l), ReadTail(l),
         \A n \in DOMAIN node : RowInOrder(n, node), NEW t
  PROVE  CopiesInOrder(run'[l], t)
<1> DEFINE chain == Ancestors(HeadNode(l))
           b == TailStart(chain)
<1>1. /\ Compaction
      /\ chain \in Seq(Nat) /\ Len(chain) > KeepLastN + 1
      /\ run'[l].pc = "summarise" /\ run'[l].copies = CopiesOf(chain, b)
  <2> DEFINE r == [run[l] EXCEPT !.pc = "summarise", !.copies = CopiesOf(chain, b),
                                 !.copyAt = chain[1]]
  <2>1. r.pc = "summarise" /\ r.copies = CopiesOf(chain, b)
    BY SoundLocals DEF Locals
  <2>2. run'[l] = r /\ Compaction /\ chain \in Seq(Nat) /\ Len(chain) > KeepLastN + 1
    BY ReadEffect
  <2> HIDE DEF r
  <2> QED
    BY <2>1, <2>2
<1>2. HeadNode(l) \in Nat
  BY BoundBranch, SoundStore
<1>3. /\ \A i \in 1..Len(chain) : chain[i] \in DOMAIN node
      /\ \A i \in 2..Len(chain) : node[chain[i]].parent = chain[i - 1]
  BY <1>2, SoundChain
<1> HIDE DEF chain
<1>4. b \in 2..(Len(chain) + 1) /\ (b <= Len(chain) => ~IsTool(chain[b]))
  BY <1>1, TailBegins
<1> HIDE DEF b
<1> DEFINE c == CopiesOf(chain, b)
<1>5. /\ c \in Seq(Messages) /\ Len(c) = Len(chain) - b + 1
      /\ \A i \in 1..Len(c) : c[i] = node[chain[b + i - 1]].msg
  <2>1. b \in 1..(Len(chain) + 1)
    BY <1>1, <1>4
  <2> QED
    BY <1>1, <1>3, <2>1, CopiesTyped
<1> HIDE DEF c
<1>6. Len(chain) \in Nat /\ b \in Nat /\ b >= 2 /\ Len(c) \in Nat
  BY <1>1, <1>4, <1>5
<1>7. ~PersistThinking
  BY <1>1 DEF ThinkingApart
<1>8. ASSUME NEW i \in 1..Len(c)
      PROVE  /\ b + i - 1 \in 2..Len(chain) /\ b + i - 1 \in 1..Len(chain)
             /\ chain[b + i - 1] \in DOMAIN node
             /\ c[i].role # "thinking"
  <2>1. b + i - 1 \in 2..Len(chain) /\ b + i - 1 \in 1..Len(chain)
    BY <1>5, <1>6
  <2> QED
    BY <1>3, <1>5, <1>7, <2>1 DEF RowInOrder
<1>9. ASSUME NEW i \in 2..Len(c) PROVE Behind(c[i], c[i - 1])
  <2>1. i \in 1..Len(c) /\ i - 1 \in 1..Len(c) /\ b + (i - 1) - 1 = b + i - 1 - 1
    BY <1>6
  <2> DEFINE n == chain[b + i - 1]
             k == chain[b + i - 1 - 1]
  <2>2. n \in DOMAIN node /\ k \in DOMAIN node /\ node[n].parent = k
    <3>1. b + i - 1 \in 2..Len(chain) /\ n \in DOMAIN node
      BY <1>8, <2>1
    <3>2. b + i - 1 - 1 \in 1..Len(chain)
      BY <1>6, <3>1
    <3> DEFINE x == b + i - 1
    <3>3. n = chain[x] /\ k = chain[x - 1]
      <4>1. b + i - 1 - 1 = x - 1
        BY <1>6
      <4> QED
        BY <4>1
    <3>4. x \in 2..Len(chain) /\ x - 1 \in 1..Len(chain)
      BY <3>1, <3>2
    <3>5. n \in DOMAIN node
      BY <3>1
    <3> HIDE DEF x, n, k
    <3> QED
      BY <1>3, <3>3, <3>4, <3>5
  <2>3. c[i] = node[n].msg /\ c[i - 1] = node[k].msg
    BY <1>5, <2>1
  <2> HIDE DEF n, k
  <2> QED
    BY <1>7, <2>2, <2>3, ChainBehind
<1>10. c # <<>> => c[1].role # "tool"
  <2> SUFFICES ASSUME c # <<>> PROVE c[1].role # "tool"
    OBVIOUS
  <2>1. 1 \in 1..Len(c) /\ b + 1 - 1 = b
    BY <1>5, <1>6
  <2>2. c[1] = node[chain[b]].msg /\ b <= Len(chain)
    BY <1>5, <1>6, <2>1
  <2> QED
    BY <1>4, <2>2 DEF IsTool
<1> QED
  BY <1>1, <1>8, <1>9, <1>10 DEF CopiesInOrder, c

\* The step of a loop, seen from itself.
LEMMA OrderOwnStep ==
  ASSUME ThinkingApart, Sound, NEW l \in Loops, Step(l), ~ \E s \in Loops : Spawn(l, s),
         \A n \in DOMAIN node : RowInOrder(n, node), CopiesInOrder(run[l], node)
  PROVE  CopiesInOrder(run'[l], node')
<1>0. run \in [Loops -> Locals] /\ run[l] \in Locals
  BY SoundLocals
<1>1. CASE \/ ReadHead(l) \/ AddUser(l) \/ BeginTurn(l) \/ CancelRetry(l) \/ Fail(l) \/ Continue(l)
           \/ HookResumes(l) \/ Stop(l) \/ Drain(l) \/ InterruptTools(l) \/ DrainCut(l)
           \/ ToolsDone(l) \/ AfterTools(l) \/ Finish(l) \/ Answer(l) \/ PickAlias(l)
           \/ StoreThinking(l) \/ Answered(l) \/ RunTool(l) \/ StartEagerTool(l)
  <2>0. Idle.pc = "idle"
    BY DEF Idle
  <2>1. run'[l].pc \notin {"summarise", "summary", "copy", "thinking"}
    <3>1. CASE \/ ReadHead(l) \/ AddUser(l) \/ BeginTurn(l) \/ CancelRetry(l) \/ Fail(l)
               \/ Continue(l) \/ HookResumes(l) \/ Stop(l) \/ Drain(l) \/ InterruptTools(l)
      BY <1>0, <2>0, <3>1 DEF ReadHead, AddUser, BeginTurn, CancelRetry, Fail, Continue, HookResumes,
         Stop, Drain, InterruptTools, TakeSteering, At, Locals
    <3>2. CASE DrainCut(l) \/ ToolsDone(l) \/ AfterTools(l) \/ Finish(l) \/ Answer(l)
      BY <1>0, <2>0, <3>2 DEF DrainCut, ToolsDone, AfterTools, Finish, Answer, TakeSteering, At, Locals
    <3>3. CASE PickAlias(l) \/ StoreThinking(l) \/ Answered(l)
      BY <1>0, <3>3 DEF PickAlias, StoreThinking, Answered, At, Locals
    <3>4. CASE RunTool(l) \/ StartEagerTool(l)
      BY <1>0, <3>4 DEF RunTool, StartEagerTool, At, Locals
    <3> QED
      BY <1>1, <3>1, <3>2, <3>3, <3>4
  <2> QED
    BY <2>1 DEF CopiesInOrder
<1>2. CASE SkipCompaction(l) \/ EndCompaction(l)
  <2>1. run'[l].pc \in {"idle", "call", "exit"}
    <3>1. CASE EndCompaction(l) /\ l \in Screens
      BY <1>0, <3>1 DEF EndCompaction, Idle
    <3>2. CASE EndCompaction(l) /\ l \notin Screens
      <4>1. PICK p \in {"call", "exit"} :
              run' = [run EXCEPT ![l].pc = p, ![l].sent = HeadNode(l)]
        BY <3>2 DEF EndCompaction, AfterPrepare
      <4> QED
        BY <1>0, <4>1 DEF Locals
    <3>3. CASE SkipCompaction(l)
      <4>1. PICK p \in {"call", "exit"} : run' = [run EXCEPT ![l].pc = p]
        BY <3>3 DEF SkipCompaction, AfterPrepare
      <4> QED
        BY <1>0, <4>1 DEF Locals
    <3> QED
      BY <1>2, <3>1, <3>2, <3>3
  <2> QED
    BY <2>1 DEF CopiesInOrder
<1>3. CASE CallFails(l) \/ CallAnswers(l)
  <2>1. RetryOrFail(l) \in {"call", "failed"}
    BY DEF RetryOrFail
  <2>2. run'[l].pc \in {"call", "failed", "answer"}
    <3>1. CASE CallFails(l)
      BY <1>0, <2>1, <3>1 DEF CallFails, Locals
    <3>2. CASE CallAnswers(l)
      BY <1>0, <2>1, <3>2 DEF CallAnswers, Locals
    <3> QED
      BY <1>3, <3>1, <3>2
  <2> QED
    BY <2>2 DEF CopiesInOrder
<1>4. CASE StoreAlias(l)
  <2>1. \/ run'[l].pc = "answered"
        \/ run'[l].pc = "thinking" /\ run[l].resp.thinks
    BY <1>0, <1>4 DEF StoreAlias, Locals
  <2>2. run[l].resp.thinks => PersistThinking
    <3>1. run[l].resp \in Responses \/ run[l].resp = NoResp
      BY <1>0 DEF Locals
    <3>2. PersistThinking \in BOOLEAN
      BY LoopAssumption
    <3>3. CASE run[l].resp = NoResp
      BY <3>3 DEF NoResp
    <3>4. CASE run[l].resp \in Responses /\ ~PersistThinking
      <4>1. run[l].resp.thinks \in {FALSE}
        BY <3>4 DEF Responses
      <4> QED
        BY <4>1
    <3> QED
      BY <3>1, <3>2, <3>3, <3>4
  <2> QED
    BY <2>1, <2>2 DEF CopiesInOrder
<1>5. CASE Compact(l)
  <2>1. Bound(l) /\ ReadTail(l)
    BY <1>5, Kinds, ActiveBound DEF Compact
  <2> QED
    BY <2>1, CopiesBegin
<1>8. CASE OpenCompacted(l)
  <2>1. /\ run[l].pc = "summarise" /\ run'[l].pc = "summary"
        /\ run'[l].copies = run[l].copies
    BY <1>0, <1>8 DEF OpenCompacted, Locals, At
  <2> QED
    BY <2>1 DEF CopiesInOrder
<1>6. CASE AddSummary(l)
  <2>1. run[l].pc = "summary" /\ run'[l].pc = "copy" /\ run'[l].copies = run[l].copies
    BY <1>0, <1>6 DEF AddSummary, Locals, At
  <2> QED
    BY <2>1 DEF CopiesInOrder, CalmResult
<1>7. CASE CopyTail(l)
  <2> DEFINE c == run[l].copies
             d == Tail(c)
  <2>1. /\ run[l].pc = "copy" /\ c # <<>> /\ c \in Seq(Messages)
        /\ run'[l].pc = "copy" /\ run'[l].copies = d /\ run'[l].copyAt = nextNode
    BY <1>0, <1>7 DEF CopyTail, Locals, At
  <2>2. Says(l, run[l].copyAt, Head(c)) /\ AddNode(HandleOf[l], run[l].copyAt, Head(c))
    BY <1>7, <2>1 DEF CopyTail, AddNodeBy, Says, At
  <2>3. nextNode \in DOMAIN node' /\ node'[nextNode].msg = Head(c)
    BY <2>2, NewHead
  <2>4. /\ \A i \in 2..Len(c) : Behind(c[i], c[i - 1])
        /\ \A i \in 1..Len(c) : ~PersistThinking => c[i].role # "thinking"
    BY <2>1 DEF CopiesInOrder
  <2> HIDE DEF c
  <2>5. Len(d) = Len(c) - 1 /\ Len(c) \in Nat /\ \A i \in 1..Len(d) : d[i] = c[i + 1]
    BY <2>1
  <2>6. Head(c) = c[1]
    BY <2>1
  <2> HIDE DEF d
  <2>7. \A i \in 2..Len(d) : Behind(d[i], d[i - 1])
    <3> SUFFICES ASSUME NEW i \in 2..Len(d) PROVE Behind(d[i], d[i - 1])
      OBVIOUS
    <3>1. i \in 1..Len(d) /\ i - 1 \in 1..Len(d) /\ i + 1 \in 2..Len(c) /\ (i + 1) - 1 = i /\ i - 1 + 1 = i
      BY <2>5
    <3>2. d[i] = c[i + 1] /\ d[i - 1] = c[i]
      BY <2>5, <3>1
    <3>3. Behind(c[i + 1], c[(i + 1) - 1])
      BY <2>4, <3>1
    <3> QED
      BY <3>1, <3>2, <3>3
  <2>8. \A i \in 1..Len(d) : ~PersistThinking => d[i].role # "thinking"
    BY <2>4, <2>5
  <2>9. d # <<>> => Behind(d[1], c[1])
    <3> SUFFICES ASSUME d # <<>> PROVE Behind(d[1], c[1])
      OBVIOUS
    <3>1. d \in Seq(Messages)
      BY <2>1 DEF d
    <3>2. 1 \in 1..Len(d) /\ 2 \in 2..Len(c)
      BY <2>5, <3>1
    <3>3. d[1] = c[2] /\ Behind(c[2], c[2 - 1])
      BY <2>4, <2>5, <3>2
    <3> QED
      BY <3>3
  <2> QED
    BY <2>1, <2>3, <2>6, <2>7, <2>8, <2>9 DEF CopiesInOrder
<1> QED
  BY <1>1, <1>2, <1>3, <1>4, <1>5, <1>6, <1>7, <1>8 DEF Step

\* Which messages a loop writes where.
LEMMA SaysRole ==
  ASSUME Sound, NEW l \in Loops, NEW p, NEW msg, Says(l, p, msg)
  PROVE  \/ At(l, "copy")
         \/ At(l, "tools") /\ msg.role = "tool"
         \/ At(l, "thinking") /\ msg.role = "thinking"
         \/ ~At(l, "copy") /\ msg.role \in {"user", "assistant"}
<1>1. "user" \in Roles /\ "assistant" \in Roles /\ "thinking" \in Roles
  BY DEF Roles
<1>2. /\ Message("user", l).role = "user" /\ Message("assistant", l).role = "assistant"
      /\ Message("thinking", l).role = "thinking"
      /\ ToolResult(l, run[l].done + 1).role = "tool"
      /\ [Message("assistant", l) EXCEPT !.calls = run[l].resp.calls].role = "assistant"
  BY <1>1, PlainMessage, AnswerMessage, ResultMessage
<1> QED
  BY <1>2 DEF Says, At

\* The rows a step of a loop leaves in the table.
LEMMA OrderRows ==
  ASSUME ThinkingApart, Sound, TurnInv, InOrder, NEW l \in Loops, Step(l)
  PROVE  \A n \in DOMAIN node' : RowInOrder(n, node')
<1>1. Active(l) /\ HandleOf[l] \in Handles /\ current[HandleOf[l]] \in Branches
  BY Kinds, ActiveBound, BoundBranch
<1>2. TakesOnly(l) /\ \A n \in DOMAIN node : RowInOrder(n, node)
  BY StepTakesOnly DEF InOrder
<1>3. ASSUME NEW n \in DOMAIN node', n \in DOMAIN node, node'[n] = node[n]
      PROVE  RowInOrder(n, node')
  BY <1>2, <1>3, BehindKept
<1>4. CASE node' = node
  BY <1>2, <1>4
<1>5. CASE TakesUserBack(l)
  <2>1. UNCHANGED dagVars \/ Removes(current[HandleOf[l]], run[l].userNode)
    BY <1>1, <1>5, RemoveEffect DEF TakesUserBack
  <2> QED
    BY <1>3, <1>4, <2>1 DEF Removes, dagVars
<1>6. CASE SaysNode(l)
  <2>1. PICK p, msg : Says(l, p, msg) /\ AddNode(HandleOf[l], p, msg)
    BY <1>6 DEF SaysNode
  <2>2. Adds(current[HandleOf[l]], p, msg)
    BY <2>1, SaysEffect
  <2>3. /\ DOMAIN node' = DOMAIN node \cup {nextNode} /\ nextNode \notin DOMAIN node
        /\ node'[nextNode].parent = p /\ node'[nextNode].msg = msg
        /\ \A n \in DOMAIN node : node'[n] = node[n]
    BY <2>2, SoundStore DEF Adds
  <2>4. ~PersistThinking => msg.role # "thinking"
    <3>1. CASE At(l, "copy")
      <4>1. run[l].copies # <<>> /\ msg = Head(run[l].copies)
        BY <2>1, <3>1 DEF Says, At
      <4>2. run[l].copies \in Seq(Messages)
        BY SoundLocals DEF Locals
      <4>3. 1 \in 1..Len(run[l].copies) /\ msg = run[l].copies[1]
        BY <4>1, <4>2
      <4>4. CopiesInOrder(run[l], node)
        BY DEF InOrder
      <4> QED
        BY <3>1, <4>3, <4>4 DEF CopiesInOrder, At
    <3>2. CASE At(l, "thinking")
      BY <3>2 DEF InOrder, CopiesInOrder, At
    <3>3. CASE ~At(l, "copy") /\ ~At(l, "thinking")
      BY <2>1, <3>3, SaysRole
    <3> QED
      BY <3>1, <3>2, <3>3
  <2>5. FollowsCall(nextNode, node')
    <3> SUFFICES ASSUME CalmResult(msg) PROVE FollowsCall(nextNode, node')
      BY <2>3 DEF FollowsCall
    <3>1. At(l, "tools") \/ At(l, "copy")
      BY <2>1, SaysRole DEF CalmResult
    <3>2. CASE At(l, "tools")
      <4> DEFINE a == run[l].reply
      <4>1. p = HeadNode(l) /\ msg = ToolResult(l, run[l].done + 1)
        BY <2>1, <3>2 DEF Says, At
      <4>2. msg.for = a /\ msg.call = run[l].done + 1 /\ run[l].done \in Nat
        BY <4>1, ResultMessage, SoundLocals DEF Locals
      <4>0. l \in Calm
        BY <4>1, ResultCalm DEF CalmResult
      <4>3. Turn(run[l], p, node)
        BY <4>0, <4>1 DEF TurnInv
      <4>4. CASE run[l].done = 0
        <5>1. IsAnswer(node, a) /\ EndsWithAnswer(node, p, a) /\ msg.call = 1
          BY <3>2, <4>2, <4>3, <4>4 DEF Turn, AnswerOfTurn, At
        <5>2. IsAnswer(node', a) /\ EndsWithAnswer(node', p, a)
          BY <2>3, <5>1 DEF IsAnswer, EndsWithAnswer
        <5> QED
          BY <2>3, <4>2, <5>1, <5>2 DEF FollowsCall, Behind, IsAnswer, EndsWithAnswer
      <4>5. CASE run[l].done # 0
        <5>1. /\ p \in DOMAIN node /\ node[p].msg.role = "tool" /\ node[p].msg.for = a
              /\ node[p].msg.call = run[l].done
          BY <3>2, <4>3, <4>5 DEF Turn, AnswerOfTurn, At
        <5>2. msg.call # 1 /\ msg.call - 1 = run[l].done
          BY <4>2, <4>5
        <5> QED
          BY <2>3, <4>2, <5>1, <5>2 DEF FollowsCall, Behind
      <4> QED
        BY <4>4, <4>5
    <3>3. CASE At(l, "copy")
      <4>1. run[l].copies # <<>> /\ msg = Head(run[l].copies) /\ p = run[l].copyAt
        BY <2>1, <3>3 DEF Says, At
      <4>2. run[l].copies \in Seq(Messages)
        BY SoundLocals DEF Locals
      <4>3. msg = run[l].copies[1]
        BY <4>1, <4>2
      <4>4. CopiesInOrder(run[l], node)
        BY DEF InOrder
      <4>5. p \in DOMAIN node /\ Behind(msg, node[p].msg)
        BY <3>3, <4>1, <4>3, <4>4 DEF CopiesInOrder, At
      <4>6. node[p].msg.role # "thinking"
        BY <4>5 DEF Behind
      <4> QED
        BY <2>3, <4>5, <4>6 DEF FollowsCall
    <3> QED
      BY <3>1, <3>2, <3>3
  <2>6. RowInOrder(nextNode, node')
    BY <2>3, <2>4, <2>5 DEF RowInOrder
  <2> QED
    BY <1>3, <2>3, <2>6
<1>7. CASE UNCHANGED dagVars \/ StoreAlias(l) \/ Compact(l) \/ OpenCompacted(l)
          \/ \E s \in Loops : Spawn(l, s)
  <2>1. node' = node
    BY <1>7 DEF dagVars, StoreAlias, SetAlias, Compact, ReadTail, OpenCompacted, Branch,
          Spawn, ForkFrom
  <2> QED
    BY <1>4, <2>1
<1> QED
  BY <1>5, <1>6, <1>7, Kinds

\* What else a step leaves to a loop that does not take it.
LEMMA OrderKept ==
  ASSUME NEW l \in Loops, TakesOnly(l), NEW r, CopiesInOrder(r, node) PROVE CopiesInOrder(r, node')
<1>1. \A n \in DOMAIN node : node[n].msg.role # "user" => n \in DOMAIN node' /\ node'[n] = node[n]
  BY DEF TakesOnly
<1>2. ASSUME NEW m, CalmResult(m), r.copyAt \in DOMAIN node, Behind(m, node[r.copyAt].msg)
      PROVE  r.copyAt \in DOMAIN node' /\ Behind(m, node'[r.copyAt].msg)
  <2>1. node[r.copyAt].msg.role # "user"
    BY <1>2 DEF Behind
  <2> QED
    BY <1>1, <1>2, <2>1
<1> QED
  BY <1>2 DEF CopiesInOrder

LEMMA OrderStep ==
  ASSUME ThinkingApart, Sound, TurnInv, InOrder, NEW l \in Loops, Step(l) PROVE InOrder'
<1>1. \A r, t : r.pc \in {"idle", "begin"} => CopiesInOrder(r, t)
  BY DEF CopiesInOrder
<1>2. \A n \in DOMAIN node' : RowInOrder(n, node')
  BY OrderRows
<1>3. ASSUME NEW k \in Loops PROVE CopiesInOrder(run'[k], node')
  <2>1. CASE k = l /\ ~ \E s \in Loops : Spawn(l, s)
    BY <2>1, OrderOwnStep DEF InOrder
  <2>2. CASE run'[k] = run[k]
    BY <2>2, StepTakesOnly, OrderKept DEF InOrder
  <2>3. CASE \E s \in Loops : Spawn(l, s)
    BY <1>1, <2>2, <2>3, SpawnBegins
  <2>4. CASE k # l /\ ~ \E s \in Loops : Spawn(l, s)
    <3>1. run'[k] = run[k]
      <4>1. CASE Compact(l)
        BY <2>4, <4>1, SoundLocals DEF Compact, ReadTail
      <4>2. CASE OpenCompacted(l)
        BY <2>4, <4>2, SoundLocals DEF OpenCompacted
      <4> QED
        BY <2>4, <4>1, <4>2, Kinds DEF Own
    <3> QED
      BY <2>2, <3>1
  <2> QED
    BY <2>1, <2>3, <2>4
<1> QED
  BY <1>2, <1>3 DEF InOrder

LEMMA OrderNext ==
  ASSUME ThinkingApart, Sound, TurnInv, InOrder, [Next]_vars PROVE InOrder'
<1>1. \A r, t : r.pc \in {"idle", "begin"} => CopiesInOrder(r, t)
  BY DEF CopiesInOrder
<1>2. CASE \E l \in Loops : Step(l)
  BY <1>2, OrderStep
<1>3. CASE CompactCommand
  <2>1. PICK l \in Screens : ReadTail(l)
    BY <1>3 DEF CompactCommand
  <2>2. l \in Loops /\ Bound(l)
    BY ScreenBound
  <2>3. node' = node /\ \A k \in Loops \ {l} : run'[k] = run[k]
    BY <2>1, <2>2, SoundLocals DEF ReadTail, dagVars
  <2>4. CopiesInOrder(run'[l], node')
    BY <2>1, <2>2, CopiesBegin DEF InOrder
  <2> QED
    BY <2>3, <2>4 DEF InOrder
<1>4. ASSUME \/ \E l \in Loops : UserInput(l)
             \/ Steer \/ New \/ Clear \/ Fork \/ Switch \/ Crash \/ UNCHANGED vars
      PROVE  InOrder'
  <2>1. node' = node
    BY <1>4 DEF UserInput, Steer, New, Clear, Fork, Switch, Command, NewBranch, ResetHead, Branch,
                SwitchBranch, Crash, Reopen, vars, dagVars
  <2>2. ASSUME NEW k \in Loops PROVE CopiesInOrder(run'[k], node')
    <3>1. CASE run' = run
      BY <2>1, <3>1 DEF InOrder
    <3>2. CASE Crash
      <4>1. run'[k].pc = "idle"
        BY <3>2 DEF Crash, Idle
      <4> QED
        BY <1>1, <4>1
    <3>3. ASSUME NEW l \in Loops, UserInput(l) PROVE CopiesInOrder(run'[k], node')
      <4>1. CASE k # l
        <5>1. run'[k] = run[k]
          BY <3>3, <4>1, SoundLocals DEF UserInput
        <5> QED
          BY <2>1, <5>1 DEF InOrder
      <4>2. CASE k = l
        <5>1. [Idle EXCEPT !.pc = "begin"].pc = "begin"
          BY DEF Idle
        <5>2. run[k].pc = "idle"
          BY <3>3, <4>2 DEF UserInput, At
        <5>3. run'[k].pc \in {"idle", "begin"}
          BY <3>3, <4>2, <5>1, <5>2, SoundLocals DEF UserInput
        <5> QED
          BY <1>1, <5>3
      <4> QED
        BY <4>1, <4>2
    <3> QED
      BY <1>4, <3>1, <3>2, <3>3 DEF Steer, New, Clear, Fork, Switch, Command, vars
  <2> QED
    BY <2>1, <2>2 DEF InOrder
<1> QED
  BY <1>2, <1>3, <1>4 DEF Next

LEMMA OrderInit == Init => InOrder
  BY DEF Init, DagInit, InOrder, CopiesInOrder, Idle

\* The tool results of a run stand behind the call they answer, also in the copies
\* a compaction makes of them, unless a command has disturbed the run before.
THEOREM ResultsFollowCalls ==
  ASSUME OwnHandles, ThinkingApart PROVE Spec => []ToolResultsFollowCall
<1>1. Sound /\ TurnInv /\ InOrder /\ [Next]_vars => InOrder'
  BY OrderNext
<1>2. InOrder => ToolResultsFollowCall
  BY DEF InOrder, RowInOrder, FollowsCall, Behind, CalmResult, ToolResultsFollowCall
<1> QED
  BY <1>1, <1>2, OrderInit, Soundness, TurnInvariance, PTL DEF Spec

----------------------------------------------------------------------------
\* The message a run is about, on the way to its first call.

\* m is the user message u of loop l, or a copy of it.
Asks(m, l, u) == m.id = u /\ m.by = l /\ m.role = "user"

AsksAt(t, n, l, u) == n \in DOMAIN t /\ Asks(t[n].msg, l, u)

\* Of loop l with locals r on a branch with head h, in the table t.
MessageCarried(l, r, h, t) ==
  LET c == r.copies IN
  r.turn = 0 =>
    /\ r.pc \in {"turn", "prepare"} => AsksAt(t, h, l, r.userNode)
    /\ r.pc = "call" => AsksAt(t, r.sent, l, r.userNode)
    /\ r.pc \in {"summarise", "summary"} => c # <<>> /\ Asks(c[Len(c)], l, r.userNode)
    /\ r.pc = "copy" =>
         IF c # <<>> THEN Asks(c[Len(c)], l, r.userNode) ELSE AsksAt(t, h, l, r.userNode)

\* Of the runs that no command has disturbed.
Carried == \A l \in Calm : MessageCarried(l, run[l], HeadNode(l), node)

LEMMA CarriedKept ==
  ASSUME NEW l \in Loops, TakesOnly(l), NEW k \in Loops \ {l}, Untouched(k),
         MessageCarried(k, run[k], HeadNode(k), node)
  PROVE  MessageCarried(k, run'[k], HeadNode(k)', node')
<1> DEFINE r == run[k]
           h == HeadNode(k)
<1>1. run'[k] = r /\ HeadNode(k)' = h
  BY DEF Untouched
<1>2. ASSUME NEW n, AsksAt(node, n, k, r.userNode) PROVE AsksAt(node', n, k, r.userNode)
  BY <1>2 DEF AsksAt, Asks, TakesOnly
<1> HIDE DEF r, h
<1>3. MessageCarried(k, r, h, node)
  BY DEF r, h
<1>4. MessageCarried(k, r, h, node')
  BY <1>2, <1>3 DEF MessageCarried
<1> QED
  BY <1>1, <1>4

\* A compaction keeps the message in its tail, as the last one.
LEMMA CarriedAway ==
  ASSUME Sound, NEW l \in Loops, Bound(l), ReadTail(l), NEW u,
         AsksAt(node, HeadNode(l), l, u)
  PROVE  LET c == run'[l].copies IN c # <<>> /\ Asks(c[Len(c)], l, u)
<1> DEFINE chain == Ancestors(HeadNode(l))
           b == TailStart(chain)
<1>1. /\ chain \in Seq(Nat) /\ Len(chain) > KeepLastN + 1
      /\ run'[l].copies = CopiesOf(chain, b)
  <2> DEFINE x == [run[l] EXCEPT !.pc = "summarise", !.copies = CopiesOf(chain, b),
                                 !.copyAt = chain[1]]
  <2>1. x.copies = CopiesOf(chain, b)
    BY SoundLocals DEF Locals
  <2>2. run'[l] = x /\ chain \in Seq(Nat) /\ Len(chain) > KeepLastN + 1
    BY ReadEffect
  <2> HIDE DEF x
  <2> QED
    BY <2>1, <2>2
<1>2. HeadNode(l) \in Nat /\ HeadNode(l) \in DOMAIN node
  BY BoundBranch, SoundStore DEF AsksAt
<1>3. /\ \A i \in 1..Len(chain) : chain[i] \in DOMAIN node
      /\ chain[Len(chain)] = HeadNode(l)
  BY <1>2, SoundChain
<1> HIDE DEF chain
<1>4. /\ b \in 2..(Len(chain) + 1) /\ Len(chain) - KeepLastN + 1 <= Len(chain)
      /\ \A j \in (Len(chain) - KeepLastN + 1)..(b - 1) : IsTool(chain[j])
  BY <1>1, TailBegins
<1> HIDE DEF b
<1>5. Len(chain) \in Nat /\ b \in Nat /\ KeepLastN \in Nat
  BY <1>1, <1>4, LoopAssumption
<1>6. ~IsTool(chain[Len(chain)])
  BY <1>3 DEF AsksAt, Asks, IsTool
<1>7. b <= Len(chain)
  <2> SUFFICES ASSUME b > Len(chain) PROVE FALSE
    BY <1>5
  <2>1. Len(chain) \in (Len(chain) - KeepLastN + 1)..(b - 1)
    BY <1>4, <1>5
  <2> QED
    BY <1>4, <1>6, <2>1
<1> DEFINE c == CopiesOf(chain, b)
<1>8. /\ c \in Seq(Messages) /\ Len(c) = Len(chain) - b + 1
      /\ \A i \in 1..Len(c) : c[i] = node[chain[b + i - 1]].msg
  <2>1. b \in 1..(Len(chain) + 1)
    BY <1>1, <1>4
  <2> QED
    BY <1>1, <1>3, <2>1, CopiesTyped
<1> HIDE DEF c
<1>9. Len(c) \in 1..Len(c) /\ b + Len(c) - 1 = Len(chain)
  BY <1>5, <1>7, <1>8
<1>10. c[Len(c)] = node[HeadNode(l)].msg /\ c # <<>>
  BY <1>3, <1>8, <1>9
<1> QED
  BY <1>1, <1>10 DEF AsksAt, c

\* The step of a loop, seen from itself.
LEMMA CarriedOwnStep ==
  ASSUME Sound, NEW l \in Loops, Step(l), ~ \E s \in Loops : Spawn(l, s),
         Turn(run[l], HeadNode(l), node), MessageCarried(l, run[l], HeadNode(l), node)
  PROVE  MessageCarried(l, run'[l], HeadNode(l)', node')
<1>0. run \in [Loops -> Locals] /\ run[l] \in Locals /\ run[l].turn \in Nat
  BY SoundLocals DEF Locals
<1>1. ASSUME UNCHANGED dagVars PROVE HeadNode(l)' = HeadNode(l) /\ node' = node
  BY <1>1 DEF dagVars, HeadNode, HeadOf
<1>2. ASSUME \/ run'[l].pc \notin {"turn", "prepare", "call", "summarise", "summary", "copy"}
             \/ run'[l].turn = run[l].turn + 1
      PROVE  MessageCarried(l, run'[l], HeadNode(l)', node')
  <2>1. run[l].turn + 1 # 0
    BY <1>0
  <2> QED
    BY <1>2, <2>1 DEF MessageCarried
<1>3. CASE \/ ReadHead(l) \/ CancelRetry(l) \/ Fail(l) \/ Stop(l) \/ InterruptTools(l)
           \/ ToolsDone(l) \/ AfterTools(l) \/ Finish(l)
  <2>1. run'[l].pc \notin {"turn", "prepare", "call", "summarise", "summary", "copy"}
    <3>1. Idle.pc = "idle"
      BY DEF Idle
    <3>2. CASE ReadHead(l) \/ CancelRetry(l) \/ Fail(l) \/ Stop(l)
      BY <1>0, <3>1, <3>2 DEF ReadHead, CancelRetry, Fail, Stop, Locals
    <3>3. CASE InterruptTools(l) \/ ToolsDone(l) \/ AfterTools(l) \/ Finish(l)
      BY <1>0, <3>1, <3>3 DEF InterruptTools, ToolsDone, AfterTools, Finish, Locals
    <3> QED
      BY <1>3, <3>2, <3>3
  <2> QED
    BY <1>2, <2>1
<1>4. CASE \/ Answer(l) \/ PickAlias(l) \/ StoreAlias(l) \/ StoreThinking(l) \/ Answered(l)
           \/ RunTool(l) \/ DrainCut(l)
  <2>1. run'[l].pc \notin {"turn", "prepare", "call", "summarise", "summary", "copy"}
    <3>1. CASE Answer(l) \/ PickAlias(l) \/ StoreAlias(l) \/ StoreThinking(l) \/ Answered(l)
      BY <1>0, <3>1 DEF Answer, PickAlias, StoreAlias, StoreThinking, Answered, Locals
    <3>2. CASE RunTool(l) \/ DrainCut(l)
      BY <1>0, <3>2 DEF RunTool, DrainCut, TakeSteering, At, Locals
    <3> QED
      BY <1>4, <3>1, <3>2
  <2> QED
    BY <1>2, <2>1
<1>5. CASE Continue(l) \/ HookResumes(l) \/ Drain(l)
  <2>1. run'[l].turn = run[l].turn + 1 \/ run'[l].pc = "drain"
    <3>1. CASE Continue(l) \/ HookResumes(l)
      BY <1>0, <3>1 DEF Continue, HookResumes, Locals
    <3>2. CASE Drain(l)
      BY <1>0, <3>2 DEF Drain, TakeSteering, At, Locals
    <3> QED
      BY <1>5, <3>1, <3>2
  <2> QED
    BY <1>2, <2>1
<1>6. CASE AddUser(l)
  <2> DEFINE msg == Message("user", l)
  <2>1. run'[l].pc = "turn" /\ run'[l].userNode = nextNode
    BY <1>0, <1>6 DEF AddUser, Locals
  <2>2. Says(l, run[l].at, msg) /\ AddNode(HandleOf[l], run[l].at, msg)
    BY <1>6 DEF AddUser, AddNodeBy, Says, At
  <2>3. Asks(msg, l, nextNode)
    BY PlainMessage DEF Asks, Roles
  <2> HIDE DEF msg
  <2>4. HeadNode(l)' = nextNode /\ nextNode \in DOMAIN node' /\ node'[nextNode].msg = msg
    BY <2>2, NewHead
  <2> QED
    BY <2>1, <2>3, <2>4 DEF MessageCarried, AsksAt
<1>7. CASE BeginTurn(l)
  <2>1. \/ run'[l].pc = "exit"
        \/ /\ run[l].pc = "turn" /\ run'[l].pc = "prepare" /\ run'[l].turn = run[l].turn
           /\ run'[l].userNode = run[l].userNode
           /\ HeadNode(l)' = HeadNode(l) /\ node' = node
    BY <1>0, <1>1, <1>7 DEF BeginTurn, At, Locals
  <2> QED
    BY <2>1 DEF MessageCarried
<1>8. CASE SkipCompaction(l)
  <2>1. PICK p \in {"call", "exit"} : run' = [run EXCEPT ![l].pc = p]
    BY <1>8 DEF SkipCompaction, AfterPrepare
  <2>2. /\ run[l].pc = "prepare" /\ run'[l].pc = p /\ run'[l].turn = run[l].turn
        /\ run'[l].userNode = run[l].userNode /\ run'[l].sent = run[l].sent /\ node' = node
    BY <1>0, <1>1, <1>8, <2>1 DEF SkipCompaction, At, Locals
  <2>3. run[l].sent = HeadNode(l)
    BY <2>2 DEF Turn, HeadOfTurn
  <2> QED
    BY <2>2, <2>3 DEF MessageCarried
<1>9. CASE CallFails(l) \/ CallAnswers(l) \/ StartEagerTool(l)
  <2>1. /\ run[l].pc = "call" /\ run'[l].pc \in {"call", "failed", "answer"}
        /\ run'[l].turn = run[l].turn /\ run'[l].userNode = run[l].userNode
        /\ run'[l].sent = run[l].sent /\ node' = node
    <3>1. RetryOrFail(l) \in {"call", "failed"}
      BY DEF RetryOrFail
    <3>2. CASE CallFails(l)
      BY <1>0, <1>1, <3>1, <3>2 DEF CallFails, At, Locals
    <3>3. CASE CallAnswers(l)
      BY <1>0, <1>1, <3>1, <3>3 DEF CallAnswers, At, Locals
    <3>4. CASE StartEagerTool(l)
      BY <1>0, <1>1, <3>4 DEF StartEagerTool, At, Locals
    <3> QED
      BY <1>9, <3>2, <3>3, <3>4
  <2> QED
    BY <2>1 DEF MessageCarried
<1>10. CASE Compact(l)
  <2>1. run[l].pc = "prepare" /\ Bound(l) /\ ReadTail(l)
    BY <1>10, Kinds, ActiveBound DEF Compact, At
  <2>2. /\ run'[l].pc = "summarise" /\ run'[l].turn = run[l].turn
        /\ run'[l].userNode = run[l].userNode
    BY <1>0, <2>1 DEF ReadTail, Locals
  <2> QED
    BY <2>1, <2>2, CarriedAway DEF MessageCarried
<1>14. CASE OpenCompacted(l)
  <2>1. /\ run[l].pc = "summarise" /\ run'[l].pc = "summary" /\ run'[l].copies = run[l].copies
        /\ run'[l].turn = run[l].turn /\ run'[l].userNode = run[l].userNode
    BY <1>0, <1>14 DEF OpenCompacted, At, Locals
  <2> QED
    BY <2>1 DEF MessageCarried
<1>11. CASE AddSummary(l)
  <2>1. /\ run[l].pc = "summary" /\ run'[l].pc = "copy" /\ run'[l].copies = run[l].copies
        /\ run'[l].turn = run[l].turn /\ run'[l].userNode = run[l].userNode
    BY <1>0, <1>11 DEF AddSummary, At, Locals
  <2> QED
    BY <2>1 DEF MessageCarried
<1>12. CASE CopyTail(l)
  <2> DEFINE c == run[l].copies
             d == Tail(c)
  <2>1. /\ run[l].pc = "copy" /\ c # <<>> /\ c \in Seq(Messages)
        /\ run'[l].pc = "copy" /\ run'[l].copies = d
        /\ run'[l].turn = run[l].turn /\ run'[l].userNode = run[l].userNode
    BY <1>0, <1>12 DEF CopyTail, At, Locals
  <2>2. Says(l, run[l].copyAt, Head(c)) /\ AddNode(HandleOf[l], run[l].copyAt, Head(c))
    BY <1>12, <2>1 DEF CopyTail, AddNodeBy, Says, At
  <2>3. HeadNode(l)' = nextNode /\ nextNode \in DOMAIN node' /\ node'[nextNode].msg = Head(c)
    BY <2>2, NewHead
  <2>4. ASSUME run[l].turn = 0
        PROVE  Asks(c[Len(c)], l, run[l].userNode)
    BY <2>1, <2>4 DEF MessageCarried
  <2> HIDE DEF c
  <2>5. /\ d # <<>> => d[Len(d)] = c[Len(c)]
        /\ d = <<>> => Head(c) = c[Len(c)]
    <3>1. /\ Len(c) \in Nat /\ Len(c) > 0 /\ Len(d) = Len(c) - 1 /\ Head(c) = c[1]
          /\ d \in Seq(Messages)
          /\ \A i \in 1..Len(d) : d[i] = c[i + 1]
      BY <2>1
    <3> HIDE DEF d
    <3>2. CASE d = <<>>
      <4>1. Len(c) = 1
        BY <3>1, <3>2
      <4> QED
        BY <3>1, <3>2, <4>1
    <3>3. CASE d # <<>>
      <4>1. Len(d) \in 1..Len(d) /\ Len(d) + 1 = Len(c)
        BY <3>1, <3>3
      <4> QED
        BY <3>1, <3>3, <4>1
    <3> QED
      BY <3>2, <3>3
  <2> HIDE DEF d
  <2> QED
    BY <2>1, <2>3, <2>4, <2>5 DEF MessageCarried, AsksAt
<1>13. CASE EndCompaction(l)
  <2>1. CASE l \in Screens
    <3>1. run'[l].pc = "idle"
      BY <1>0, <1>13, <2>1 DEF EndCompaction, Idle
    <3> QED
      BY <1>2, <3>1
  <2>2. CASE l \notin Screens
    <3>1. PICK p \in {"call", "exit"} : run' = [run EXCEPT ![l].pc = p, ![l].sent = HeadNode(l)]
      BY <1>13, <2>2 DEF EndCompaction, AfterPrepare
    <3>2. /\ run[l].pc = "copy" /\ run[l].copies = <<>> /\ run'[l].pc = p
          /\ run'[l].turn = run[l].turn /\ run'[l].userNode = run[l].userNode
          /\ run'[l].sent = HeadNode(l) /\ node' = node
      BY <1>0, <1>1, <1>13, <3>1 DEF EndCompaction, At, Locals
    <3> QED
      BY <2>2, <3>2 DEF MessageCarried
  <2> QED
    BY <2>1, <2>2
<1> QED
  BY <1>3, <1>4, <1>5, <1>6, <1>7, <1>8, <1>9, <1>10, <1>11, <1>12, <1>13, <1>14
     DEF Step

LEMMA CarriedStep ==
  ASSUME Sound, BranchesApart, TurnInv, Carried, NEW l \in Loops, Step(l)
  PROVE  Carried'
<1>0. Calm' = Calm /\ Calm \subseteq Loops
  BY StepCalm, CalmLoops
<1>1. \A k, r, h, t : r.pc \in {"idle", "begin"} => MessageCarried(k, r, h, t)
  BY DEF MessageCarried
<1>2. ASSUME NEW s \in Loops, Spawn(l, s), NEW k \in Calm
      PROVE  MessageCarried(k, run'[k], HeadNode(k)', node')
  <2>1. CASE Active(k)
    <3>1. Untouched(k) /\ node' = node
      BY <1>0, <1>2, <2>1, SpawnUntouched
    <3> QED
      BY <3>1 DEF Carried, Untouched
  <2>2. CASE ~Active(k)
    <3>1. run'[k].pc \in {"idle", "begin"}
      BY <1>0, <1>2, <2>2, SpawnBegins DEF Active, At
    <3> QED
      BY <1>1, <3>1
  <2> QED
    BY <2>1, <2>2
<1>3. ASSUME ~ \E s \in Loops : Spawn(l, s), NEW k \in Calm
      PROVE  MessageCarried(k, run'[k], HeadNode(k)', node')
  <2>0. k \in Loops
    BY <1>0
  <2>1. CASE k = l
    BY <1>3, <2>1, CarriedOwnStep DEF TurnInv, Carried
  <2>2. CASE k # l /\ Active(k)
    BY <2>0, <2>2, StepUntouched, StepTakesOnly, CarriedKept DEF Carried
  <2>3. CASE k # l /\ ~Active(k)
    <3>1. run'[k] = run[k]
      <4>1. CASE Compact(l)
        BY <2>0, <2>3, <4>1, SoundLocals DEF Compact, ReadTail
      <4>2. CASE OpenCompacted(l)
        BY <2>0, <2>3, <4>2, SoundLocals DEF OpenCompacted
      <4> QED
        BY <1>3, <2>0, <2>3, <4>1, <4>2, Kinds DEF Own
    <3> QED
      BY <1>1, <2>3, <3>1 DEF Active, At
  <2> QED
    BY <2>1, <2>2, <2>3
<1> QED
  BY <1>0, <1>2, <1>3 DEF Carried

LEMMA CarriedNext ==
  ASSUME Sound, BranchesApart, TurnInv, Carried, [Next]_vars PROVE Carried'
<1>0. Calm' \subseteq Loops \ Screens
  BY CalmLoops
<1>1. \A k, r, h, t : r.pc \in {"idle", "begin"} => MessageCarried(k, r, h, t)
  BY DEF MessageCarried
<1>2. CASE \E l \in Loops : Step(l)
  BY <1>2, CarriedStep
<1>3. ASSUME ~ \E l \in Loops : Step(l), NEW k \in Calm'
      PROVE  MessageCarried(k, run'[k], HeadNode(k)', node')
  <2>0. k \in Loops \ Screens
    BY <1>0
  <2>1. CASE Active(k) /\ ~Crash
    <3>1. Untouched(k) /\ node' = node /\ k \in Calm
      BY <1>3, <2>0, <2>1, OtherUntouched, CalmStays DEF Next
    <3> QED
      BY <3>1 DEF Carried, Untouched
  <2>2. CASE Crash
    <3>1. run'[k].pc = "idle"
      BY <2>0, <2>2 DEF Crash, Idle
    <3> QED
      BY <1>1, <3>1
  <2>3. CASE ~Active(k)
    <3>1. run'[k].pc \in {"idle", "begin"}
      BY <2>0, <2>3, IdleBegins DEF Active, At, Idle
    <3> QED
      BY <1>1, <3>1
  <2> QED
    BY <2>1, <2>2, <2>3
<1> QED
  BY <1>2, <1>3 DEF Carried

LEMMA CarriedInit == Init => Carried
  BY CalmLoops DEF Init, Carried, MessageCarried, Idle

\* The first call of a run is made with a context that holds its user message, also
\* when the context was compacted just before, unless a command has disturbed the
\* run.
THEOREM OwnMessages == ASSUME OwnHandles PROVE Spec => []OwnMessageSent
<1>1. Sound /\ BranchesApart /\ TurnInv /\ Carried /\ [Next]_vars => Carried'
  BY CarriedNext
<1>2. Sound /\ Carried => OwnMessageSent
  <2> SUFFICES ASSUME Sound, Carried, NEW l \in Calm, At(l, "call"), run[l].turn = 0
               PROVE  \E n \in Elements(Ancestors(run[l].sent)) : node[n].msg.id = run[l].userNode
    BY DEF OwnMessageSent
  <2> DEFINE n == run[l].sent
  <2>1. n \in DOMAIN node /\ node[n].msg.id = run[l].userNode
    BY DEF Carried, MessageCarried, AsksAt, Asks, At
  <2>2. Older(node) /\ n \in Nat
    BY <2>1, SoundStore DEF Sound
  <2>3. n \in Elements(Ancestors(n))
    BY <2>1, <2>2, ChainElements, AncestorsChain
  <2> QED
    BY <2>1, <2>3
<1> QED
  BY <1>1, <1>2, CarriedInit, ApartInvariance, TurnInvariance, PTL DEF Spec

----------------------------------------------------------------------------
\* Who has written to a branch.

\* A table that keeps the rows below next it shares with another one, or loses some
\* of them, has no longer chains there.
LEMMA ChainShrinks ==
  ASSUME NEW t, NEW u, Older(t), Older(u), NEW I, I \subseteq Nat,
         \A n \in DOMAIN u : n \in I => n \in DOMAIN t /\ u[n] = t[n],
         \A n \in DOMAIN t : n \in I => t[n].parent \in I
  PROVE  \A n \in I : Elements(ChainOf(u, n)) \subseteq Elements(ChainOf(t, n))
<1> DEFINE S == {n \in Nat : n \in I => Elements(ChainOf(u, n)) \subseteq Elements(ChainOf(t, n))}
<1>1. ASSUME NEW n \in Nat, \A i \in 0..(n - 1) : i \in S PROVE n \in S
  <2> SUFFICES ASSUME n \in I PROVE Elements(ChainOf(u, n)) \subseteq Elements(ChainOf(t, n))
    OBVIOUS
  <2>1. CASE n \in DOMAIN u
    <3> DEFINE p == t[n].parent
    <3>1. n \in DOMAIN t /\ u[n].parent = p /\ p \in I /\ p \in 0..(n - 1)
      BY <2>1 DEF Older
    <3>2. Elements(ChainOf(u, p)) \subseteq Elements(ChainOf(t, p))
      BY <1>1, <3>1
    <3>3. Elements(ChainOf(u, n)) = Elements(ChainOf(u, p)) \cup {n}
      BY <2>1, <3>1, ChainGrows
    <3>4. Elements(ChainOf(t, n)) = Elements(ChainOf(t, p)) \cup {n}
      BY <3>1, ChainGrows
    <3> QED
      BY <3>2, <3>3, <3>4
  <2>2. CASE n \notin DOMAIN u
    BY <2>2, ChainElements
  <2> QED
    BY <2>1, <2>2
<1>2. Nat \subseteq S
  <2> HIDE DEF S
  <2> QED BY <1>1, SetInduction
<1> QED
  BY <1>2

\* Rows are never changed.
LEMMA RowsKept == ASSUME Sound, [Next]_vars PROVE RowsSame
<1>1. nextNode \notin Ids
  BY SoundStore
<1>2. CASE node' = node
  BY <1>2 DEF RowsSame
<1>3. ASSUME NEW l \in Loops, Step(l) PROVE RowsSame
  <2>1. Active(l) /\ HandleOf[l] \in Handles /\ current[HandleOf[l]] \in Branches
    BY <1>3, Kinds, ActiveBound, BoundBranch
  <2>2. CASE SaysNode(l)
    <3>1. PICK p, msg : Says(l, p, msg) /\ AddNode(HandleOf[l], p, msg)
      BY <2>2 DEF SaysNode
    <3>2. Adds(current[HandleOf[l]], p, msg)
      BY <3>1, SaysEffect
    <3> QED
      BY <1>1, <3>2 DEF Adds, RowsSame
  <2>3. CASE TakesUserBack(l)
    <3>1. UNCHANGED dagVars \/ Removes(current[HandleOf[l]], run[l].userNode)
      BY <2>1, <2>3, RemoveEffect DEF TakesUserBack
    <3> QED
      BY <1>2, <3>1 DEF Removes, RowsSame, dagVars
  <2>4. CASE UNCHANGED dagVars \/ StoreAlias(l) \/ Compact(l) \/ OpenCompacted(l)
            \/ \E s \in Loops : Spawn(l, s)
    BY <1>2, <2>4 DEF dagVars, StoreAlias, SetAlias, Compact, ReadTail, OpenCompacted, Branch,
       Spawn, ForkFrom
  <2> QED
    BY <1>3, <2>2, <2>3, <2>4, Kinds
<1>4. CASE ~ \E l \in Loops : Step(l)
  <2>1. node' = node
    BY <1>4 DEF Next, UserInput, Steer, New, Clear, Fork, Switch, Command, NewBranch, ResetHead,
         Branch, SwitchBranch, CompactCommand, ReadTail, Crash, Reopen, vars, dagVars
  <2> QED
    BY <1>2, <2>1
<1> QED
  BY <1>3, <1>4

\* A message is never edited, and its id is never given to another one, whatever
\* the loops, the compactions, the user and restarts do (README.md, "immutable
\* message graph").
THEOREM NeverEdited == Spec => [][RowsSame]_vars
<1>1. Sound /\ [Next]_vars => [RowsSame]_vars
  BY RowsKept
<1> QED
  BY <1>1, Soundness, PTL DEF Spec

\* No chain of a message that was there gets longer.
LEMMA ChainsShrink ==
  ASSUME Sound, Sound', RowsSame, NEW n \in Ids
  PROVE  /\ Elements(ChainOf(node', n)) \subseteq Elements(ChainOf(node, n))
         /\ Elements(ChainOf(node, n)) \subseteq DOMAIN node
         /\ \A m \in Elements(ChainOf(node', n)) : m \in DOMAIN node' /\ m \in Ids /\ node'[m] = node[m]
<1>1. Older(node) /\ Older(node') /\ Ids \subseteq Nat /\ DOMAIN node \subseteq Ids
  BY SoundStore DEF Sound
<1>2. \A m \in DOMAIN node : node[m].parent \in Ids
  BY SoundStore
<1>3. Elements(ChainOf(node', n)) \subseteq Elements(ChainOf(node, n))
  BY <1>1, <1>2, ChainShrinks DEF RowsSame
<1>4. Elements(ChainOf(node, n)) \subseteq DOMAIN node /\ Elements(ChainOf(node', n)) \subseteq DOMAIN node'
  BY <1>1, ChainElements
<1> QED
  BY <1>1, <1>3, <1>4 DEF RowsSame

\* In table t, what was written to the branch with this row since it was opened was
\* written through handle h.
Alone(t, row, h) ==
  \A n \in Elements(ChainOf(t, row.head)) : n > row.forked => HandleOf[t[n].msg.by] = h

\* A branch that is not written to keeps who has written to it.
LEMMA AloneKept ==
  ASSUME Sound, Sound', RowsSame, NEW b \in Branches, NEW h, Alone(node, branch[b], h),
         branch'[b] = branch[b]
  PROVE  Alone(node', branch'[b], h)
<1>1. branch[b].head \in Ids
  BY BranchRows DEF Sound, TypeOK
<1> QED
  BY <1>1, ChainsShrink DEF Alone

\* Nothing has been written yet to a branch that has just been opened or cleared.
LEMMA AloneOpened ==
  ASSUME Sound', NEW row, NEW h, row.head \in Nat, row.head = None \/ row.forked = row.head
  PROVE  Alone(node', row, h)
<1> DEFINE t == row.head
<1>1. Older(node') /\ None \notin DOMAIN node' /\ \A n \in DOMAIN node' : n \in Nat
  BY DEF Sound, TypeOK, StoreTypeOK, Older, None
<1>2. \A n \in Elements(ChainOf(node', t)) : n \in DOMAIN node' /\ n <= t
  BY <1>1, ChainElements
<1>3. \A n \in Elements(ChainOf(node', t)) : ~(n > row.forked)
  BY <1>1, <1>2 DEF None
<1> QED
  BY <1>3 DEF Alone

\* Until its first call has been answered the head of a run's branch is its user
\* message, when nothing is compacted and no command has disturbed it.
Begun ==
  \A l \in Calm :
    run[l].turn = 0 /\ run[l].pc \in {"turn", "prepare", "call", "answer", "failed"} =>
      HeadNode(l) = run[l].userNode

LEMMA BegunOwnStep ==
  ASSUME Sound, Compaction = FALSE, NEW l \in Loops, l \in Calm, Step(l), ~ \E s \in Loops : Spawn(l, s),
         Turn(run[l], HeadNode(l), node), Begun,
         run'[l].turn = 0, run'[l].pc \in {"turn", "prepare", "call", "answer", "failed"}
  PROVE  HeadNode(l)' = run'[l].userNode
<1>0. run \in [Loops -> Locals] /\ run[l] \in Locals /\ run[l].turn \in Nat
  BY SoundLocals DEF Locals
<1>1. ASSUME UNCHANGED dagVars, run'[l].turn = run[l].turn, run'[l].userNode = run[l].userNode,
             run[l].pc \in {"turn", "prepare", "call", "answer", "failed"}
      PROVE  HeadNode(l)' = run'[l].userNode
  BY <1>1 DEF Begun, dagVars, HeadNode, HeadOf
<1>2. CASE AddUser(l)
  <2> DEFINE msg == Message("user", l)
  <2>1. Says(l, run[l].at, msg) /\ AddNode(HandleOf[l], run[l].at, msg)
    BY <1>2 DEF AddUser, AddNodeBy, Says, At
  <2> HIDE DEF msg
  <2>2. HeadNode(l)' = nextNode
    BY <2>1, NewHead
  <2>3. run'[l].userNode = nextNode
    BY <1>0, <1>2 DEF AddUser, Locals
  <2> QED
    BY <2>2, <2>3
<1>3. CASE BeginTurn(l) \/ SkipCompaction(l) \/ StartEagerTool(l)
  BY <1>0, <1>1, <1>3 DEF BeginTurn, SkipCompaction, StartEagerTool, At, Locals
<1>4. CASE CallFails(l) \/ CallAnswers(l) \/ CancelRetry(l)
  <2>1. /\ run[l].pc = "call" /\ run'[l].turn = run[l].turn
        /\ run'[l].userNode = run[l].userNode /\ UNCHANGED dagVars
    <3>1. CASE CallFails(l)
      BY <1>0, <3>1 DEF CallFails, At, Locals
    <3>2. CASE CallAnswers(l)
      BY <1>0, <3>2 DEF CallAnswers, At, Locals
    <3>3. CASE CancelRetry(l)
      BY <1>0, <3>3 DEF CancelRetry, At, Locals
    <3> QED
      BY <1>4, <3>1, <3>2, <3>3
  <2> QED
    BY <1>1, <2>1
<1>5. CASE \/ ReadHead(l) \/ Fail(l) \/ Stop(l) \/ InterruptTools(l)
           \/ ToolsDone(l) \/ AfterTools(l) \/ Finish(l)
  <2>1. Idle.pc = "idle"
    BY DEF Idle
  <2>2. CASE ReadHead(l) \/ Fail(l) \/ Stop(l)
    BY <1>0, <2>1, <2>2 DEF ReadHead, Fail, Stop, Locals
  <2>3. CASE InterruptTools(l) \/ ToolsDone(l) \/ AfterTools(l) \/ Finish(l)
    BY <1>0, <2>1, <2>3 DEF InterruptTools, ToolsDone, AfterTools, Finish, Locals
  <2> QED
    BY <1>5, <2>2, <2>3
<1>6. CASE \/ Answer(l) \/ PickAlias(l) \/ StoreAlias(l) \/ StoreThinking(l) \/ Answered(l)
  BY <1>0, <1>6 DEF Answer, PickAlias, StoreAlias, StoreThinking, Answered, Locals
<1>7. CASE RunTool(l) \/ DrainCut(l)
  BY <1>0, <1>7 DEF RunTool, DrainCut, TakeSteering, At, Locals
<1>8. CASE Continue(l) \/ HookResumes(l)
  <2>1. run'[l].turn = run[l].turn + 1
    BY <1>0, <1>8 DEF Continue, HookResumes, Locals
  <2> QED
    BY <1>0, <2>1
<1>9. CASE Drain(l)
  <2>1. run'[l].turn = run[l].turn + 1 \/ run'[l].pc = "drain"
    BY <1>0, <1>9 DEF Drain, TakeSteering, At, Locals
  <2> QED
    BY <1>0, <2>1
<1>10. CASE Compact(l) \/ OpenCompacted(l) \/ AddSummary(l) \/ CopyTail(l) \/ EndCompaction(l)
  BY <1>10 DEF Compact, ReadTail, OpenCompacted, AddSummary, CopyTail, EndCompaction, At, Turn, HeadOfTurn
<1> QED
  BY <1>2, <1>3, <1>4, <1>5, <1>6, <1>7, <1>8, <1>9, <1>10 DEF Step

\* A loop that does not take the step keeps what is said of it, or begins.
LEMMA Bystander ==
  ASSUME Sound, BranchesApart, [Next]_vars, NEW k \in Loops \ Screens, k \in Calm',
         ~Step(k) \/ \E s \in Loops : Spawn(k, s)
  PROVE  \/ Untouched(k) /\ Active(k) /\ k \in Calm
         \/ run'[k].pc \in {"idle", "begin"}
<1>1. CASE Crash
  BY <1>1 DEF Crash, Idle
<1>2. CASE ~Active(k)
  BY <1>2, IdleBegins DEF Active, At, Idle
<1>3. CASE Active(k) /\ ~Crash
  <2>1. k \in Calm
    BY <1>3, CalmStays
  <2>2. ASSUME NEW l \in Loops, Step(l) PROVE Untouched(k)
    <3>1. ASSUME NEW s \in Loops, Spawn(l, s) PROVE Untouched(k)
      BY <1>3, <3>1, SpawnUntouched
    <3>2. ASSUME NEW s \in Loops, Spawn(k, s) PROVE Untouched(k)
      BY <1>3, <3>2, SpawnUntouched
    <3>3. CASE l # k
      BY <1>3, <2>1, <2>2, <3>3, StepUntouched
    <3> QED
      BY <2>2, <3>1, <3>2, <3>3
  <2>3. CASE ~ \E l \in Loops : Step(l)
    <3>1. k \in Loops /\ Active(k)
      BY <1>3
    <3>2. \/ \E l \in Loops : UserInput(l)
          \/ Steer \/ New \/ Clear \/ Fork \/ Switch \/ CompactCommand \/ UNCHANGED vars
      BY <1>3, <2>3 DEF Next
    <3> QED
      BY <2>1, <3>1, <3>2, OtherUntouched
  <2> QED
    BY <1>3, <2>1, <2>2, <2>3
<1> QED
  BY <1>1, <1>2, <1>3

LEMMA BegunNext ==
  ASSUME Sound, BranchesApart, TurnInv, Compaction = FALSE, Begun, [Next]_vars PROVE Begun'
<1> SUFFICES ASSUME NEW k \in Calm', run'[k].turn = 0,
                    run'[k].pc \in {"turn", "prepare", "call", "answer", "failed"}
             PROVE  HeadNode(k)' = run'[k].userNode
  BY DEF Begun
<1>0. k \in Loops \ Screens
  BY CalmLoops
<1>1. CASE Step(k) /\ ~ \E s \in Loops : Spawn(k, s)
  BY <1>0, <1>1, StepCalm, BegunOwnStep DEF TurnInv
<1>2. CASE ~Step(k) \/ \E s \in Loops : Spawn(k, s)
  <2>1. Untouched(k) /\ k \in Calm
    BY <1>0, <1>2, Bystander
  <2> QED
    BY <2>1 DEF Untouched, Begun
<1> QED
  BY <1>1, <1>2

\* Compactions are under way only when they are enabled, and nothing else is when
\* it is the user interface that is at work.
Compacting ==
  /\ \A l \in Loops : run[l].pc \in {"summarise", "summary", "copy"} => Compaction
  /\ \A l \in Screens : run[l].pc \in {"idle", "summarise", "summary", "copy"}

LEMMA CompactingOwnStep ==
  ASSUME Sound, Compacting, NEW l \in Loops, Step(l), ~ \E s \in Loops : Spawn(l, s)
  PROVE  /\ run'[l].pc \in {"summarise", "summary", "copy"} => Compaction
         /\ l \in Screens => run'[l].pc \in {"idle", "summarise", "summary", "copy"}
<1>0. run \in [Loops -> Locals] /\ run[l] \in Locals /\ Idle.pc = "idle"
  BY SoundLocals DEF Idle
<1>1. CASE Compact(l) \/ OpenCompacted(l) \/ AddSummary(l) \/ CopyTail(l)
  <2>1. run'[l].pc \in {"summarise", "summary", "copy"}
    <3>1. CASE Compact(l)
      <4>1. PICK tail, root :
              run' = [run EXCEPT ![l].pc = "summarise", ![l].copies = tail, ![l].copyAt = root]
        BY <3>1 DEF Compact, ReadTail
      <4> QED
        BY <1>0, <4>1 DEF Locals
    <3>4. CASE OpenCompacted(l)
      BY <1>0, <3>4 DEF OpenCompacted, Locals
    <3>2. CASE AddSummary(l)
      BY <1>0, <3>2 DEF AddSummary, Locals
    <3>3. CASE CopyTail(l)
      BY <1>0, <3>3 DEF CopyTail, At, Locals
    <3> QED
      BY <1>1, <3>1, <3>2, <3>3, <3>4
  <2>2. Compaction
    BY <1>1 DEF Compacting, Compact, ReadTail, OpenCompacted, AddSummary, CopyTail, At
  <2> QED
    BY <2>1, <2>2
<1>2. CASE EndCompaction(l)
  <2>1. CASE l \in Screens
    <3>1. run'[l].pc = "idle"
      BY <1>0, <1>2, <2>1 DEF EndCompaction
    <3> QED
      BY <3>1
  <2>2. CASE l \notin Screens
    <3>1. PICK p \in {"call", "exit"} : run' = [run EXCEPT ![l].pc = p, ![l].sent = HeadNode(l)]
      BY <1>2, <2>2 DEF EndCompaction, AfterPrepare
    <3>2. run'[l].pc = p
      BY <1>0, <3>1 DEF Locals
    <3> QED
      BY <2>2, <3>2
  <2> QED
    BY <2>1, <2>2
<1>3. CASE ~(Compact(l) \/ OpenCompacted(l) \/ AddSummary(l) \/ CopyTail(l) \/ EndCompaction(l))
  <2>1. l \notin Screens
    <3>1. run[l].pc \notin {"idle", "summarise", "summary", "copy"}
      BY <1>3 DEF Step, ReadHead, AddUser, BeginTurn, SkipCompaction, StartEagerTool, CallFails,
         CallAnswers, CancelRetry, Fail, Answer, PickAlias, StoreAlias, StoreThinking, Continue,
         Answered, HookResumes, Stop, Drain, RunTool, InterruptTools, DrainCut, ToolsDone,
         AfterTools, Finish, At
    <3> QED
      BY <3>1 DEF Compacting
  <2>2. run'[l].pc \notin {"summarise", "summary", "copy"}
    <3>1. CASE ReadHead(l) \/ AddUser(l) \/ BeginTurn(l) \/ CancelRetry(l) \/ Fail(l)
      BY <1>0, <3>1 DEF ReadHead, AddUser, BeginTurn, CancelRetry, Fail, Locals
    <3>2. CASE SkipCompaction(l)
      <4>1. PICK p \in {"call", "exit"} : run' = [run EXCEPT ![l].pc = p]
        BY <3>2 DEF SkipCompaction, AfterPrepare
      <4> QED
        BY <1>0, <4>1 DEF Locals
    <3>3. CASE CallFails(l) \/ CallAnswers(l)
      <4>1. RetryOrFail(l) \in {"call", "failed"}
        BY DEF RetryOrFail
      <4>2. CASE CallFails(l)
        BY <1>0, <4>1, <4>2 DEF CallFails, Locals
      <4>3. CASE CallAnswers(l)
        BY <1>0, <4>1, <4>3 DEF CallAnswers, Locals
      <4> QED
        BY <3>3, <4>2, <4>3
    <3>4. CASE Answer(l) \/ PickAlias(l) \/ StoreAlias(l) \/ StoreThinking(l) \/ Answered(l)
      BY <1>0, <3>4 DEF Answer, PickAlias, StoreAlias, StoreThinking, Answered, Locals
    <3>5. CASE Continue(l) \/ HookResumes(l) \/ Stop(l) \/ AfterTools(l) \/ Finish(l)
      BY <1>0, <3>5 DEF Continue, HookResumes, Stop, AfterTools, Finish, Locals
    <3>6. CASE InterruptTools(l) \/ ToolsDone(l) \/ RunTool(l) \/ StartEagerTool(l)
      BY <1>0, <3>6 DEF InterruptTools, ToolsDone, RunTool, StartEagerTool, At, Locals
    <3>7. CASE Drain(l) \/ DrainCut(l)
      BY <1>0, <3>7 DEF Drain, DrainCut, TakeSteering, At, Locals
    <3> QED
      BY <1>3, <3>1, <3>2, <3>3, <3>4, <3>5, <3>6, <3>7 DEF Step
  <2> QED
    BY <2>1, <2>2
<1> QED
  BY <1>1, <1>2, <1>3

LEMMA CompactingNext == ASSUME Sound, Compacting, [Next]_vars PROVE Compacting'
<1>0. run \in [Loops -> Locals]
  BY DEF Sound, TypeOK, RunTypeOK
<1> DEFINE Fine(k, p) == /\ p \in {"summarise", "summary", "copy"} => Compaction
                         /\ k \in Screens => p \in {"idle", "summarise", "summary", "copy"}
<1>1. \A k \in Loops : Fine(k, run[k].pc)
  BY DEF Compacting
<1>2. \A k \in Loops : Fine(k, "idle") /\ (k \notin Screens => Fine(k, "begin"))
  OBVIOUS
<1>3. ASSUME NEW l \in Loops, Step(l), NEW k \in Loops PROVE Fine(k, run'[k].pc)
  <2>1. CASE k = l /\ ~ \E s \in Loops : Spawn(l, s)
    BY <1>3, <2>1, CompactingOwnStep
  <2>2. ASSUME NEW s \in Loops, Spawn(l, s) PROVE Fine(k, run'[k].pc)
    <3>1. s \notin Screens /\ [Idle EXCEPT !.pc = "begin"].pc = "begin"
      BY <2>2, LoopAssumption DEF Spawn, Idle
    <3>2. run'[k] = run[k] \/ (k = s /\ run'[k] = [Idle EXCEPT !.pc = "begin"])
      BY <1>0, <2>2 DEF Spawn
    <3> HIDE DEF Fine
    <3> QED
      BY <1>1, <1>2, <3>1, <3>2
  <2>3. CASE k # l /\ ~ \E s \in Loops : Spawn(l, s)
    <3>1. run'[k] = run[k]
      <4>1. CASE Compact(l)
        BY <2>3, <4>1, <1>0 DEF Compact, ReadTail
      <4>2. CASE OpenCompacted(l)
        BY <2>3, <4>2, <1>0 DEF OpenCompacted
      <4> QED
        BY <1>3, <2>3, <4>1, <4>2, Kinds DEF Own
    <3> HIDE DEF Fine
    <3> QED
      BY <1>1, <3>1
  <2> QED
    BY <2>1, <2>2, <2>3
<1>4. ASSUME ~ \E l \in Loops : Step(l), NEW k \in Loops PROVE Fine(k, run'[k].pc)
  <2>1. CASE CompactCommand
    <3>1. PICK l \in Screens : ReadTail(l)
      BY <2>1 DEF CompactCommand
    <3>2. Compaction /\ (run'[k] = run[k] \/ run'[k].pc = "summarise")
      BY <1>0, <3>1 DEF ReadTail, Locals
    <3>3. Compaction => Fine(k, "summarise")
      OBVIOUS
    <3> HIDE DEF Fine
    <3> QED
      BY <1>1, <3>2, <3>3
  <2>2. CASE run' = run
    BY <1>1, <2>2
  <2>3. CASE Crash
    <3>1. run'[k].pc = "idle"
      BY <2>3 DEF Crash, Idle
    <3> QED
      BY <3>1
  <2>4. ASSUME NEW l \in Loops, UserInput(l) PROVE Fine(k, run'[k].pc)
    <3>1. [Idle EXCEPT !.pc = "begin"].pc = "begin" /\ l \notin Screens
      BY <2>4 DEF Idle, UserInput, MainLoops
    <3>2. run'[k] = run[k] \/ (k = l /\ run'[k] = [Idle EXCEPT !.pc = "begin"])
      BY <1>0, <2>4 DEF UserInput
    <3> HIDE DEF Fine
    <3> QED
      BY <1>1, <1>2, <3>1, <3>2
  <2> QED
    BY <1>4, <2>1, <2>2, <2>3, <2>4
       DEF Next, Steer, New, Clear, Fork, Switch, Command, vars
<1>5. \A k \in Loops : Fine(k, run'[k].pc)
  <2> HIDE DEF Fine
  <2> QED
    BY <1>3, <1>4
<1> QED
  BY <1>5, LoopAssumption DEF Compacting

LEMMA CompactingInit == Init => Compacting
  BY LoopAssumption DEF Init, Compacting, Idle

\* What a loop says is said by it at the head of its branch.
LEMMA SaysAtHead ==
  ASSUME Sound, Compaction = FALSE, NEW l \in Loops, Turn(run[l], HeadNode(l), node),
         NEW p, NEW msg, Says(l, p, msg)
  PROVE  p = HeadNode(l) /\ msg.by = l
<1>1. HeadOfTurn(run[l], HeadNode(l)) /\ AnswerOfTurn(run[l], HeadNode(l), node)
  BY DEF Turn
<1>2. Message("user", l).by = l /\ Message("thinking", l).by = l
  BY DEF Message
<1>3. ~At(l, "summary") /\ ~At(l, "copy")
  BY <1>1 DEF HeadOfTurn, At
<1>4. p = HeadNode(l)
  BY <1>1, <1>3 DEF Says, At, HeadOfTurn, AnswerOfTurn
<1>5. msg.by = l
  BY <1>2, <1>3, AnswerMessage, ResultMessage DEF Says
<1> QED
  BY <1>4, <1>5

\* The step of a loop that writes to its branch, or takes the user message back.
LEMMA AloneWritten ==
  ASSUME Sound, Sound', RowsSame, Compaction = FALSE, Begun, NEW l \in Loops, l \in Calm, Step(l),
         Turn(run[l], HeadNode(l), node), SaysNode(l) \/ TakesUserBack(l),
         Alone(node, branch[current[HandleOf[l]]], HandleOf[l])
  PROVE  /\ current' = current
         /\ Alone(node', branch'[current[HandleOf[l]]], HandleOf[l])
         /\ \A b \in Branches \ {current[HandleOf[l]]} : branch'[b] = branch[b]
<1> DEFINE b == current[HandleOf[l]]
           h == HandleOf[l]
           t == branch[b].head
<1>1. b \in Branches /\ h \in Handles /\ t \in Ids /\ t = HeadNode(l)
  BY Kinds, ActiveBound, BoundBranch DEF HeadNode, HeadOf
<1>2. Older(node) /\ Older(node')
  BY DEF Sound
<1>3. /\ Elements(ChainOf(node', t)) \subseteq Elements(ChainOf(node, t))
      /\ \A m \in Elements(ChainOf(node', t)) : node'[m] = node[m]
  BY <1>1, ChainsShrink
<1>4. \A n \in Elements(ChainOf(node, t)) : n > branch[b].forked => HandleOf[node[n].msg.by] = h
  BY DEF Alone
<1> HIDE DEF b, t
<1>5. CASE SaysNode(l)
  <2>1. PICK p, msg : Says(l, p, msg) /\ AddNode(HandleOf[l], p, msg)
    BY <1>5 DEF SaysNode
  <2>2. p = t /\ msg.by = l
    BY <1>1, <2>1, SaysAtHead
  <2>3. Adds(b, t, msg)
    BY <2>1, <2>2, SaysEffect DEF b
  <2>4. nextNode \in DOMAIN node' /\ node'[nextNode].parent = t /\ node'[nextNode].msg = msg
    BY <2>3 DEF Adds
  <2>5. branch'[b].head = nextNode /\ branch'[b].forked = branch[b].forked /\ current' = current
    BY <2>3 DEF Adds
  <2>6. Elements(ChainOf(node', nextNode)) = Elements(ChainOf(node', t)) \cup {nextNode}
    BY <1>2, <2>4, ChainGrows
  <2>7. ASSUME NEW n \in Elements(ChainOf(node', branch'[b].head)), n > branch'[b].forked
        PROVE  HandleOf[node'[n].msg.by] = h
    BY <1>3, <1>4, <2>2, <2>4, <2>5, <2>6, <2>7
  <2>8. Alone(node', branch'[b], h)
    BY <2>7 DEF Alone
  <2>9. \A c \in Branches \ {b} : branch'[c] = branch[c]
    BY <2>3 DEF Adds
  <2> QED
    BY <2>5, <2>8, <2>9 DEF b
<1>6. CASE TakesUserBack(l)
  <2>1. UNCHANGED dagVars \/ Removes(b, run[l].userNode)
    BY <1>1, <1>6, RemoveEffect DEF TakesUserBack, b
  <2>2. run[l].userNode = t
    BY <1>1, <1>6 DEF TakesUserBack, At, Begun
  <2>3. CASE UNCHANGED dagVars
    BY <2>3 DEF dagVars, b
  <2>4. CASE Removes(b, t)
    <3> DEFINE p == node[t].parent
    <3>1. t \in DOMAIN node /\ p \in Ids
      BY <2>4, SoundStore DEF Removes
    <3>2. branch'[b].head = p /\ branch'[b].forked = branch[b].forked /\ current' = current
      BY <2>4 DEF Removes
    <3>3. /\ Elements(ChainOf(node', p)) \subseteq Elements(ChainOf(node, p))
          /\ \A m \in Elements(ChainOf(node', p)) : node'[m] = node[m]
      BY <3>1, ChainsShrink
    <3>4. Elements(ChainOf(node, t)) = Elements(ChainOf(node, p)) \cup {t}
      BY <1>2, <3>1, ChainGrows
    <3> HIDE DEF p
    <3>5. Alone(node', branch'[b], h)
      BY <1>4, <3>2, <3>3, <3>4 DEF Alone
    <3>6. \A c \in Branches \ {b} : branch'[c] = branch[c]
      BY <2>4 DEF Removes
    <3> QED
      BY <3>2, <3>5, <3>6 DEF b
  <2> QED
    BY <2>1, <2>2, <2>3, <2>4
<1> QED
  BY <1>5, <1>6

\* What is known of a step of an instance without compaction.
Plain == OwnHandles /\ Compaction = FALSE

PlainInv == Sound /\ BranchesApart /\ TurnInv /\ Begun /\ Compacting

LEMMA PlainInvariance == ASSUME Plain PROVE Spec => []PlainInv
<1>1. Init => Begun /\ Compacting
  BY CompactingInit, CalmLoops DEF Init, Begun, Idle
<1>2. Sound /\ BranchesApart /\ TurnInv /\ Begun /\ [Next]_vars => Begun'
  BY BegunNext DEF Plain
<1>6. Sound /\ Compacting /\ [Next]_vars => Compacting'
  BY CompactingNext
<1>3. OwnHandles
  BY DEF Plain
<1>4. Spec => [](Sound /\ BranchesApart)
  BY <1>3, ApartInvariance
<1>5. Spec => []TurnInv
  BY <1>3, TurnInvariance
<1> QED
  BY <1>1, <1>2, <1>4, <1>5, <1>6, PTL DEF Spec, PlainInv

\* Nothing is compacted.
LEMMA PlainSteps ==
  ASSUME Plain, PlainInv, NEW l \in Loops, Step(l)
  PROVE  /\ ~Compact(l) /\ ~OpenCompacted(l) /\ l \notin Screens
         /\ \/ Own(l) /\ UNCHANGED dagVars
            \/ Own(l) /\ StoreAlias(l)
            \/ Own(l) /\ SaysNode(l)
            \/ Own(l) /\ TakesUserBack(l)
            \/ \E s \in Loops : Spawn(l, s)
<1>1. ~Compact(l) /\ ~OpenCompacted(l)
  BY DEF Plain, PlainInv, Compacting, Compact, ReadTail, OpenCompacted, At
<1>2. Active(l) /\ Sound
  BY Kinds DEF PlainInv
<1>3. l \notin Screens
  BY <1>2 DEF Plain, PlainInv, Compacting, Active, At
<1> QED
  BY <1>1, <1>2, <1>3, Kinds

\* A sub-agent is spawned on a branch of its own, which nothing has been written to.
LEMMA SpawnAlone ==
  ASSUME Sound, Sound', NEW l \in Loops, NEW s \in Loops, Spawn(l, s)
  PROVE  /\ \A b \in Branches : branch'[b] = branch[b]
         /\ \/ current' = current
            \/ /\ current[HandleOf[s]] = None
               /\ current' = [current EXCEPT ![HandleOf[s]] = Len(branch) + 1]
               /\ Alone(node', branch'[Len(branch) + 1], HandleOf[s])
<1> DEFINE f == HeadNode(l)
           row == [head |-> f, forked |-> f]
<1>1. /\ InsertBranch(f, f) /\ UNCHANGED <<node, nextNode, alias>>
      /\ current' = current \/ current' = [current EXCEPT ![HandleOf[s]] = Len(branch) + 1]
      /\ current[HandleOf[s]] = None
  BY DEF Spawn, ForkFrom
<1>2. Active(l) /\ f \in Ids /\ f \in Nat /\ HandleOf[s] \in Handles
  <2>1. Active(l)
    BY DEF Spawn, ToolRuns, Active, At
  <2> QED
    BY <2>1, ActiveBound, BoundBranch, LoopAssumption, SoundStore
<1> HIDE DEF f
<1>3. OpensRow(row)
  BY <1>1, <1>2, InsertEffect
<1>4. branch'[Len(branch) + 1] = row /\ \A b \in Branches : branch'[b] = branch[b]
  BY <1>3 DEF OpensRow
<1>5. row.head \in Nat /\ row.forked = row.head
  BY <1>2
<1> HIDE DEF row
<1>6. Alone(node', branch'[Len(branch) + 1], HandleOf[s])
  BY <1>4, <1>5, AloneOpened
<1> QED
  BY <1>1, <1>4, <1>6

\* The step of a loop, for the branch of an open handle that no other loop in
\* progress writes to.
LEMMA AloneStep ==
  ASSUME Plain, PlainInv, Sound', NEW l \in Loops, Step(l), NEW h \in Handles, current[h] # None,
         HandleOf[l] = h => l \in Calm,
         HandleOf[l] # h => current[HandleOf[l]] # current[h],
         Alone(node, branch[current[h]], h)
  PROVE  current'[h] = current[h] /\ Alone(node', branch'[current[h]], h)
<1> DEFINE b == current[h]
<1>1. b \in Branches /\ Active(l) /\ RowsSame /\ Sound
  <2>1. b \in Branches /\ Active(l) /\ [Next]_vars
    BY SoundStore, Kinds DEF None, Next, PlainInv
  <2> QED
    BY <2>1, RowsKept DEF PlainInv
<1>2. CASE SaysNode(l) \/ TakesUserBack(l)
  <2> DEFINE d == current[HandleOf[l]]
  <2>2. CASE HandleOf[l] = h
    <3>1. Turn(run[l], HeadNode(l), node) /\ Begun /\ Compaction = FALSE /\ l \in Calm
      BY <2>2 DEF PlainInv, TurnInv, Plain
    <3> QED
      BY <1>1, <1>2, <2>2, <3>1, AloneWritten
  <2>3. CASE HandleOf[l] # h
    <3>1. current' = current /\ branch'[b] = branch[b]
      <4>1. d # b /\ d \in Branches
        BY <1>1, <2>3, ActiveBound, BoundBranch
      <4>2. CASE SaysNode(l)
        <5>1. PICK p, msg : Says(l, p, msg) /\ AddNode(HandleOf[l], p, msg)
          BY <4>2 DEF SaysNode
        <5>2. Adds(d, p, msg)
          BY <1>1, <5>1, SaysEffect
        <5> QED
          BY <1>1, <4>1, <5>2 DEF Adds
      <4>3. CASE TakesUserBack(l)
        <5>1. UNCHANGED dagVars \/ Removes(d, run[l].userNode)
          BY <1>1, <4>1, <4>3, RemoveEffect, LoopAssumption DEF TakesUserBack
        <5> QED
          BY <1>1, <4>1, <5>1 DEF Removes, dagVars
      <4> QED
        BY <1>2, <4>2, <4>3
    <3> QED
      BY <1>1, <3>1, AloneKept
  <2> QED
    BY <2>2, <2>3
<1>3. CASE UNCHANGED dagVars \/ StoreAlias(l)
  BY <1>3 DEF dagVars, StoreAlias, SetAlias
<1>4. ASSUME NEW s \in Loops, Spawn(l, s)
      PROVE  current'[h] = current[h] /\ Alone(node', branch'[current[h]], h)
  <2>1. branch'[b] = branch[b] /\ current'[h] = b
    BY <1>1, <1>4, SpawnAlone, SoundStore
  <2> QED
    BY <1>1, <2>1, AloneKept
<1> QED
  BY <1>2, <1>3, <1>4, PlainSteps

\* A step of the user that leaves a handle on its branch, which is not the one the
\* user has open.
LEMMA AloneOther ==
  ASSUME Plain, Sound, Sound', NEW h \in Handles, current[h] # None, h # Main,
         current[h] # current[Main],
         Alone(node, branch[current[h]], h),
         \/ \E l \in Loops : UserInput(l)
         \/ Steer \/ New \/ Clear \/ Fork \/ Switch \/ UNCHANGED vars
  PROVE  current'[h] = current[h] /\ Alone(node', branch'[current[h]], h)
<1> DEFINE d == current[h]
<1>1. /\ d \in Branches /\ Branches = 1..Len(branch) /\ branch \in Seq(Rows) /\ Len(branch) \in Nat
      /\ current \in [Handles -> 0..Len(branch)]
  BY SoundStore DEF None
<1>2. RowsSame
  <2>1. [Next]_vars
    BY DEF Next
  <2> QED
    BY <2>1, RowsKept
<1>3. current'[h] = d
  BY <1>1 DEF UserInput, Steer, New, Clear, Fork, Switch, Command, NewBranch, ResetHead, Branch,
       SwitchBranch, vars, dagVars
<1>4. branch'[d] = branch[d]
  <2>1. CASE (\E l \in Loops : UserInput(l)) \/ Steer \/ Switch \/ UNCHANGED vars
    BY <2>1 DEF UserInput, Steer, Switch, SwitchBranch, vars, dagVars
  <2>2. CASE Clear
    BY <1>1, <2>2 DEF Clear, ResetHead
  <2>3. CASE New \/ Fork
    <3>1. \E x : branch' = Append(branch, x)
      BY <2>3 DEF New, NewBranch, Fork, Branch, InsertBranch
    <3> QED
      BY <1>1, <3>1
  <2> QED
    BY <2>1, <2>2, <2>3
<1> QED
  BY <1>1, <1>2, <1>3, <1>4, AloneKept

\* What a sub-agent in progress has on its branch, as long as no command disturbs it.
SubsAlone ==
  \A l \in Calm \ MainLoops :
    Active(l) => Alone(node, branch[current[HandleOf[l]]], HandleOf[l])

LEMMA SubsNext == ASSUME Plain, PlainInv, Sound', SubsAlone, [Next]_vars PROVE SubsAlone'
<1> SUFFICES ASSUME NEW s \in Calm', s \notin MainLoops, run'[s].pc # "idle"
             PROVE  Alone(node', branch'[current'[HandleOf[s]]], HandleOf[s])
  BY DEF SubsAlone, MainLoops, Active, At
<1> DEFINE h == HandleOf[s]
<1>0. Sound /\ BranchesApart /\ OwnHandles /\ s \in Loops /\ s \notin Screens
  BY CalmLoops DEF PlainInv, Plain
<1>1. h \in Handles /\ h # Main
  BY <1>0, LoopAssumption DEF MainLoops
<1>5. ~Crash
  BY <1>0 DEF Crash, Idle
<1>2. ASSUME Active(s)
      PROVE  /\ current[h] # None /\ current[h] # current[Main] /\ s \in Calm
             /\ Alone(node, branch[current[h]], h)
             /\ \A l \in Loops \ {s} : Active(l) => current[HandleOf[l]] # current[h]
  <2>1. s \in Calm
    BY <1>0, <1>2, <1>5, CalmStays
  <2>2. current[h] # None
    BY <1>0, <1>2, ActiveBound DEF Bound
  <2>3. Alone(node, branch[current[h]], h)
    BY <1>2, <2>1 DEF SubsAlone
  <2>4. /\ current[h] # current[Main]
        /\ \A l \in Loops \ {s} : Active(l) => current[HandleOf[l]] # current[h]
    BY <1>0, <1>1, <1>2, <2>1 DEF BranchesApart, Active, Shared
  <2> QED
    BY <2>1, <2>2, <2>3, <2>4
<1>3. ASSUME NEW l \in Loops, Step(l) PROVE Alone(node', branch'[current'[h]], h)
  <2>1. CASE Active(s)
    <3>1. HandleOf[l] # h => current[HandleOf[l]] # current[h]
      BY <1>0, <1>2, <1>3, <2>1, Kinds
    <3>2. HandleOf[l] = h => l \in Calm
      BY <1>0, <1>2, <1>3, <2>1, PlainSteps DEF OwnHandles
    <3> HIDE DEF h
    <3>3. current'[h] = current[h] /\ Alone(node', branch'[current[h]], h)
      BY <1>1, <1>2, <1>3, <2>1, <3>1, <3>2, AloneStep
    <3> QED
      BY <3>3
  <2>2. CASE ~Active(s)
    <3>1. PICK r \in Loops : Spawn(l, r)
      <4>1. l # s
        BY <1>0, <1>3, <2>2, Kinds
      <4>2. ~Own(l)
        BY <1>0, <2>2, <4>1 DEF Own, Active, At
      <4> QED
        BY <1>3, <4>2, PlainSteps
    <3>2. /\ run' = [run EXCEPT ![r] = [Idle EXCEPT !.pc = "begin"]]
          /\ current' = [current EXCEPT ![HandleOf[r]] = Len(branch) + 1]
      BY <2>2, <3>1 DEF Spawn, ForkFrom, Active, At
    <3>3. r = s
      BY <1>0, <2>2, <3>2, SoundLocals DEF Active, At
    <3>4. current'[h] = Len(branch) + 1 /\ current' # current
      BY <1>0, <1>1, <3>2, <3>3, SoundStore
    <3> QED
      BY <1>0, <3>1, <3>3, <3>4, SpawnAlone
  <2> QED
    BY <2>1, <2>2
<1>4. CASE \/ \E l \in Loops : UserInput(l)
           \/ Steer \/ New \/ Clear \/ Fork \/ Switch \/ UNCHANGED vars
  <2>1. Active(s)
    <3>1. CASE run' = run
      BY <3>1 DEF Active, At
    <3>2. ASSUME NEW l \in Loops, UserInput(l) PROVE Active(s)
      <4>1. l # s
        BY <1>0, <3>2 DEF UserInput
      <4> QED
        BY <1>0, <3>2, <4>1, SoundLocals DEF UserInput, Active, At
    <3> QED
      BY <1>4, <3>1, <3>2 DEF Steer, New, Clear, Fork, Switch, Command, vars
  <2> HIDE DEF h
  <2>2. current'[h] = current[h] /\ Alone(node', branch'[current[h]], h)
    BY <1>0, <1>1, <1>2, <1>4, <2>1, AloneOther
  <2> QED
    BY <2>2 DEF h
<1>6. ~CompactCommand
  BY DEF CompactCommand, ReadTail, Plain
<1> QED
  BY <1>3, <1>4, <1>5, <1>6 DEF Next

\* A sub-agent in progress is alone on its branch (its handle is its own,
\* dag.go:53-63), unless the user has opened that branch meanwhile.
RunningIsolated ==
  \A l \in Calm \ MainLoops :
    Active(l) =>
      LET b == current[HandleOf[l]] IN
      \A n \in Elements(Ancestors(branch[b].head)) :
        n > branch[b].forked => HandleOf[node[n].msg.by] = HandleOf[l]

\* It is, whatever commands disturb the main agent meanwhile, also after the program
\* was started again, and when its branch was opened before the answer that asked
\* for it was stored.
THEOREM RunningAlone == ASSUME Plain PROVE Spec => []RunningIsolated
<1>1. Init => SubsAlone
  BY CalmLoops DEF Init, SubsAlone, Active, At, Idle
<1>2. PlainInv /\ PlainInv' /\ SubsAlone /\ [Next]_vars => SubsAlone'
  BY SubsNext DEF PlainInv
<1>3. SubsAlone => RunningIsolated
  BY AncestorsChain DEF SubsAlone, RunningIsolated, Alone
<1> QED
  BY <1>1, <1>2, <1>3, PlainInvariance, PTL DEF Spec

\* The user stays on the branches of the main agent: without the switch command
\* and without a restart, which opens the branch written to last.
StaysOnOwn == "switch" \notin Commands /\ MaxCrash = 0

\* No two open handles are bound to the same branch.
HandlesApart ==
  \A g, h \in Handles : g # h /\ current[g] # None => current[g] # current[h]

AllAlone ==
  \A l \in Loops :
    current[HandleOf[l]] # None =>
      Alone(node, branch[current[HandleOf[l]]], HandleOf[l])

LEMMA StaysStep ==
  ASSUME StaysOnOwn, Sound, [Next]_vars PROVE ~Crash /\ ~Switch
  BY DEF StaysOnOwn, Switch, Command, Give, Crash, Sound, TypeOK, EnvTypeOK

LEMMA HandlesApartNext ==
  ASSUME StaysOnOwn, Sound, HandlesApart, [Next]_vars PROVE HandlesApart'
<1>1. current \in [Handles -> 0..Len(branch)] /\ Len(branch) \in Nat
  BY SoundStore
<1>2. \/ current' = current
      \/ \E h \in Handles : current' = [current EXCEPT ![h] = Len(branch) + 1]
  <2>1. ASSUME NEW l \in Loops, Step(l)
        PROVE  \/ current' = current
               \/ \E h \in Handles : current' = [current EXCEPT ![h] = Len(branch) + 1]
    <3>1. ASSUME NEW s \in Loops, Spawn(l, s)
          PROVE  \/ current' = current
                 \/ \E h \in Handles : current' = [current EXCEPT ![h] = Len(branch) + 1]
      <4>1. HandleOf[s] \in Handles
        BY LoopAssumption
      <4> QED
        BY <3>1, <4>1 DEF Spawn, ForkFrom
    <3>2. ASSUME OpenCompacted(l)
          PROVE  \E h \in Handles : current' = [current EXCEPT ![h] = Len(branch) + 1]
      <4>1. HandleOf[l] \in Handles
        BY LoopAssumption
      <4> QED
        BY <3>2, <4>1, OpenEffect
    <3>3. CASE SaysNode(l) \/ TakesUserBack(l) \/ StoreAlias(l) \/ Compact(l) \/ UNCHANGED dagVars
      BY <3>3 DEF SaysNode, AddNode, AddNodeTo, TakesUserBack, RemoveNode, StoreAlias, SetAlias,
         Compact, ReadTail, dagVars
    <3> QED
      BY <2>1, <3>1, <3>2, <3>3, Kinds
  <2>2. CASE ~ \E l \in Loops : Step(l)
    BY <2>2, StaysStep, DagAssumption
       DEF Next, UserInput, Steer, New, Clear, Fork, Command, NewBranch, ResetHead,
           Branch, CompactCommand, ReadTail, vars, dagVars
  <2> QED
    BY <2>1, <2>2
<1> QED
  BY <1>1, <1>2 DEF HandlesApart

LEMMA AllAloneNext ==
  ASSUME Plain, StaysOnOwn, PlainInv, Sound', HandlesApart, AllAlone, disturbed = {}, [Next]_vars
  PROVE  AllAlone'
<1> SUFFICES ASSUME NEW s \in Loops, current'[HandleOf[s]] # None
             PROVE  Alone(node', branch'[current'[HandleOf[s]]], HandleOf[s])
  BY DEF AllAlone
<1> DEFINE h == HandleOf[s]
<1>0. Sound
  BY DEF PlainInv
<1>1. h \in Handles /\ \A l \in Loops : HandleOf[l] \in Handles
  BY LoopAssumption
<1>2. current[h] # None => Alone(node, branch[current[h]], h)
  BY DEF AllAlone
<1>3. ASSUME NEW l \in Loops, Step(l) PROVE Alone(node', branch'[current'[h]], h)
  <2>1. CASE current[h] # None
    <3>1. HandleOf[l] # h => current[HandleOf[l]] # current[h]
      BY <1>1, <2>1 DEF HandlesApart
    <3>2. l \in Calm
      BY <1>3, PlainSteps DEF Calm
    <3> HIDE DEF h
    <3>3. current'[h] = current[h] /\ Alone(node', branch'[current[h]], h)
      BY <1>1, <1>2, <1>3, <2>1, <3>1, <3>2, AloneStep
    <3> QED
      BY <3>3
  <2>2. CASE current[h] = None
    <3>1. current' # current
      BY <2>2
    <3>2. PICK r \in Loops : Spawn(l, r)
      <4>1. CASE SaysNode(l) \/ TakesUserBack(l) \/ StoreAlias(l) \/ UNCHANGED dagVars
        BY <3>1, <4>1 DEF SaysNode, AddNode, AddNodeTo, TakesUserBack, RemoveNode, StoreAlias, SetAlias, dagVars
      <4> QED
        BY <1>3, <4>1, PlainSteps
    <3>3. /\ current' = [current EXCEPT ![HandleOf[r]] = Len(branch) + 1]
          /\ Alone(node', branch'[Len(branch) + 1], HandleOf[r])
      BY <1>0, <3>1, <3>2, SpawnAlone
    <3>4. HandleOf[r] = h
      BY <1>0, <1>1, <2>2, <3>3, SoundStore
    <3>5. current'[h] = Len(branch) + 1
      BY <1>0, <1>1, <3>3, <3>4, SoundStore
    <3> QED
      BY <3>3, <3>4, <3>5
  <2> QED
    BY <2>1, <2>2
<1>4. CASE \/ \E l \in Loops : UserInput(l)
           \/ Steer \/ New \/ Clear \/ Fork \/ UNCHANGED vars
  <2>1. CASE h # Main
    <3>1. current[h] # None
      <4>1. current'[h] = current[h]
        <5>1. CASE (\E l \in Loops : UserInput(l)) \/ Steer \/ Clear \/ UNCHANGED vars
          BY <5>1 DEF UserInput, Steer, Clear, ResetHead, vars, dagVars
        <5>2. CASE New \/ Fork
          <6>1. current' = [current EXCEPT ![Main] = Len(branch) + 1]
            BY <5>2 DEF New, NewBranch, Fork, Branch
          <6> QED
            BY <1>0, <1>1, <2>1, <6>1, SoundStore
        <5> QED
          BY <1>4, <5>1, <5>2
      <4> QED
        BY <4>1
    <3>2. current[h] # current[Main]
      BY <1>1, <2>1, <3>1, DagAssumption DEF HandlesApart
    <3> HIDE DEF h
    <3>3. current'[h] = current[h] /\ Alone(node', branch'[current[h]], h)
      BY <1>0, <1>1, <1>2, <1>4, <2>1, <3>1, <3>2, AloneOther
    <3> QED
      BY <3>3 DEF h
  <2>2. CASE h = Main
    <3> DEFINE b == current[Main]
    <3>0. /\ b # None /\ b \in Branches /\ Branches = 1..Len(branch) /\ Len(branch) \in Nat
          /\ branch \in [Branches -> Rows] /\ branch \in Seq(Rows)
          /\ current \in [Handles -> 0..Len(branch)]
          /\ Alone(node, branch[b], h)
      BY <1>0, <1>2, <2>2, SoundStore, DagAssumption DEF None
    <3>2. CASE (\E l \in Loops : UserInput(l)) \/ Steer \/ UNCHANGED vars
      BY <2>2, <3>0, <3>2 DEF UserInput, Steer, vars, dagVars
    <3>3. CASE New \/ Fork
      <4>1. PICK n \in Ids, f \in Ids :
              /\ branch' = Append(branch, [head |-> n, forked |-> f])
              /\ current' = [current EXCEPT ![Main] = Len(branch) + 1]
              /\ n = None \/ f = n
        <5>1. CASE New
          <6>1. HeadOf(Main) \in Ids /\ None \in Ids
            BY <1>0, <3>0, SoundStore DEF HeadOf, Rows
          <6> QED
            BY <5>1, <6>1 DEF New, NewBranch, InsertBranch
        <5>2. CASE Fork
          <6>1. PICK n \in DOMAIN node : Branch(Main, n)
            BY <5>2 DEF Fork, Command
          <6> QED
            BY <1>0, <6>1, SoundStore DEF Branch, InsertBranch
        <5> QED
          BY <3>3, <5>1, <5>2
      <4> DEFINE x == [head |-> n, forked |-> f]
      <4>2. current'[Main] = Len(branch) + 1
        BY <3>0, <4>1, DagAssumption
      <4>3. branch'[Len(branch) + 1] = x /\ x.head \in Nat /\ (x.head = None \/ x.forked = x.head)
        BY <1>0, <3>0, <4>1, SoundStore DEF Rows
      <4> HIDE DEF x
      <4>4. Alone(node', x, h)
        BY <4>3, AloneOpened
      <4> QED
        BY <2>2, <4>2, <4>3, <4>4
    <3>4. CASE Clear
      <4>1. branch' = [branch EXCEPT ![b].head = None] /\ current' = current
        BY <3>4 DEF Clear, ResetHead
      <4> HIDE DEF b
      <4>2. branch'[b].head = None
        BY <3>0, <4>1 DEF Rows
      <4>3. Alone(node', branch'[b], h)
        BY <4>2, AloneOpened DEF None
      <4> QED
        BY <2>2, <4>1, <4>3 DEF b
    <3> QED
      BY <1>4, <3>2, <3>3, <3>4
  <2> QED
    BY <2>1, <2>2
<1>5. ~Crash /\ ~Switch
  BY <1>0, StaysStep
<1>6. ~CompactCommand
  BY DEF CompactCommand, ReadTail, Plain
<1> QED
  BY <1>3, <1>4, <1>5, <1>6 DEF Next

\* A loop, in progress or not, is alone on its branch, when the user gives commands
\* between the runs only.  It is not otherwise: a run that goes on after /fork
\* writes what follows the old conversation to the new branch.
THEOREM Isolation ==
  ASSUME Plain, StaysOnOwn PROVE Spec /\ [](disturbed = {}) => []SubAgentIsolation
<1>1. Init => HandlesApart /\ AllAlone
  <2> SUFFICES ASSUME Init PROVE HandlesApart /\ AllAlone
    OBVIOUS
  <2>1. /\ current = [g \in Handles |-> IF g = Main THEN 1 ELSE None]
        /\ branch = <<[head |-> None, forked |-> None]>>
        /\ node = [n \in {} |-> None]
    BY DEF Init, DagInit
  <2>2. HandlesApart
    BY <2>1 DEF HandlesApart, None
  <2>3. ASSUME NEW l \in Loops, current[HandleOf[l]] # None
        PROVE  Alone(node, branch[current[HandleOf[l]]], HandleOf[l])
    <3>1. current[HandleOf[l]] = 1 /\ branch[1].head = None
      BY <2>1, <2>3, LoopAssumption
    <3>2. Older(node) /\ None \notin DOMAIN node
      BY <2>1 DEF Older
    <3>3. ChainOf(node, None) = <<>>
      BY <3>2, ChainStep DEF None
    <3> QED
      BY <3>1, <3>3 DEF Alone, Elements
  <2> QED
    BY <2>2, <2>3 DEF AllAlone
<1>2. PlainInv /\ PlainInv' /\ HandlesApart /\ AllAlone /\ disturbed = {} /\ [Next]_vars
        => HandlesApart' /\ AllAlone'
  BY HandlesApartNext, AllAloneNext DEF PlainInv
<1>3. AllAlone => SubAgentIsolation
  BY AncestorsChain DEF AllAlone, SubAgentIsolation, Alone
<1> QED
  BY <1>1, <1>2, <1>3, PlainInvariance, PTL DEF Spec

----------------------------------------------------------------------------
\* The messages a run may still write under, or take back.

\* A run whose first call has not been answered: it may take its user message back.
FirstTurn(l, r) ==
  /\ l \notin Screens /\ r.turn = 0
  /\ r.pc \in {"turn", "prepare", "summarise", "summary", "copy", "call", "answer", "failed"}

\* A run with locals r is going to write under p, whatever the head is then.
Holds(r, p) ==
  \/ r.pc \in {"addUser", "prepare", "call", "answer"} /\ p = r.at
  \/ r.pc \in {"alias", "setAlias", "thinking"} /\ p = r.reply
  \/ r.pc \in {"summarise", "summary", "copy"} /\ p \in {r.at, r.copyAt}

\* What a step that begins no compaction does to the locals of its loop.
LocalsFrame(l) ==
  /\ \A p : Holds(run'[l], p) =>
       \/ Holds(run[l], p)
       \/ p = HeadNode(l) /\ run[l].pc \in {"begin", "turn"}
       \/ p = nextNode /\ nextNode \in DOMAIN node'
  /\ FirstTurn(l, run'[l]) =>
       \/ /\ FirstTurn(l, run[l]) /\ run'[l].userNode = run[l].userNode
          /\ run[l].pc \notin {"answer", "failed"}
       \/ run[l].pc = "addUser" /\ run'[l].userNode = nextNode
  /\ run'[l].pc \in {"summarise", "summary", "copy"} =>
       /\ run[l].pc \in {"summarise", "summary", "copy"}
       /\ run'[l].copyAt = run[l].copyAt \/ run'[l].copyAt = nextNode

LEMMA LocalsStep ==
  ASSUME Sound, NEW l \in Loops, Step(l), ~ \E s \in Loops : Spawn(l, s), ~Compact(l)
  PROVE  LocalsFrame(l)
<1>0. run \in [Loops -> Locals] /\ run[l] \in Locals /\ run[l].turn \in Nat
  BY SoundLocals DEF Locals
<1>1. ASSUME run'[l].pc \notin {"addUser", "prepare", "call", "answer", "alias", "setAlias",
                               "thinking", "summarise", "summary", "copy"},
             run'[l].pc \notin {"turn", "failed"} \/ run'[l].turn = run[l].turn + 1
      PROVE  LocalsFrame(l)
  <2>1. run[l].turn + 1 # 0
    BY <1>0
  <2> QED
    BY <1>1, <2>1 DEF LocalsFrame, Holds, FirstTurn
<1>2. CASE ReadHead(l)
  <2>1. run'[l].pc = "addUser" /\ run'[l].at = HeadNode(l) /\ run[l].pc = "begin"
    BY <1>0, <1>2 DEF ReadHead, At, Locals
  <2> QED
    BY <2>1 DEF LocalsFrame, Holds, FirstTurn
<1>3. CASE AddUser(l)
  <2>1. run'[l].pc = "turn" /\ run'[l].userNode = nextNode /\ run[l].pc = "addUser"
    BY <1>0, <1>3 DEF AddUser, At, Locals
  <2> QED
    BY <2>1 DEF LocalsFrame, Holds, FirstTurn
<1>4. CASE BeginTurn(l)
  <2>1. \/ run'[l].pc = "exit"
        \/ /\ run[l].pc = "turn" /\ run'[l].pc = "prepare" /\ run'[l].turn = run[l].turn
           /\ run'[l].userNode = run[l].userNode /\ run'[l].at = HeadNode(l)
    BY <1>0, <1>4 DEF BeginTurn, At, Locals
  <2> QED
    BY <2>1 DEF LocalsFrame, Holds, FirstTurn
<1>5. CASE SkipCompaction(l)
  <2>1. PICK p \in {"call", "exit"} : run' = [run EXCEPT ![l].pc = p]
    BY <1>5 DEF SkipCompaction, AfterPrepare
  <2>2. /\ run[l].pc = "prepare" /\ run'[l].pc = p /\ run'[l].turn = run[l].turn
        /\ run'[l].userNode = run[l].userNode /\ run'[l].at = run[l].at
    BY <1>0, <1>5, <2>1 DEF SkipCompaction, At, Locals
  <2> QED
    BY <2>2 DEF LocalsFrame, Holds, FirstTurn
<1>6. CASE CallFails(l) \/ CallAnswers(l) \/ StartEagerTool(l) \/ CancelRetry(l)
  <2>1. /\ run[l].pc = "call" /\ run'[l].pc \in {"call", "failed", "answer"}
        /\ run'[l].turn = run[l].turn /\ run'[l].userNode = run[l].userNode
        /\ run'[l].at = run[l].at
    <3>1. RetryOrFail(l) \in {"call", "failed"}
      BY DEF RetryOrFail
    <3>2. CASE CallFails(l)
      BY <1>0, <3>1, <3>2 DEF CallFails, At, Locals
    <3>3. CASE CallAnswers(l)
      BY <1>0, <3>1, <3>3 DEF CallAnswers, At, Locals
    <3>4. CASE StartEagerTool(l)
      BY <1>0, <3>4 DEF StartEagerTool, At, Locals
    <3>5. CASE CancelRetry(l)
      BY <1>0, <3>5 DEF CancelRetry, At, Locals
    <3> QED
      BY <1>6, <3>2, <3>3, <3>4, <3>5
  <2> QED
    BY <2>1 DEF LocalsFrame, Holds, FirstTurn
<1>7. CASE \/ Fail(l) \/ Stop(l) \/ InterruptTools(l) \/ ToolsDone(l) \/ AfterTools(l) \/ Finish(l)
  <2>1. run'[l].pc \in {"idle", "drain", "exit", "cut", "toolsDone"}
    BY <1>0, <1>7 DEF Fail, Stop, InterruptTools, ToolsDone, AfterTools, Finish, Idle, Locals
  <2> QED
    BY <1>1, <2>1
<1>8. CASE Answer(l)
  <2>1. run'[l].pc = "alias" /\ run'[l].reply = nextNode
    BY <1>0, <1>8 DEF Answer, Locals
  <2>2. nextNode \in DOMAIN node'
    BY <1>8 DEF Answer, AddNodeBy, AddNode, AddNodeTo
  <2> QED
    BY <2>1, <2>2 DEF LocalsFrame, Holds, FirstTurn
<1>9. CASE PickAlias(l) \/ StoreAlias(l) \/ StoreThinking(l) \/ Answered(l)
  <2>1. \/ run'[l].pc \in {"answered", "stop", "tools"}
        \/ /\ run[l].pc \in {"alias", "setAlias"} /\ run'[l].pc \in {"setAlias", "thinking"}
           /\ run'[l].reply = run[l].reply
    BY <1>0, <1>9 DEF PickAlias, StoreAlias, StoreThinking, Answered, At, Locals
  <2> QED
    BY <2>1 DEF LocalsFrame, Holds, FirstTurn
<1>10. CASE RunTool(l) \/ DrainCut(l)
  <2>1. run'[l].pc \in {"tools", "cut", "toolsDone"}
    BY <1>0, <1>10 DEF RunTool, DrainCut, TakeSteering, At, Locals
  <2> QED
    BY <1>1, <2>1
<1>11. CASE Continue(l) \/ HookResumes(l)
  <2>1. run'[l].pc = "turn" /\ run'[l].turn = run[l].turn + 1
    BY <1>0, <1>11 DEF Continue, HookResumes, Locals
  <2> QED
    BY <1>1, <2>1
<1>12. CASE Drain(l)
  <2>1. \/ run'[l].pc = "turn" /\ run'[l].turn = run[l].turn + 1
        \/ run'[l].pc = "drain"
    BY <1>0, <1>12 DEF Drain, TakeSteering, At, Locals
  <2> QED
    BY <1>1, <2>1
<1>13. CASE AddSummary(l) \/ CopyTail(l)
  <2>1. /\ run[l].pc \in {"summary", "copy"} /\ run'[l].pc = "copy" /\ run'[l].copyAt = nextNode
        /\ run'[l].turn = run[l].turn /\ run'[l].userNode = run[l].userNode
        /\ run'[l].at = run[l].at
    <3>1. CASE AddSummary(l)
      BY <1>0, <3>1 DEF AddSummary, At, Locals
    <3>2. CASE CopyTail(l)
      BY <1>0, <3>2 DEF CopyTail, At, Locals
    <3> QED
      BY <1>13, <3>1, <3>2
  <2>2. nextNode \in DOMAIN node'
    BY <1>13 DEF AddSummary, CopyTail, AddNodeBy, AddNode, AddNodeTo
  <2> QED
    BY <2>1, <2>2 DEF LocalsFrame, Holds, FirstTurn
<1>14. CASE OpenCompacted(l)
  <2>1. /\ run[l].pc = "summarise" /\ run'[l].pc = "summary" /\ run'[l].copyAt = run[l].copyAt
        /\ run'[l].turn = run[l].turn /\ run'[l].userNode = run[l].userNode
        /\ run'[l].at = run[l].at
    BY <1>0, <1>14 DEF OpenCompacted, At, Locals
  <2> QED
    BY <2>1 DEF LocalsFrame, Holds, FirstTurn
<1>15. CASE EndCompaction(l)
  <2>1. CASE l \in Screens
    <3>1. run'[l].pc = "idle"
      BY <1>0, <1>15, <2>1 DEF EndCompaction, Idle
    <3> QED
      BY <1>1, <3>1
  <2>2. CASE l \notin Screens
    <3>1. PICK p \in {"call", "exit"} : run' = [run EXCEPT ![l].pc = p, ![l].sent = HeadNode(l)]
      BY <1>15, <2>2 DEF EndCompaction, AfterPrepare
    <3>2. /\ run[l].pc = "copy" /\ run'[l].pc = p
          /\ run'[l].turn = run[l].turn /\ run'[l].userNode = run[l].userNode
          /\ run'[l].at = run[l].at
      BY <1>0, <1>15, <3>1 DEF EndCompaction, At, Locals
    <3> QED
      BY <2>2, <3>2 DEF LocalsFrame, Holds, FirstTurn
  <2> QED
    BY <2>1, <2>2
<1>16. \/ ReadHead(l) \/ AddUser(l) \/ BeginTurn(l) \/ SkipCompaction(l) \/ AddSummary(l)
       \/ CopyTail(l) \/ EndCompaction(l) \/ StartEagerTool(l) \/ CallFails(l) \/ CallAnswers(l)
       \/ CancelRetry(l) \/ Fail(l) \/ Answer(l) \/ PickAlias(l) \/ StoreAlias(l)
       \/ StoreThinking(l) \/ Continue(l) \/ Answered(l) \/ HookResumes(l) \/ Stop(l) \/ Drain(l)
       \/ RunTool(l) \/ InterruptTools(l) \/ DrainCut(l) \/ ToolsDone(l) \/ AfterTools(l)
       \/ Finish(l) \/ OpenCompacted(l)
  BY DEF Step
<1> QED
  BY <1>2, <1>3, <1>4, <1>5, <1>6, <1>7, <1>8, <1>9, <1>10, <1>11, <1>12, <1>13, <1>14, <1>15, <1>16

\* What a loop writes under is held by it, or the head of its branch.
LEMMA SaysUnder ==
  ASSUME NEW l \in Loops, NEW p, NEW msg, Says(l, p, msg)
  PROVE  Holds(run[l], p) \/ (p = HeadNode(l) /\ run[l].pc \notin {"summary", "copy"})
  BY DEF Says, At, Holds

\* Sub-agents are spawned by answers that are stored.  A tool that runs while its
\* answer is streaming forks the branch of its sub-agent at the user message, which
\* is taken back when the stream fails: RollbackSafe is false then.
SpawnsLate ==
  Parallel => Streaming \cap MainLoops = {} \/ Loops \subseteq MainLoops \cup Screens

\* A tool runs then only in its turn.
LEMMA SpawnsFromTools ==
  ASSUME SpawnsLate, NEW l \in Loops, NEW s \in Loops, Spawn(l, s)
  PROVE  At(l, "tools") /\ l # s
<1>1. l \in MainLoops /\ HandleOf[s] # Main
  BY DEF Spawn
<1>2. s \notin MainLoops \cup Screens
  BY <1>1, LoopAssumption DEF MainLoops
<1> QED
  BY <1>1, <1>2 DEF Spawn, ToolRuns, SpawnsLate, MainLoops

----------------------------------------------------------------------------
\* The user message of a run's first call, without compaction.

Ordinary == Plain /\ SpawnsLate

\* Nothing stands on u, which l may take back, and nobody is going to write under it.
Untaken(l, u) ==
  /\ u \in DOMAIN node
  /\ \A n \in DOMAIN node : node[n].parent # u
  /\ \A b \in Branches \ {current[HandleOf[l]]} : branch[b].head # u
  /\ \A k \in Loops \ {l} : ~Holds(run[k], u)

Grounded == \A l \in Calm : FirstTurn(l, run[l]) => Untaken(l, run[l].userNode)

\* A step that leaves the branch of l and the row u alone, and builds nothing on u.
LEMMA UntakenFrame ==
  ASSUME NEW l \in Loops, NEW u, Untaken(l, u),
         u \in DOMAIN node',
         \A n \in DOMAIN node' :
           node'[n].parent # u \/ (n \in DOMAIN node /\ node'[n].parent = node[n].parent),
         current'[HandleOf[l]] = current[HandleOf[l]],
         \A b \in Branches' :
           branch'[b].head # u \/ (b \in Branches /\ branch'[b].head = branch[b].head),
         \A k \in Loops \ {l} : Holds(run'[k], u) => Holds(run[k], u)
  PROVE  Untaken(l, u)'
  BY DEF Untaken

\* The step that writes the user message: it is new.
LEMMA UntakenWritten ==
  ASSUME Sound, NEW l \in Loops, AddUser(l) PROVE \E u : u = nextNode /\ Untaken(l, u)'
<1> DEFINE msg == Message("user", l)
           p == run[l].at
           c == current[HandleOf[l]]
<1>1. Says(l, p, msg) /\ AddNode(HandleOf[l], p, msg)
  BY DEF AddUser, AddNodeBy, Says, At
<1> HIDE DEF msg
<1>2. Adds(c, p, msg) /\ p \in Ids
  BY <1>1, SaysEffect, SaysTyped
<1>3. c \in Branches
  <2>1. Active(l)
    BY DEF AddUser, Active, At
  <2> QED
    BY <2>1, ActiveBound, BoundBranch
<1> HIDE DEF c, p
<1>4. nextNode \notin Ids /\ nextNode \in Nat
  BY SoundStore
<1>5. PICK u : u = nextNode
  OBVIOUS
<1>6. u \in DOMAIN node' /\ current' = current /\ c = current'[HandleOf[l]]
  BY <1>2, <1>5 DEF Adds, c
<1>7. \A n \in DOMAIN node' : node'[n].parent # u
  BY <1>2, <1>4, <1>5, SoundStore DEF Adds
<1>8. \A b \in Branches' \ {c} : branch'[b].head # u
  <2>1. \A b \in Branches : branch[b].head \in Ids
    BY SoundStore DEF Rows
  <2> QED
    BY <1>2, <1>4, <1>5, <2>1 DEF Adds
<1>9. ASSUME NEW k \in Loops \ {l} PROVE ~Holds(run'[k], u)
  <2>1. run'[k] = run[k] /\ run[k] \in Locals
    BY SoundLocals DEF AddUser
  <2>2. run[k].at \in Ids /\ run[k].reply \in Ids /\ run[k].copyAt \in Ids
    BY <2>1 DEF Locals
  <2> QED
    BY <1>4, <1>5, <2>1, <2>2 DEF Holds
<1>10. Untaken(l, u)'
  BY <1>6, <1>7, <1>8, <1>9 DEF Untaken
<1> QED
  BY <1>5, <1>10

\* The loop's own step.
LEMMA GroundedOwn ==
  ASSUME Plain, PlainInv, Grounded, NEW l \in Calm, Step(l), ~ \E s \in Loops : Spawn(l, s),
         FirstTurn(l, run'[l])
  PROVE  Untaken(l, run[l].userNode)'
<1>0. /\ l \in Loops /\ Sound /\ ~Compact(l) /\ ~OpenCompacted(l)
      /\ run \in [Loops -> Locals] /\ run[l] \in Locals
      /\ run[l].pc \notin {"summarise", "summary", "copy"}
  <2>1. l \in Loops /\ Sound
    BY CalmLoops DEF PlainInv
  <2> QED
    BY <2>1, PlainSteps, SoundLocals DEF PlainInv, Compacting, Plain
<1>1. LocalsFrame(l)
  BY <1>0, LocalsStep
<1>2. CASE run[l].pc = "addUser"
  <2>1. AddUser(l)
    BY <1>0, <1>2
       DEF Step, At, ReadHead, BeginTurn, SkipCompaction, AddSummary, CopyTail, EndCompaction,
           StartEagerTool, CallFails, CallAnswers, CancelRetry, Fail, Answer, PickAlias,
           StoreAlias, StoreThinking, Continue, Answered, HookResumes, Stop, Drain, RunTool,
           InterruptTools, DrainCut, ToolsDone, AfterTools, Finish
  <2>2. PICK u : u = nextNode /\ Untaken(l, u)'
    BY <1>0, <2>1, UntakenWritten
  <2>3. run'[l].userNode = u
    BY <1>0, <2>1, <2>2 DEF AddUser, Locals
  <2> QED
    BY <2>2, <2>3 DEF Untaken
<1>3. CASE run[l].pc # "addUser"
  <2>1. /\ FirstTurn(l, run[l]) /\ run'[l].userNode = run[l].userNode
        /\ run[l].pc \in {"turn", "prepare", "call"}
    <3>1. /\ FirstTurn(l, run[l]) /\ run'[l].userNode = run[l].userNode
          /\ run[l].pc \notin {"answer", "failed"}
      BY <1>1, <1>3 DEF LocalsFrame
    <3> QED
      BY <1>0, <3>1 DEF FirstTurn
  <2>2. Own(l) /\ UNCHANGED dagVars
    <3>1. ~SaysNode(l) /\ ~TakesUserBack(l) /\ ~StoreAlias(l)
      BY <2>1 DEF SaysNode, Says, TakesUserBack, StoreAlias, At
    <3> QED
      BY <1>0, <3>1, PlainSteps
  <2>3. PICK u : u = run[l].userNode
    OBVIOUS
  <2>4. Untaken(l, u)
    BY <2>1, <2>3 DEF Grounded
  <2>5. Untaken(l, u)'
    BY <2>2, <2>4 DEF Untaken, Own, dagVars, Branches
  <2>6. u = run'[l].userNode
    BY <2>1, <2>3
  <2> QED
    BY <2>5, <2>6 DEF Untaken
<1> QED
  BY <1>2, <1>3

\* The step of another loop.  k is on a branch of its own, at the head of which
\* stands the message in question.
LEMMA UntakenStep ==
  ASSUME Ordinary, PlainInv, NEW k \in Calm, Active(k), NEW u, Untaken(k, u),
         FirstTurn(k, run[k]), u = run[k].userNode,
         NEW l \in Loops, Step(l), l # k \/ \E s \in Loops : Spawn(l, s)
  PROVE  Untaken(k, u)'
<1>0. /\ k \in Loops /\ Sound /\ Sound' /\ RowsSame /\ Active(l)
      /\ BranchesApart /\ Plain /\ SpawnsLate
  <2>1. k \in Loops /\ Sound /\ BranchesApart /\ Plain /\ SpawnsLate
    BY CalmLoops DEF PlainInv, Ordinary
  <2>2. [Next]_vars
    BY DEF Next
  <2> QED
    BY <2>1, <2>2, SoundNext, RowsKept, Kinds
<1> DEFINE c == current[HandleOf[l]]
           d == current[HandleOf[k]]
<1>1. /\ HandleOf[l] \in Handles /\ c \in Branches /\ HeadNode(l) \in Ids
      /\ HandleOf[k] \in Handles /\ d \in Branches
  BY <1>0, ActiveBound, BoundBranch
<1>2. l # k
  <2>1. ASSUME NEW s \in Loops, Spawn(l, s) PROVE l # k
    BY <1>0, <2>1, SpawnsFromTools DEF FirstTurn, At
  <2> QED
    BY <2>1
<1>3. c # d
  BY <1>0, <1>2 DEF BranchesApart, Shared, Active
<1> HIDE DEF c, d
<1>4. HeadNode(l) # u
  BY <1>1, <1>3 DEF Untaken, HeadNode, HeadOf, c, d
<1>5. u \in DOMAIN node /\ u \in Ids /\ u # nextNode
  BY <1>0, SoundStore DEF Untaken
<1>6. /\ ~Holds(run[l], u)
      /\ \A n \in DOMAIN node : node[n].parent # u
      /\ \A b \in Branches \ {d} : branch[b].head # u
      /\ \A j \in Loops \ {k} : ~Holds(run[j], u)
  BY <1>2 DEF Untaken, d
<1>7. ASSUME NEW s \in Loops, Spawn(l, s) PROVE Untaken(k, u)'
  <2>1. Untouched(k) /\ node' = node
    BY <1>0, <1>7, SpawnUntouched
  <2>2. PICK f : f = HeadNode(l)
    OBVIOUS
  <2>3. InsertBranch(f, f) /\ UNCHANGED <<node, nextNode, alias>>
        /\ (current' = current \/ current' = [current EXCEPT ![HandleOf[s]] = Len(branch) + 1])
    BY <1>7, <2>2 DEF Spawn, ForkFrom
  <2>4. OpensRow([head |-> f, forked |-> f])
    BY <1>0, <1>1, <2>2, <2>3, InsertEffect, LoopAssumption
  <2>5. \A b \in Branches' : branch'[b].head # u \/ (b \in Branches /\ branch'[b].head = branch[b].head)
    BY <1>4, <2>2, <2>4 DEF OpensRow
  <2>6. \A j \in Loops : Holds(run'[j], u) => Holds(run[j], u)
    <3>1. \A j \in Loops : run'[j] = run[j] \/ run'[j].pc = "begin"
      BY <1>0, <1>7, SpawnBegins
    <3> QED
      BY <3>1 DEF Holds
  <2> QED
    BY <1>0, <1>5, <2>1, <2>5, <2>6, UntakenFrame DEF Untouched
<1>8. CASE ~ \E s \in Loops : Spawn(l, s)
  <2>1. Untouched(k)
    BY <1>0, <1>2, StepUntouched
  <2>2. /\ ~Compact(l) /\ ~OpenCompacted(l)
        /\ \/ Own(l) /\ UNCHANGED dagVars
           \/ Own(l) /\ StoreAlias(l)
           \/ Own(l) /\ SaysNode(l)
           \/ Own(l) /\ TakesUserBack(l)
    BY <1>0, <1>8, PlainSteps
  <2>3. \A j \in Loops \ {k} : Holds(run'[j], u) => Holds(run[j], u)
    <3>1. LocalsFrame(l)
      BY <1>0, <1>8, <2>2, LocalsStep
    <3>2. ~Holds(run'[l], u)
      BY <1>4, <1>5, <1>6, <3>1 DEF LocalsFrame
    <3> QED
      BY <2>2, <3>2 DEF Own
  <2>4. CASE UNCHANGED dagVars \/ StoreAlias(l)
    <3>1. node' = node /\ branch' = branch
      BY <2>4 DEF dagVars, StoreAlias, SetAlias
    <3> QED
      BY <1>0, <1>5, <2>1, <2>3, <3>1, UntakenFrame DEF Untouched, Branches
  <2>5. CASE SaysNode(l)
    <3>1. PICK p, msg : Says(l, p, msg) /\ AddNode(HandleOf[l], p, msg)
      BY <2>5 DEF SaysNode
    <3>2. Adds(c, p, msg)
      BY <1>0, <3>1, SaysEffect DEF c
    <3>3. p # u
      BY <1>4, <1>6, <3>1, SaysUnder
    <3>4. /\ \A n \in DOMAIN node' :
               node'[n].parent # u \/ (n \in DOMAIN node /\ node'[n].parent = node[n].parent)
          /\ \A b \in Branches' :
               branch'[b].head # u \/ (b \in Branches /\ branch'[b].head = branch[b].head)
          /\ u \in DOMAIN node'
      BY <1>1, <1>5, <3>2, <3>3 DEF Adds
    <3> QED
      BY <1>0, <2>1, <2>3, <3>4, UntakenFrame DEF Untouched
  <2>6. CASE TakesUserBack(l)
    <3>1. PICK v : v = run[l].userNode
      OBVIOUS
    <3>2. UNCHANGED dagVars \/ Removes(c, v)
      BY <1>0, <1>1, <2>6, <3>1, RemoveEffect DEF TakesUserBack, c
    <3>3. CASE Removes(c, v)
      <4>1. v # u
        BY <1>0, <1>2, <1>5, <3>1, <3>3 DEF Removes, Sound, UserRows
      <4>2. node[v].parent # u
        BY <1>6, <3>3 DEF Removes
      <4>3. /\ \A n \in DOMAIN node' :
                 node'[n].parent # u \/ (n \in DOMAIN node /\ node'[n].parent = node[n].parent)
            /\ \A b \in Branches' :
                 branch'[b].head # u \/ (b \in Branches /\ branch'[b].head = branch[b].head)
            /\ u \in DOMAIN node'
        BY <1>1, <1>5, <3>3, <4>1, <4>2 DEF Removes
      <4> QED
        BY <1>0, <2>1, <2>3, <4>3, UntakenFrame DEF Untouched
    <3> QED
      BY <2>4, <3>2, <3>3
  <2> QED
    BY <2>2, <2>4, <2>5, <2>6
<1> QED
  BY <1>7, <1>8

\* What the user does while k is running and stays undisturbed.
LEMMA UntakenOther ==
  ASSUME Ordinary, PlainInv, NEW k \in Loops, k \in Calm', Active(k), NEW u, Untaken(k, u),
         FirstTurn(k, run[k]), u = run[k].userNode,
         \/ \E l \in Loops : UserInput(l)
         \/ Steer \/ New \/ Clear \/ Fork \/ Switch \/ CompactCommand \/ UNCHANGED vars
  PROVE  Untaken(k, u)'
<1>0. Sound /\ BranchesApart /\ Compaction = FALSE
  BY DEF PlainInv, Ordinary, Plain
<1>1. Untouched(k) /\ node' = node
  BY <1>0, OtherUntouched
<1>2. u \in DOMAIN node /\ u # None /\ Branches = 1..Len(branch) /\ Len(branch) \in Nat
  BY <1>0, SoundStore DEF Untaken
<1>3. ASSUME \A b \in Branches' :
               branch'[b].head # u \/ (b \in Branches /\ branch'[b].head = branch[b].head),
             \A j \in Loops : Holds(run'[j], u) => Holds(run[j], u)
      PROVE  Untaken(k, u)'
  BY <1>1, <1>2, <1>3, UntakenFrame DEF Untouched
<1>4. CASE (\E l \in Loops : UserInput(l)) \/ Steer \/ Switch \/ UNCHANGED vars
  <2>1. branch' = branch
    BY <1>4 DEF UserInput, Steer, Switch, SwitchBranch, vars, dagVars
  <2>2. \A j \in Loops : run'[j] = run[j] \/ run'[j].pc = "begin"
    <3>1. ASSUME NEW l \in Loops, UserInput(l), NEW j \in Loops
          PROVE  run'[j] = run[j] \/ run'[j].pc = "begin"
      <4>1. run' = run \/ run' = [run EXCEPT ![l] = [Idle EXCEPT !.pc = "begin"]]
        BY <3>1 DEF UserInput
      <4>2. [Idle EXCEPT !.pc = "begin"].pc = "begin" /\ run \in [Loops -> Locals]
        BY <1>0, SoundLocals DEF Idle
      <4> QED
        BY <4>1, <4>2
    <3>2. CASE Steer \/ Switch \/ UNCHANGED vars
      BY <3>2 DEF Steer, Switch, Command, vars
    <3> QED
      BY <1>4, <3>1, <3>2
  <2>3. \A j \in Loops : Holds(run'[j], u) => Holds(run[j], u)
    BY <2>2 DEF Holds
  <2> QED
    BY <1>3, <2>1, <2>3 DEF Branches
<1>5. CASE New \/ Clear \/ Fork
  <2>1. run' = run
    BY <1>5 DEF New, Clear, Fork, Command
  <2>2. CASE Clear
    <3>1. Main \in Handles /\ current[Main] \in Branches
      BY <1>0, SoundStore, DagAssumption DEF None
    <3>2. branch' = [branch EXCEPT ![current[Main]].head = None]
      BY <2>2 DEF Clear, ResetHead
    <3>3. branch \in [Branches -> Rows]
      BY <1>0, SoundStore
    <3>4. Branches' = Branches
      BY <3>2, <1>0, SoundStore DEF Branches
    <3>5. \A b \in Branches : branch'[b].head = None \/ branch'[b] = branch[b]
      BY <3>1, <3>2, <3>3 DEF Rows
    <3> QED
      BY <1>2, <1>3, <2>1, <3>4, <3>5
  <2>3. CASE New \/ Fork
    <3>1. PICK n, f : /\ InsertBranch(n, f) /\ n \in Ids /\ f \in Ids /\ n # u
                      /\ UNCHANGED <<node, nextNode, alias>>
                      /\ current' = [current EXCEPT ![Main] = Len(branch) + 1]
      <4>1. CASE New
        <5>1. HeadOf(Main) \in Ids
          BY <1>0, SoundStore, DagAssumption DEF HeadOf, Rows, None
        <5>2. PICK f : f = HeadOf(Main)
          OBVIOUS
        <5>3. /\ InsertBranch(None, f) /\ UNCHANGED <<node, nextNode, alias>>
              /\ current' = [current EXCEPT ![Main] = Len(branch) + 1]
          BY <4>1, <5>2 DEF New, NewBranch
        <5> QED
          BY <1>0, <1>2, <5>1, <5>2, <5>3, SoundStore
      <4>2. CASE Fork
        <5>1. PICK n \in DOMAIN node :
                /\ Command("fork", {l \in Loops : run[l].turn = 0 /\ run[l].userNode = n})
                /\ Branch(Main, n)
          BY <4>2 DEF Fork
        <5>2. n # u
          <6>1. ASSUME n = u PROVE FALSE
            <7>1. k \in {l \in Loops : run[l].turn = 0 /\ run[l].userNode = n} /\ ~At(k, "idle")
              BY <6>1 DEF FirstTurn, Active
            <7>2. k \in disturbed'
              BY <5>1, <7>1 DEF Command, Give
            <7> QED
              BY <7>2 DEF Calm
          <6> QED
            BY <6>1
        <5>3. /\ InsertBranch(n, n) /\ UNCHANGED <<node, nextNode, alias>>
              /\ current' = [current EXCEPT ![Main] = Len(branch) + 1]
          BY <5>1 DEF Branch
        <5> QED
          BY <1>0, <5>2, <5>3, SoundStore
      <4> QED
        BY <2>3, <4>1, <4>2
    <3>2. OpensRow([head |-> n, forked |-> f])
      BY <1>0, <3>1, InsertEffect, DagAssumption
    <3> QED
      BY <1>3, <2>1, <3>1, <3>2 DEF OpensRow
  <2> QED
    BY <1>5, <2>2, <2>3
<1>6. ~CompactCommand
  BY <1>0 DEF CompactCommand, ReadTail
<1> QED
  BY <1>4, <1>5, <1>6

LEMMA GroundedNext ==
  ASSUME Ordinary, PlainInv, Grounded, [Next]_vars PROVE Grounded'
<1> SUFFICES ASSUME NEW k \in Calm', FirstTurn(k, run'[k]) PROVE Untaken(k, run[k].userNode)'
  BY DEF Grounded, FirstTurn
<1>0. k \in Loops \ Screens /\ Sound /\ BranchesApart /\ Plain
  BY CalmLoops DEF PlainInv, Ordinary
<1>1. CASE Step(k) /\ ~ \E s \in Loops : Spawn(k, s)
  <2>1. k \in Calm
    BY <1>0, <1>1, StepCalm
  <2> QED
    BY <1>0, <1>1, <2>1, GroundedOwn
<1>2. CASE ~(Step(k) /\ ~ \E s \in Loops : Spawn(k, s))
  <2>1. Untouched(k) /\ Active(k) /\ k \in Calm
    <3>1. run'[k].pc \notin {"idle", "begin"}
      BY DEF FirstTurn
    <3> QED
      BY <1>0, <1>2, <3>1, Bystander
  <2>2. PICK u : u = run[k].userNode
    OBVIOUS
  <2>3. FirstTurn(k, run[k]) /\ Untaken(k, u)
    BY <2>1, <2>2 DEF Untouched, Grounded, FirstTurn
  <2>4. Untaken(k, u)'
    <3>1. ASSUME NEW l \in Loops, Step(l) PROVE Untaken(k, u)'
      BY <1>2, <2>1, <2>2, <2>3, <3>1, UntakenStep
    <3>2. CASE ~ \E l \in Loops : Step(l)
      <4>1. ~Crash
        <5>1. Crash => run'[k].pc = "idle"
          BY <1>0 DEF Crash, Idle
        <5> QED
          BY <5>1 DEF FirstTurn
      <4>2. \/ \E l \in Loops : UserInput(l)
            \/ Steer \/ New \/ Clear \/ Fork \/ Switch \/ CompactCommand \/ UNCHANGED vars
        BY <3>2, <4>1 DEF Next
      <4>3. k \in Loops
        BY <1>0
      <4> QED
        BY <2>1, <2>2, <2>3, <4>2, <4>3, UntakenOther
    <3> QED
      BY <3>1, <3>2
  <2>5. u = run'[k].userNode
    BY <2>1, <2>2 DEF Untouched
  <2> QED
    BY <2>4, <2>5 DEF Untaken
<1> QED
  BY <1>1, <1>2

LEMMA GroundedInvariance == ASSUME Ordinary PROVE Spec => [](PlainInv /\ Grounded)
<1>1. Init => Grounded
  BY CalmLoops DEF Init, Grounded, FirstTurn, Idle
<1>2. PlainInv /\ Grounded /\ [Next]_vars => Grounded'
  BY GroundedNext
<1>3. Plain
  BY DEF Ordinary
<1> QED
  BY <1>1, <1>2, <1>3, PlainInvariance, PTL DEF Spec

\* The user message that runLoop takes back when its first LLM call fails is a
\* leaf, the head of its branch, and the head of no other branch, unless a command
\* has disturbed the run.
THEOREM Rollback == ASSUME Ordinary PROVE Spec => []RollbackSafe
<1>1. PlainInv /\ Grounded => RollbackSafe
  BY CalmLoops DEF PlainInv, Grounded, Begun, RollbackSafe, RollsBackAlone, Untaken, FirstTurn
<1> QED
  BY <1>1, GroundedInvariance, PTL

----------------------------------------------------------------------------
\* The store as a message tree.

LEMMA ExtendsTree ==
  ASSUME Sound, NEW c \in Branches, NEW p, NEW msg, Adds(c, p, msg), p = branch[c].head,
         nextNode <= MaxNode
  PROVE  Tree!Next
<1>1. [n \in DOMAIN node' |-> node'[n].parent] =
        [n \in DOMAIN node \cup {nextNode} |-> IF n = nextNode THEN p ELSE node[n].parent]
  BY SoundStore DEF Adds
<1>2. [b \in Branches' |-> branch'[b].head] =
        [b \in Branches |-> IF b = c THEN nextNode ELSE branch[b].head]
  BY DEF Adds
<1>3. nextNode' = nextNode + 1
  BY DEF Adds
<1>4. Tree!Extend(c)
  BY <1>1, <1>2, <1>3 DEF Tree!Extend, Tree!Messages
<1>5. c \in DOMAIN [b \in Branches |-> branch[b].head]
  OBVIOUS
<1> QED
  BY <1>4, <1>5 DEF Tree!Next, Tree!Extend

LEMMA RetractsFromTree ==
  ASSUME Sound, NEW c \in Branches, NEW u, Removes(c, u), branch[c].head = u,
         \A n \in DOMAIN node : node[n].parent # u,
         \A b \in Branches \ {c} : branch[b].head # u
  PROVE  Tree!Next
<1>1. [n \in DOMAIN node' |-> node'[n].parent] = [n \in DOMAIN node \ {u} |-> node[n].parent]
  BY DEF Removes
<1>2. [b \in Branches' |-> branch'[b].head] =
        [b \in Branches |-> IF b = c THEN node[u].parent ELSE branch[b].head]
  BY DEF Removes
<1>3. nextNode' = nextNode /\ u \in DOMAIN node
  BY DEF Removes
<1>4. Tree!Retract(c)
  BY <1>1, <1>2, <1>3 DEF Tree!Retract, Tree!Messages
<1>5. c \in DOMAIN [b \in Branches |-> branch[b].head]
  OBVIOUS
<1> QED
  BY <1>4, <1>5 DEF Tree!Next, Tree!Retract

LEMMA OpensInTree ==
  ASSUME Sound, NEW h \in DOMAIN node \cup {None}, NEW f, InsertBranch(h, f),
         OpensRow([head |-> h, forked |-> f])
  PROVE  Tree!Next
<1> DEFINE tip == [b \in Branches |-> branch[b].head]
<1>1. Branches = 1..Len(branch) /\ Len(branch) \in Nat /\ branch \in [Branches -> Rows]
  BY SoundStore
<1>2. tip \in [1..Len(branch) -> Ids]
  BY <1>1 DEF Rows
<1>3. tip \in Seq(Ids) /\ Len(tip) = Len(branch)
  BY <1>1, <1>2
<1>4. Append(tip, h) = [b \in 1..(Len(branch) + 1) |-> IF b = Len(branch) + 1 THEN h ELSE tip[b]]
  BY <1>1, <1>2, <1>3
<1>5. [b \in Branches' |-> branch'[b].head] =
        [b \in 1..(Len(branch) + 1) |-> IF b = Len(branch) + 1 THEN h ELSE tip[b]]
  <2>1. Branches' = 1..(Len(branch) + 1)
    BY <1>1 DEF OpensRow
  <2> QED
    BY <1>1, <2>1 DEF OpensRow
<1>6. Tree!Open(h)
  <2>1. Len(branch) < MaxBranch /\ nextNode' = nextNode /\ node' = node
    BY DEF InsertBranch, OpensRow
  <2> QED
    BY <1>3, <1>4, <1>5, <2>1 DEF Tree!Open
<1>7. h \in Tree!Messages \cup {Tree!None}
  BY DEF Tree!Messages, Tree!None, None
<1> QED
  BY <1>6, <1>7 DEF Tree!Next, Tree!Open

LEMMA ClearsInTree == ASSUME Sound, Clear PROVE Tree!Next
<1> DEFINE c == current[Main]
<1>1. branch' = [branch EXCEPT ![c].head = None] /\ UNCHANGED <<node, nextNode>>
  BY DEF Clear, ResetHead
<1>2. c \in Branches /\ branch \in [Branches -> Rows] /\ Branches' = Branches
  BY <1>1, SoundStore, DagAssumption DEF None, Branches
<1> HIDE DEF c
<1>3. [b \in Branches' |-> branch'[b].head] =
        [b \in Branches |-> IF b = c THEN Tree!None ELSE branch[b].head]
  BY <1>1, <1>2 DEF Tree!None, None, Rows
<1>4. Tree!Clear(c)
  BY <1>1, <1>2, <1>3 DEF Tree!Clear
<1>5. c \in DOMAIN [b \in Branches |-> branch[b].head]
  BY <1>2
<1> QED
  BY <1>4, <1>5 DEF Tree!Next, Tree!Clear

\* A step of a run that no command has disturbed.
LEMMA TreeOfRun ==
  ASSUME Ordinary, PlainInv, Grounded, NEW l \in Calm, Step(l)
  PROVE  Tree!Next \/ UNCHANGED Tree!vars
<1>0. l \in Loops /\ Sound /\ Plain /\ SpawnsLate /\ Compaction = FALSE /\ Turn(run[l], HeadNode(l), node)
  BY CalmLoops DEF PlainInv, Ordinary, Plain, TurnInv
<1> DEFINE c == current[HandleOf[l]]
<1>1. HandleOf[l] \in Handles /\ c \in Branches /\ HeadNode(l) \in Ids /\ HeadNode(l) = branch[c].head
  BY <1>0, Kinds, ActiveBound, BoundBranch DEF HeadNode, HeadOf
<1> HIDE DEF c
<1>2. CASE UNCHANGED dagVars \/ StoreAlias(l)
  BY <1>2 DEF Tree!vars, dagVars, StoreAlias, SetAlias, Branches
<1>3. CASE SaysNode(l)
  <2>1. PICK p, msg : Says(l, p, msg) /\ AddNode(HandleOf[l], p, msg)
    BY <1>3 DEF SaysNode
  <2>2. p = HeadNode(l)
    BY <1>0, <2>1, SaysAtHead
  <2>3. Adds(c, p, msg)
    BY <1>0, <2>1, SaysEffect DEF c
  <2>4. nextNode <= MaxNode
    BY <2>1 DEF AddNode, AddNodeTo
  <2> QED
    BY <1>0, <1>1, <2>2, <2>3, <2>4, ExtendsTree
<1>4. CASE TakesUserBack(l)
  <2>1. PICK u : u = run[l].userNode
    OBVIOUS
  <2>2. FirstTurn(l, run[l]) /\ run[l].turn = 0 /\ run[l].pc = "failed"
    BY <1>4, CalmLoops DEF TakesUserBack, FirstTurn, At
  <2>3. HeadNode(l) = u
    BY <2>1, <2>2 DEF PlainInv, Begun
  <2>4. Untaken(l, u)
    BY <2>1, <2>2 DEF Grounded
  <2>5. UNCHANGED dagVars \/ Removes(c, u)
    BY <1>0, <1>1, <1>4, <2>1, RemoveEffect DEF TakesUserBack, c
  <2>6. Removes(c, u) => Tree!Next
    BY <1>0, <1>1, <2>3, <2>4, RetractsFromTree DEF Untaken, c
  <2> QED
    BY <1>2, <2>5, <2>6
<1>5. ASSUME NEW s \in Loops, Spawn(l, s) PROVE Tree!Next
  <2>1. PICK f : f = HeadNode(l)
    OBVIOUS
  <2>2. /\ InsertBranch(f, f) /\ UNCHANGED <<node, nextNode, alias>>
        /\ (current' = current \/ current' = [current EXCEPT ![HandleOf[s]] = Len(branch) + 1])
    BY <1>5, <2>1 DEF Spawn, ForkFrom
  <2>3. OpensRow([head |-> f, forked |-> f])
    BY <1>0, <1>1, <2>1, <2>2, InsertEffect, LoopAssumption
  <2>4. f \in DOMAIN node
    <3>1. At(l, "tools")
      BY <1>0, <1>5, SpawnsFromTools
    <3>2. CASE run[l].done # 0
      BY <1>0, <2>1, <3>1, <3>2 DEF Turn, AnswerOfTurn, At
    <3>3. CASE run[l].done = 0
      BY <1>0, <2>1, <3>1, <3>3 DEF Turn, AnswerOfTurn, EndsWithAnswer, IsAnswer, At
    <3> QED
      BY <3>2, <3>3
  <2> QED
    BY <1>0, <2>2, <2>3, <2>4, OpensInTree
<1> QED
  BY <1>0, <1>2, <1>3, <1>4, <1>5, PlainSteps

\* A command, a message of the user, or a restart.
LEMMA TreeOfUser ==
  ASSUME Sound, Compaction = FALSE,
         \/ \E l \in Loops : UserInput(l)
         \/ Steer \/ New \/ Clear \/ Fork \/ Switch \/ CompactCommand \/ Crash \/ UNCHANGED vars
  PROVE  Tree!Next \/ UNCHANGED Tree!vars
<1>1. CASE (\E l \in Loops : UserInput(l)) \/ Steer \/ Switch \/ Crash \/ UNCHANGED vars
  <2>1. UNCHANGED <<node, nextNode, branch>>
    BY <1>1 DEF UserInput, Steer, Switch, SwitchBranch, Crash, Reopen, vars, dagVars
  <2> QED
    BY <2>1 DEF Tree!vars, Branches
<1>2. CASE New
  <2>1. HeadOf(Main) \in Ids
    BY SoundStore, DagAssumption DEF HeadOf, Rows, None
  <2>2. PICK f : f = HeadOf(Main)
    OBVIOUS
  <2>3. /\ InsertBranch(None, f) /\ UNCHANGED <<node, nextNode, alias>>
        /\ current' = [current EXCEPT ![Main] = Len(branch) + 1]
    BY <1>2, <2>2 DEF New, NewBranch
  <2>4. OpensRow([head |-> None, forked |-> f])
    BY <2>1, <2>2, <2>3, InsertEffect, SoundStore, DagAssumption
  <2> QED
    BY <2>3, <2>4, OpensInTree
<1>3. CASE Fork
  <2>1. PICK n \in DOMAIN node : Branch(Main, n)
    BY <1>3 DEF Fork
  <2>2. /\ InsertBranch(n, n) /\ UNCHANGED <<node, nextNode, alias>> /\ n \in Ids
        /\ current' = [current EXCEPT ![Main] = Len(branch) + 1]
    BY <2>1, SoundStore DEF Branch
  <2>3. OpensRow([head |-> n, forked |-> n])
    BY <2>2, InsertEffect, DagAssumption
  <2> QED
    BY <2>2, <2>3, OpensInTree
<1>4. ~CompactCommand
  BY DEF CompactCommand, ReadTail
<1> QED
  BY <1>1, <1>2, <1>3, <1>4, ClearsInTree

LEMMA TreeOfNext ==
  ASSUME Ordinary, PlainInv, Grounded, [Next]_vars
  PROVE  [DisturbedStep \/ Tree!Next]_(Tree!vars)
<1>1. ASSUME NEW l \in Loops, Step(l) PROVE DisturbedStep \/ Tree!Next \/ UNCHANGED Tree!vars
  BY <1>1, TreeOfRun DEF DisturbedStep
<1>2. CASE ~ \E l \in Loops : Step(l)
  BY <1>2, TreeOfUser DEF Next, PlainInv, Ordinary, Plain
<1> QED
  BY <1>1, <1>2

LEMMA TreeOfInit == Init => Tree!Init
<1> SUFFICES ASSUME Init PROVE Tree!Init
  OBVIOUS
<1>1. /\ node = [n \in {} |-> None] /\ nextNode = 1
      /\ branch = <<[head |-> None, forked |-> None]>>
  BY DEF Init, DagInit
<1>2. Len(branch) = 1 /\ branch[1].head = None /\ Branches = 1..1
  BY <1>1 DEF Branches
<1>3. [n \in DOMAIN node |-> node[n].parent] = [n \in {} |-> Tree!None]
  BY <1>1
<1>4. [b \in Branches |-> branch[b].head] = <<Tree!None>>
  BY <1>2 DEF None, Tree!None
<1> QED
  BY <1>1, <1>3, <1>4 DEF Tree!Init

\* The store, as the loops, the user and restarts change it, is a message tree:
\* initial states map to initial states, and every step to a step of MessageTree or
\* to a stutter, but for the steps of a run that a command has disturbed.
THEOREM Implements == ASSUME Ordinary PROVE Spec => TreeSpec
<1>1. PlainInv /\ Grounded /\ [Next]_vars => [DisturbedStep \/ Tree!Next]_(Tree!vars)
  BY TreeOfNext
<1> QED
  BY <1>1, TreeOfInit, GroundedInvariance, PTL DEF Spec, TreeSpec

\* As long as no command disturbs a run the store is a message tree.
LEMMA ImplementsUndisturbed == ASSUME Ordinary PROVE Spec /\ [](disturbed = {}) => Tree!Spec
<1>1. PlainInv /\ Grounded /\ [Next]_vars /\ disturbed = {} => [Tree!Next]_(Tree!vars)
  <2> SUFFICES ASSUME PlainInv, Grounded, [Next]_vars, disturbed = {} PROVE [Tree!Next]_(Tree!vars)
    OBVIOUS
  <2>1. ~DisturbedStep
    <3>1. ASSUME NEW l \in Loops \ Calm, Step(l) PROVE FALSE
      <4>1. l \notin Screens
        BY <3>1, PlainSteps DEF Ordinary
      <4> QED
        BY <4>1 DEF Calm
    <3> QED
      BY <3>1 DEF DisturbedStep
  <2> QED
    BY <2>1, TreeOfNext
<1> QED
  BY <1>1, TreeOfInit, GroundedInvariance, PTL DEF Spec, Tree!Spec

\* Every conversation can be read back to its root, as long as no command disturbs
\* a run.
THEOREM ChainsComplete ==
  ASSUME Ordinary PROVE Spec /\ [](disturbed = {}) => []ParentsExist
  BY ImplementsUndisturbed, ParentsKept, PTL

\* Every branch can be opened, as long as no command disturbs a run.
THEOREM NoDanglingHead ==
  ASSUME Ordinary PROVE Spec /\ [](disturbed = {}) => []TipsExist
  BY ImplementsUndisturbed, TipsKept, PTL

----------------------------------------------------------------------------
\* Conversations, read back.

\* Row u may go away and has no reply; the others stay.
Loses(u) ==
  /\ \A m \in DOMAIN node : node[m].parent # u
  /\ \A n \in DOMAIN node : n = u \/ n \in DOMAIN node'

LEMMA ChainsKept ==
  ASSUME Sound, Sound', RowsSame, NEW u, Loses(u)
  PROVE  \A n \in DOMAIN node \cap DOMAIN node' : Ancestors(n)' = Ancestors(n)
<1> DEFINE A == (Ids \ {u}) \cup (DOMAIN node \cap DOMAIN node')
<1>0. PICK t, v : t = node /\ v = node'
  OBVIOUS
<1>1. Older(t) /\ Older(v) /\ DOMAIN t \subseteq Ids /\ Ids \subseteq Nat
  BY <1>0, SoundStore DEF Sound
<1>2. \A m \in DOMAIN t : m \in DOMAIN v => v[m] = t[m]
  BY <1>0, <1>1 DEF RowsSame
<1>3. \A m \in Ids \ {u} : m \in DOMAIN t <=> m \in DOMAIN v
  BY <1>0 DEF RowsSame, Loses
<1>4. \A m \in DOMAIN t : t[m].parent \in Ids \ {u}
  BY <1>0, SoundStore DEF Loses
<1>5. \A m \in A : ChainOf(t, m) = ChainOf(v, m)
  <2>1. A \subseteq Nat
    BY <1>0, <1>1
  <2>2. \A m \in A : m \in DOMAIN t <=> m \in DOMAIN v
    BY <1>0, <1>3
  <2>3. \A m \in A : m \in DOMAIN t => t[m].parent = v[m].parent /\ t[m].parent \in A
    BY <1>2, <1>4, <2>2
  <2> HIDE DEF A
  <2> QED
    BY <1>1, <2>1, <2>2, <2>3, ChainSame
<1> QED
  BY <1>0, <1>5, AncestorsChain

\* What a message was said in reply to never changes: the chain GetAncestors reads
\* for it is the same for as long as the message is in the store.
HistoryFixed == \A n \in DOMAIN node \cap DOMAIN node' : Ancestors(n)' = Ancestors(n)

LEMMA HistoryOfRun ==
  ASSUME Ordinary, PlainInv, Sound', RowsSame, Grounded, NEW l \in Calm, Step(l)
  PROVE  HistoryFixed
<1>0. l \in Loops /\ Sound /\ Plain
  BY CalmLoops DEF PlainInv, Ordinary
<1>1. CASE \A n \in DOMAIN node : n \in DOMAIN node'
  <2>1. Loses(nextNode)
    BY <1>0, <1>1, SoundStore DEF Loses
  <2> QED
    BY <1>0, <2>1, ChainsKept DEF HistoryFixed
<1>2. CASE SaysNode(l)
  <2>1. PICK p, msg : Says(l, p, msg) /\ AddNode(HandleOf[l], p, msg)
    BY <1>2 DEF SaysNode
  <2>2. Adds(current[HandleOf[l]], p, msg)
    BY <1>0, <2>1, SaysEffect
  <2> QED
    BY <1>1, <2>2 DEF Adds
<1>3. CASE TakesUserBack(l)
  <2>1. PICK u : u = run[l].userNode
    OBVIOUS
  <2>2. FirstTurn(l, run[l])
    BY <1>3, CalmLoops DEF TakesUserBack, FirstTurn, At
  <2>3. \A n \in DOMAIN node : node[n].parent # u
    BY <2>1, <2>2 DEF Grounded, Untaken
  <2>4. HandleOf[l] \in Handles /\ current[HandleOf[l]] \in Branches
    BY <1>0, Kinds, ActiveBound, BoundBranch
  <2>5. UNCHANGED dagVars \/ Removes(current[HandleOf[l]], u)
    BY <1>0, <1>3, <2>1, <2>4, RemoveEffect DEF TakesUserBack
  <2>6. \A n \in DOMAIN node \ {u} : n \in DOMAIN node'
    BY <2>5 DEF Removes, dagVars
  <2>7. Loses(u)
    BY <2>3, <2>6 DEF Loses
  <2> QED
    BY <1>0, <2>7, ChainsKept DEF HistoryFixed
<1>4. CASE UNCHANGED dagVars \/ StoreAlias(l) \/ \E s \in Loops : Spawn(l, s)
  <2>1. node' = node
    BY <1>4 DEF dagVars, StoreAlias, SetAlias, Spawn, ForkFrom
  <2> QED
    BY <1>1, <2>1
<1> QED
  BY <1>0, <1>2, <1>3, <1>4, PlainSteps

\* No step rewrites a chain (dag.go:222-258), but that of a run a command has
\* disturbed.
THEOREM HistoryKept == ASSUME Ordinary PROVE Spec => [][DisturbedStep \/ HistoryFixed]_vars
<1>1. PlainInv /\ PlainInv' /\ Grounded /\ [Next]_vars => [DisturbedStep \/ HistoryFixed]_vars
  <2> SUFFICES ASSUME PlainInv, PlainInv', Grounded, [Next]_vars, ~DisturbedStep
               PROVE  HistoryFixed
    OBVIOUS
  <2>1. Sound /\ Sound' /\ RowsSame
    BY RowsKept DEF PlainInv
  <2>2. ASSUME NEW l \in Loops, Step(l) PROVE HistoryFixed
    BY <2>1, <2>2, HistoryOfRun DEF DisturbedStep
  <2>3. CASE ~ \E l \in Loops : Step(l)
    <3>1. node' = node
      BY <2>3 DEF Next, UserInput, Steer, New, Clear, Fork, Switch, CompactCommand, ReadTail, Crash,
         NewBranch, ResetHead, Branch, SwitchBranch, Reopen, vars, dagVars
    <3>2. Loses(nextNode)
      BY <2>1, <3>1, SoundStore DEF Loses
    <3> QED
      BY <2>1, <3>2, ChainsKept DEF HistoryFixed
  <2> QED
    BY <2>2, <2>3
<1> QED
  BY <1>1, GroundedInvariance, PTL DEF Spec

----------------------------------------------------------------------------
\* With compaction: whatever the loops and the user are at work on at the same time,
\* nobody takes back a message that somebody else stands on.

\* The user forks no message that a sub-agent may take back.
ForksOwn == "fork" \notin Commands \/ Loops \subseteq MainLoops \cup Screens

\* Nobody stands on u, which l may take back, or is going to write under it.
LeavesAlone(l, u) ==
  /\ u # None
  /\ \A n \in DOMAIN node : node[n].parent # u
  /\ run[l].pc \in {"summarise", "summary", "copy"} => run[l].copyAt # u
  /\ \A h \in Handles \ {HandleOf[l]} : current[h] # None => HeadOf(h) # u
  /\ \A k \in Loops \ {l} : ~Holds(run[k], u)

ParentsThere == \A n \in DOMAIN node : node[n].parent \in DOMAIN node \cup {None}

HeadsThere == \A h \in Handles : current[h] # None => HeadOf(h) \in DOMAIN node \cup {None}

HeldThere == \A l \in Loops : \A p : Holds(run[l], p) => p \in DOMAIN node \cup {None}

Anchored ==
  /\ ParentsThere /\ HeadsThere /\ HeldThere
  /\ \A l \in Screens : run[l].at = None
  /\ \A l \in Loops : FirstTurn(l, run[l]) => LeavesAlone(l, run[l].userNode)

\* Loop l may write under p: p exists, and no other run takes it back.
SafeFor(l, p) ==
  /\ p \in DOMAIN node \cup {None}
  /\ \A k \in Loops \ {l} : FirstTurn(k, run[k]) => p # run[k].userNode

\* A loop may write under what it holds, and a run under the head of its branch.
LEMMA HeldSafe ==
  ASSUME Anchored, NEW l \in Loops, NEW p, Holds(run[l], p) PROVE SafeFor(l, p)
  BY DEF Anchored, HeldThere, LeavesAlone, SafeFor

LEMMA HeadSafe ==
  ASSUME OwnHandles, Sound, Anchored, NEW l \in Loops \ Screens, Active(l)
  PROVE  SafeFor(l, HeadNode(l))
<1>1. HandleOf[l] \in Handles /\ current[HandleOf[l]] # None
  <2>1. l \in Loops
    OBVIOUS
  <2> QED
    BY <2>1, ActiveBound, BoundBranch DEF Bound
<1>2. HeadNode(l) \in DOMAIN node \cup {None}
  BY <1>1 DEF Anchored, HeadsThere, HeadNode
<1>3. ASSUME NEW k \in Loops \ {l}, FirstTurn(k, run[k]) PROVE HeadNode(l) # run[k].userNode
  <2>1. HandleOf[l] # HandleOf[k]
    BY <1>3 DEF OwnHandles, FirstTurn
  <2> QED
    BY <1>1, <1>3, <2>1 DEF Anchored, LeavesAlone, HeadNode
<1> QED
  BY <1>2, <1>3 DEF SafeFor

\* The handle of l ends up where it may write; the others stay.
HeadsFrame(l) ==
  \A h \in Handles : current'[h] # None =>
    \/ current[h] # None /\ HeadOf(h)' = HeadOf(h)
    \/ h = HandleOf[l] /\ HeadOf(h)' = nextNode /\ nextNode \in DOMAIN node'
    \/ h = HandleOf[l] /\ SafeFor(l, HeadOf(h)')

\* A step of l that takes nothing back.
LEMMA AnchoredFrame ==
  ASSUME Sound, Anchored, NEW l \in Loops, HeadsFrame(l),
         \A n \in DOMAIN node : n \in DOMAIN node' /\ node'[n] = node[n],
         \A n \in DOMAIN node' \ DOMAIN node :
           /\ n = nextNode /\ SafeFor(l, node'[n].parent)
           /\ FirstTurn(l, run'[l]) => node'[n].parent # run'[l].userNode,
         \A k \in Loops \ {l} : run'[k] = run[k],
         \A p : Holds(run'[l], p) =>
           Holds(run[l], p) \/ SafeFor(l, p) \/ (p = nextNode /\ p \in DOMAIN node'),
         l \in Screens => run'[l].at = None,
         FirstTurn(l, run'[l]) =>
           /\ \/ FirstTurn(l, run[l]) /\ run'[l].userNode = run[l].userNode
              \/ run'[l].userNode = nextNode
           /\ run'[l].pc \in {"summarise", "summary", "copy"} => run'[l].copyAt # run'[l].userNode
  PROVE  Anchored'
<1>1. nextNode \notin DOMAIN node \cup {None} /\ nextNode \notin Ids /\ nextNode # None
  BY SoundStore DEF None
<1>2. \A k \in Loops : run[k].userNode \in Ids
  BY SoundLocals DEF Locals
<1>3. ParentsThere'
  BY DEF Anchored, ParentsThere, SafeFor
<1>4. HeadsThere'
  BY DEF Anchored, HeadsThere, HeadsFrame, SafeFor
<1>5. HeldThere'
  <2>1. ASSUME NEW k \in Loops, NEW p, Holds(run'[k], p) PROVE p \in DOMAIN node' \cup {None}
    <3>1. \/ Holds(run[k], p)
          \/ SafeFor(l, p)
          \/ p \in DOMAIN node'
      BY <2>1
    <3> QED
      BY <3>1 DEF Anchored, HeldThere, SafeFor
  <2> QED
    BY <2>1 DEF HeldThere
<1>6. ASSUME NEW k \in Loops \ {l}, FirstTurn(k, run'[k]) PROVE LeavesAlone(k, run[k].userNode)'
  <2>1. PICK u : u = run[k].userNode
    OBVIOUS
  <2>2. FirstTurn(k, run[k]) /\ run'[k] = run[k] /\ LeavesAlone(k, u) /\ u \in Ids /\ u # nextNode
    BY <1>1, <1>2, <1>6, <2>1 DEF Anchored
  <2>3. \A p : SafeFor(l, p) => p # u
    BY <2>1, <2>2 DEF SafeFor
  <2>4. \A n \in DOMAIN node' : node'[n].parent # u
    BY <2>2, <2>3 DEF LeavesAlone
  <2>5. \A j \in Loops \ {k} : ~Holds(run'[j], u)
    BY <2>2, <2>3 DEF LeavesAlone
  <2>6. \A h \in Handles \ {HandleOf[k]} : current'[h] # None => HeadOf(h)' # u
    BY <2>2, <2>3 DEF LeavesAlone, HeadsFrame
  <2>7. u # None /\ (run'[k].pc \in {"summarise", "summary", "copy"} => run'[k].copyAt # u)
    BY <2>2 DEF LeavesAlone
  <2>8. LeavesAlone(k, u)'
    BY <2>4, <2>5, <2>6, <2>7 DEF LeavesAlone
  <2>9. u = run'[k].userNode
    BY <2>1, <2>2
  <2> QED
    BY <2>8, <2>9 DEF LeavesAlone
<1>7. ASSUME FirstTurn(l, run'[l]) PROVE LeavesAlone(l, run[l].userNode)'
  <2>1. PICK u : u = run'[l].userNode
    OBVIOUS
  <2>2. \/ FirstTurn(l, run[l]) /\ u = run[l].userNode
        \/ u = nextNode
    BY <1>7, <2>1
  <2>3. u # None /\ \A n \in DOMAIN node : node[n].parent # u
    BY <1>1, <2>2 DEF Anchored, LeavesAlone, ParentsThere
  <2>4. \A n \in DOMAIN node' : node'[n].parent # u
    BY <1>7, <2>1, <2>3
  <2>5. \A k \in Loops \ {l} : ~Holds(run'[k], u)
    BY <1>1, <2>2 DEF Anchored, LeavesAlone, HeldThere
  <2>6. \A h \in Handles \ {HandleOf[l]} : current'[h] # None => HeadOf(h)' # u
    BY <1>1, <2>2 DEF Anchored, LeavesAlone, HeadsThere, HeadsFrame
  <2>7. run'[l].pc \in {"summarise", "summary", "copy"} => run'[l].copyAt # u
    BY <1>7, <2>1
  <2>8. LeavesAlone(l, u)'
    BY <2>3, <2>4, <2>5, <2>6, <2>7 DEF LeavesAlone
  <2> QED
    BY <2>1, <2>8 DEF LeavesAlone
<1>8. \A k \in Loops : FirstTurn(k, run'[k]) => LeavesAlone(k, run[k].userNode)'
  BY <1>6, <1>7
<1>9. \A k \in Screens : run'[k].at = None
  BY LoopAssumption DEF Anchored
<1> QED
  BY <1>3, <1>4, <1>5, <1>8, <1>9 DEF Anchored, FirstTurn

\* The user interface does nothing but compact.
LEMMA ScreenSteps ==
  ASSUME Sound, Compacting, Anchored, NEW l \in Screens, Step(l)
  PROVE  run'[l].at = None /\ run[l].pc \in {"summarise", "summary", "copy"}
<1>0. run \in [Loops -> Locals] /\ l \in Loops /\ run[l] \in Locals /\ Idle.at = None
  BY SoundLocals, LoopAssumption DEF Idle
<1>1. run[l].pc \in {"summarise", "summary", "copy"} /\ run[l].at = None
  BY <1>0, Kinds DEF Compacting, Active, At, Anchored
<1>2. OpenCompacted(l) \/ AddSummary(l) \/ CopyTail(l) \/ EndCompaction(l)
  BY <1>1 DEF Step, ReadHead, AddUser, BeginTurn, SkipCompaction, Compact, StartEagerTool, CallFails,
         CallAnswers, CancelRetry, Fail, Answer, PickAlias, StoreAlias, StoreThinking, Continue,
         Answered, HookResumes, Stop, Drain, RunTool, Spawn, ToolRuns, InterruptTools, DrainCut,
         ToolsDone, AfterTools, Finish, At
<1>3. run'[l].at = None
  <2>1. CASE OpenCompacted(l) \/ AddSummary(l)
    BY <1>0, <1>1, <2>1 DEF OpenCompacted, AddSummary, Locals
  <2>2. CASE CopyTail(l) \/ EndCompaction(l)
    BY <1>0, <1>1, <2>2 DEF CopyTail, EndCompaction, Locals
  <2> QED
    BY <1>2, <2>1, <2>2
<1> QED
  BY <1>1, <1>3

\* The handles that are not that of l.
LEMMA OthersStay ==
  ASSUME Sound, HandlesApart, NEW l \in Loops, Bound(l), NEW h \in Handles, h # HandleOf[l],
         current'[h] = current[h], current'[h] # None,
         \A b \in Branches \ {current[HandleOf[l]]} : branch'[b] = branch[b]
  PROVE  current[h] # None /\ HeadOf(h)' = HeadOf(h)
<1>1. HandleOf[l] \in Handles /\ current[h] \in Branches
  BY SoundStore, LoopAssumption DEF None
<1>2. current[h] # current[HandleOf[l]]
  BY <1>1 DEF HandlesApart, Bound
<1> QED
  BY <1>1, <1>2 DEF HeadOf

LEMMA AnchoredOwn ==
  ASSUME OwnHandles, Sound, Compacting, HandlesApart, Anchored, NEW l \in Loops, Step(l),
         ~ \E s \in Loops : Spawn(l, s), ~Compact(l), ~TakesUserBack(l)
  PROVE  Anchored'
<1> DEFINE c == current[HandleOf[l]]
<1>0. /\ Active(l) /\ Bound(l) /\ HandleOf[l] \in Handles /\ c \in Branches /\ HeadNode(l) \in Ids
      /\ LocalsFrame(l)
  BY Kinds, ActiveBound, BoundBranch, LocalsStep
<1> HIDE DEF c
<1>1. ASSUME l \notin Screens PROVE SafeFor(l, HeadNode(l))
  BY <1>0, <1>1, HeadSafe
<1>2. run[l].pc \in {"begin", "turn"} => l \notin Screens
  BY DEF Compacting
<1>3. FirstTurn(l, run[l]) => LeavesAlone(l, run[l].userNode)
  BY DEF Anchored
<1>4. run[l].userNode \in Ids /\ nextNode \notin Ids
  BY SoundLocals, SoundStore DEF Locals
<1>5. \A p : Holds(run'[l], p) =>
        Holds(run[l], p) \/ SafeFor(l, p) \/ (p = nextNode /\ p \in DOMAIN node')
  BY <1>0, <1>1, <1>2 DEF LocalsFrame
<1>6. l \in Screens => run'[l].at = None
  BY ScreenSteps
<1>7. FirstTurn(l, run'[l]) =>
        /\ \/ FirstTurn(l, run[l]) /\ run'[l].userNode = run[l].userNode
           \/ run'[l].userNode = nextNode
        /\ run'[l].pc \in {"summarise", "summary", "copy"} => run'[l].copyAt # run'[l].userNode
  BY <1>0, <1>3, <1>4 DEF LocalsFrame, LeavesAlone
<1>8. ASSUME Own(l), node' = node, HeadsFrame(l) PROVE Anchored'
  <2>1. \A k \in Loops \ {l} : run'[k] = run[k]
    BY <1>8 DEF Own
  <2> QED
    BY <1>5, <1>6, <1>7, <1>8, <2>1, AnchoredFrame
<1>9. CASE Own(l) /\ (UNCHANGED dagVars \/ StoreAlias(l))
  <2>1. node' = node /\ current' = current /\ branch' = branch
    BY <1>9 DEF dagVars, StoreAlias, SetAlias
  <2>2. HeadsFrame(l)
    BY <2>1 DEF HeadsFrame, HeadOf
  <2> QED
    BY <1>8, <1>9, <2>1, <2>2
<1>10. CASE Own(l) /\ SaysNode(l)
  <2>1. PICK p, msg : Says(l, p, msg) /\ AddNode(HandleOf[l], p, msg)
    BY <1>10 DEF SaysNode
  <2>2. Adds(c, p, msg) /\ p \in Ids
    BY <2>1, SaysEffect, SaysTyped DEF c
  <2>3. SafeFor(l, p)
    <3>1. CASE Holds(run[l], p)
      BY <3>1, HeldSafe
    <3>2. CASE p = HeadNode(l) /\ run[l].pc \notin {"summary", "copy"}
      <4>1. l \notin Screens
        BY <2>1, <3>2 DEF Compacting, Says, At
      <4> QED
        BY <1>1, <3>2, <4>1
    <3> QED
      BY <2>1, <3>1, <3>2, SaysUnder
  <2>4. FirstTurn(l, run'[l]) => p # run'[l].userNode
    <3>1. CASE ~FirstTurn(l, run[l])
      <4>1. FirstTurn(l, run'[l]) => run'[l].userNode = nextNode
        BY <1>0, <3>1 DEF LocalsFrame
      <4> QED
        BY <1>4, <2>2, <4>1
    <3>2. CASE FirstTurn(l, run[l])
      <4>1. run[l].pc # "addUser"
        BY <3>2 DEF FirstTurn
      <4>2. FirstTurn(l, run'[l]) =>
              run'[l].userNode = run[l].userNode /\ run[l].pc \notin {"answer", "failed"}
        BY <1>0, <4>1 DEF LocalsFrame
      <4>3. run[l].pc \notin {"answer", "failed"} =>
              run[l].pc \in {"summary", "copy"} /\ p = run[l].copyAt
        BY <2>1, <3>2 DEF Says, FirstTurn, At
      <4> QED
        BY <1>3, <3>2, <4>2, <4>3 DEF LeavesAlone
    <3> QED
      BY <3>1, <3>2
  <2>5. HeadsFrame(l)
    <3>1. ASSUME NEW h \in Handles, h # HandleOf[l], current'[h] # None
          PROVE  current[h] # None /\ HeadOf(h)' = HeadOf(h)
      <4>1. current' = current /\ \A b \in Branches \ {c} : branch'[b] = branch[b]
        BY <2>2 DEF Adds
      <4> QED
        BY <1>0, <3>1, <4>1, OthersStay DEF c
    <3>2. HeadOf(HandleOf[l])' = nextNode /\ nextNode \in DOMAIN node'
      BY <2>2 DEF Adds, HeadOf, c
    <3> QED
      BY <3>1, <3>2 DEF HeadsFrame
  <2>6. /\ \A n \in DOMAIN node : n \in DOMAIN node' /\ node'[n] = node[n]
        /\ \A n \in DOMAIN node' \ DOMAIN node : n = nextNode /\ node'[n].parent = p
        /\ \A k \in Loops \ {l} : run'[k] = run[k]
    BY <1>10, <2>2 DEF Adds, Own
  <2>7. \A n \in DOMAIN node' \ DOMAIN node :
          /\ n = nextNode /\ SafeFor(l, node'[n].parent)
          /\ FirstTurn(l, run'[l]) => node'[n].parent # run'[l].userNode
    BY <2>3, <2>4, <2>6
  <2> QED
    BY <1>5, <1>6, <1>7, <2>5, <2>6, <2>7, AnchoredFrame
<1>11. CASE OpenCompacted(l)
  <2>1. PICK p : p = run[l].copyAt
    OBVIOUS
  <2>2. /\ OpensRow([head |-> p, forked |-> p]) /\ Own(l)
        /\ current' = [current EXCEPT ![HandleOf[l]] = Len(branch) + 1]
    BY <1>11, <2>1, OpenEffect
  <2>3. SafeFor(l, p)
    BY <1>11, <2>1, HeldSafe DEF OpenCompacted, At, Holds
  <2>4. HeadsFrame(l)
    <3>1. ASSUME NEW h \in Handles, h # HandleOf[l], current'[h] # None
          PROVE  current[h] # None /\ HeadOf(h)' = HeadOf(h)
      BY <1>0, <2>2, <3>1, OthersStay, SoundStore DEF OpensRow
    <3>2. HeadOf(HandleOf[l])' = p
      BY <1>0, <2>2, SoundStore DEF OpensRow, HeadOf
    <3> QED
      BY <2>3, <3>1, <3>2 DEF HeadsFrame
  <2>5. node' = node
    BY <2>2 DEF OpensRow
  <2> QED
    BY <1>8, <2>2, <2>4, <2>5
<1> QED
  BY <1>9, <1>10, <1>11, Kinds

\* A run whose first call fails.
LEMMA AnchoredBack ==
  ASSUME OwnHandles, Sound, Compacting, HandlesApart, Anchored, NEW l \in Loops, Step(l),
         TakesUserBack(l)
  PROVE  Anchored'
<1> DEFINE c == current[HandleOf[l]]
<1>0. /\ Active(l) /\ Bound(l) /\ HandleOf[l] \in Handles /\ c \in Branches
      /\ run \in [Loops -> Locals] /\ Idle.pc = "idle" /\ Idle.at = None
  BY Kinds, ActiveBound, BoundBranch, SoundLocals DEF Idle
<1> HIDE DEF c
<1>1. PICK u : u = run[l].userNode
  OBVIOUS
<1>2. FirstTurn(l, run[l]) /\ l \notin Screens /\ run[l].pc = "failed"
  BY DEF TakesUserBack, FirstTurn, At, Compacting
<1>3. LeavesAlone(l, u)
  BY <1>1, <1>2 DEF Anchored
<1>4. run' = [run EXCEPT ![l] = Idle]
  BY <1>2 DEF Step, Fail, ReadHead, AddUser, BeginTurn, SkipCompaction, Compact, OpenCompacted,
         AddSummary, CopyTail, EndCompaction, StartEagerTool, CallFails, CallAnswers, CancelRetry,
         Answer, PickAlias, StoreAlias, StoreThinking, Continue, Answered, HookResumes, Stop, Drain,
         RunTool, Spawn, ToolRuns, InterruptTools, DrainCut, ToolsDone, AfterTools, Finish, At
<1>5. /\ \A k \in Loops \ {l} : run'[k] = run[k]
      /\ run'[l].pc = "idle"
      /\ \A p : ~Holds(run'[l], p)
      /\ ~FirstTurn(l, run'[l])
  <2>1. run'[l] = Idle /\ \A k \in Loops \ {l} : run'[k] = run[k]
    BY <1>0, <1>4
  <2> QED
    BY <1>0, <2>1 DEF Holds, FirstTurn
<1>6. UNCHANGED dagVars \/ Removes(c, u)
  BY <1>0, <1>1, RemoveEffect DEF TakesUserBack, c
<1>7. CASE UNCHANGED dagVars
  <2>1. HeadsFrame(l)
    BY <1>7 DEF HeadsFrame, HeadOf, dagVars
  <2>2. node' = node /\ (l \in Screens => run'[l].at = None)
    BY <1>2, <1>7 DEF dagVars
  <2> QED
    BY <1>5, <2>1, <2>2, AnchoredFrame
<1>8. CASE Removes(c, u)
  <2>1. /\ current' = current /\ u \in DOMAIN node /\ DOMAIN node' = DOMAIN node \ {u}
        /\ \A n \in DOMAIN node' : node'[n] = node[n]
        /\ branch'[c].head = node[u].parent
        /\ \A b \in Branches \ {c} : branch'[b] = branch[b]
    BY <1>8 DEF Removes
  <2>2. PICK q : q = node[u].parent
    OBVIOUS
  <2>3. q \in (DOMAIN node \ {u}) \cup {None}
    BY <1>3, <2>1, <2>2 DEF Anchored, ParentsThere, LeavesAlone
  <2>4. HeadOf(HandleOf[l])' = q
    BY <2>1, <2>2 DEF HeadOf, c
  <2>5. ASSUME NEW h \in Handles, h # HandleOf[l], current'[h] # None
        PROVE  current[h] # None /\ HeadOf(h)' = HeadOf(h) /\ HeadOf(h) # u
    <3>1. current[h] # None /\ HeadOf(h)' = HeadOf(h)
      BY <1>0, <2>1, <2>5, OthersStay DEF c
    <3> QED
      BY <1>3, <2>5, <3>1 DEF LeavesAlone
  <2>6. ParentsThere'
    BY <1>3, <2>1 DEF Anchored, ParentsThere, LeavesAlone
  <2>7. HeadsThere'
    BY <2>1, <2>3, <2>4, <2>5 DEF Anchored, HeadsThere
  <2>8. HeldThere'
    BY <1>3, <1>5, <2>1 DEF Anchored, HeldThere, LeavesAlone
  <2>9. \A k \in Screens : run'[k].at = None
    BY <1>2, <1>5, LoopAssumption DEF Anchored
  <2>10. ASSUME NEW k \in Loops, FirstTurn(k, run'[k]) PROVE LeavesAlone(k, run[k].userNode)'
    <3>1. k # l /\ run'[k] = run[k]
      BY <1>5, <2>10
    <3>2. PICK v : v = run[k].userNode
      OBVIOUS
    <3>3. LeavesAlone(k, v)
      BY <2>10, <3>1, <3>2 DEF Anchored
    <3>4. \A n \in DOMAIN node' : node'[n].parent # v
      BY <2>1, <3>3 DEF LeavesAlone
    <3>5. q # v
      BY <2>1, <2>2, <3>3 DEF LeavesAlone
    <3>6. \A h \in Handles \ {HandleOf[k]} : current'[h] # None => HeadOf(h)' # v
      BY <2>4, <2>5, <3>3, <3>5 DEF LeavesAlone
    <3>7. \A j \in Loops \ {k} : ~Holds(run'[j], v)
      BY <1>5, <3>3 DEF LeavesAlone
    <3>8. v # None /\ (run'[k].pc \in {"summarise", "summary", "copy"} => run'[k].copyAt # v)
      BY <3>1, <3>3 DEF LeavesAlone
    <3>9. LeavesAlone(k, v)'
      BY <3>4, <3>6, <3>7, <3>8 DEF LeavesAlone
    <3>10. v = run'[k].userNode
      BY <3>1, <3>2
    <3> QED
      BY <3>9, <3>10 DEF LeavesAlone
  <2> QED
    BY <2>6, <2>7, <2>8, <2>9, <2>10 DEF Anchored, FirstTurn
<1> QED
  BY <1>6, <1>7, <1>8

\* The beginning of a compaction: the root of the chain has a reply, so that nobody
\* takes it back.
LEMMA AnchoredRead ==
  ASSUME Sound, Anchored, NEW l \in Loops, Bound(l), ReadTail(l),
         l \in Screens \/ At(l, "prepare")
  PROVE  Anchored'
<1> DEFINE chain == Ancestors(HeadNode(l))
<1>1. /\ HeadNode(l) \in DOMAIN node
      /\ chain \in Seq(Nat) /\ Len(chain) > KeepLastN + 1
      /\ chain[1] \in DOMAIN node
      /\ UNCHANGED dagVars /\ Own(l)
      /\ run'[l] = [run[l] EXCEPT !.pc = "summarise", !.copies = CopiesOf(chain, TailStart(chain)),
                                  !.copyAt = chain[1]]
  BY ReadEffect
<1>2. chain[2] \in DOMAIN node /\ node[chain[2]].parent = chain[1]
  <2>1. HeadNode(l) \in Nat
    BY <1>1, SoundStore
  <2>2. /\ \A i \in 1..Len(chain) : chain[i] \in DOMAIN node
        /\ \A i \in 2..Len(chain) : node[chain[i]].parent = chain[i - 1]
    BY <2>1, SoundChain
  <2> HIDE DEF chain
  <2>3. 2 \in 1..Len(chain) /\ 2 \in 2..Len(chain)
    BY <1>1, LoopAssumption
  <2> QED
    BY <2>2, <2>3
<1>3. PICK root : root = chain[1]
  OBVIOUS
<1>4. /\ run'[l].pc = "summarise" /\ run'[l].copyAt = root /\ run'[l].at = run[l].at
      /\ run'[l].userNode = run[l].userNode /\ run'[l].turn = run[l].turn
  BY <1>1, <1>3, SoundLocals DEF Locals
<1> HIDE DEF chain
<1>5. \A k \in Loops : FirstTurn(k, run[k]) => root # run[k].userNode
  BY <1>2, <1>3 DEF Anchored, LeavesAlone
<1>6. SafeFor(l, root)
  BY <1>1, <1>3, <1>5 DEF SafeFor
<1>7. SafeFor(l, run[l].at)
  <2>1. CASE l \in Screens
    BY <2>1 DEF Anchored, SafeFor, LeavesAlone
  <2>2. CASE At(l, "prepare")
    BY <2>2, HeldSafe DEF Holds, At
  <2> QED
    BY <2>1, <2>2
<1>8. \A p : Holds(run'[l], p) => SafeFor(l, p)
  BY <1>4, <1>6, <1>7 DEF Holds
<1>9. FirstTurn(l, run'[l]) => FirstTurn(l, run[l])
  BY <1>4 DEF FirstTurn, At
<1>10. HeadsFrame(l) /\ node' = node
  BY <1>1 DEF HeadsFrame, HeadOf, dagVars
<1>11. /\ \A k \in Loops \ {l} : run'[k] = run[k]
       /\ l \in Screens => run'[l].at = None
  BY <1>1, <1>4 DEF Own, Anchored
<1> QED
  BY <1>4, <1>5, <1>8, <1>9, <1>10, <1>11, AnchoredFrame

\* A sub-agent begins at the head of its parent, which has an answer stored then.
LEMMA AnchoredSpawn ==
  ASSUME SpawnsLate, OwnHandles, Sound, HandlesApart, Anchored, NEW l \in Loops, NEW s \in Loops,
         Spawn(l, s)
  PROVE  Anchored'
<1>0. At(l, "tools") /\ l # s /\ l \in MainLoops /\ HandleOf[s] # Main /\ current[HandleOf[s]] = None
  BY SpawnsFromTools DEF Spawn
<1>1. Active(l) /\ l \in Loops \ Screens /\ s \notin Screens /\ HandleOf[s] \in Handles
  BY <1>0, LoopAssumption DEF Active, At, MainLoops
<1>2. SafeFor(l, HeadNode(l)) /\ HeadNode(l) \in Ids
  BY <1>1, HeadSafe, ActiveBound, BoundBranch
<1>3. PICK f : f = HeadNode(l)
  OBVIOUS
<1>4. SafeFor(s, f)
  BY <1>0, <1>2, <1>3 DEF SafeFor, FirstTurn, At
<1>5. /\ InsertBranch(f, f) /\ UNCHANGED <<node, nextNode, alias>>
      /\ (current' = current \/ current' = [current EXCEPT ![HandleOf[s]] = Len(branch) + 1])
  BY <1>3 DEF Spawn, ForkFrom
<1>6. OpensRow([head |-> f, forked |-> f])
  BY <1>1, <1>2, <1>3, <1>5, InsertEffect
<1>7. \A k \in Loops \ {s} : run'[k] = run[k]
  BY SoundLocals DEF Spawn
<1>8. run'[s] = run[s] \/ run'[s].pc = "begin"
  BY SpawnBegins
<1>9. HeadsFrame(s)
  <2>1. ASSUME NEW h \in Handles, current'[h] # None, current'[h] = current[h]
        PROVE  current[h] # None /\ HeadOf(h)' = HeadOf(h)
    BY <1>6, <2>1, SoundStore DEF OpensRow, HeadOf, None
  <2>2. \A h \in Handles : h # HandleOf[s] => current'[h] = current[h]
    BY <1>5, SoundStore
  <2>3. current'[HandleOf[s]] # None => HeadOf(HandleOf[s])' = f
    BY <1>0, <1>1, <1>5, <1>6, SoundStore DEF OpensRow, HeadOf
  <2> QED
    BY <1>4, <2>1, <2>2, <2>3 DEF HeadsFrame
<1>10. \A p : Holds(run'[s], p) => Holds(run[s], p)
  BY <1>8 DEF Holds
<1>11. FirstTurn(s, run'[s]) => run'[s] = run[s] /\ FirstTurn(s, run[s])
  BY <1>8 DEF FirstTurn
<1>12. /\ FirstTurn(s, run[s]) =>
            (run[s].pc \in {"summarise", "summary", "copy"} => run[s].copyAt # run[s].userNode)
       /\ node' = node
  BY <1>5 DEF Anchored, LeavesAlone
<1> QED
  BY <1>1, <1>7, <1>9, <1>10, <1>11, <1>12, AnchoredFrame

\* A step of the user: no run is where it was not, and the main agent is moved to
\* nothing that anybody else takes back.
LEMMA AnchoredStill ==
  ASSUME Sound, Anchored, node' = node,
         \A k \in Loops : run'[k] = run[k] \/ (run'[k].pc = "begin" /\ k \notin Screens),
         \A h \in Handles : current'[h] # None =>
           \/ current[h] # None /\ HeadOf(h)' = HeadOf(h)
           \/ HeadOf(h)' = None
           \/ /\ h = Main /\ HeadOf(h)' \in DOMAIN node
              /\ \A k \in Loops : HandleOf[k] = Main
  PROVE  Anchored'
<1>1. \A k \in Loops : \A p : Holds(run'[k], p) => Holds(run[k], p)
  BY DEF Holds
<1>2. ParentsThere' /\ HeldThere'
  BY <1>1 DEF Anchored, ParentsThere, HeldThere
<1>3. HeadsThere'
  BY DEF Anchored, HeadsThere
<1>4. \A k \in Screens : run'[k].at = None
  BY LoopAssumption DEF Anchored
<1>5. ASSUME NEW k \in Loops, FirstTurn(k, run'[k]) PROVE LeavesAlone(k, run[k].userNode)'
  <2>1. run'[k] = run[k]
    BY <1>5 DEF FirstTurn
  <2>2. PICK u : u = run[k].userNode
    OBVIOUS
  <2>3. LeavesAlone(k, u)
    BY <1>5, <2>1, <2>2 DEF Anchored
  <2>4. \A h \in Handles \ {HandleOf[k]} : current'[h] # None => HeadOf(h)' # u
    BY <2>3 DEF LeavesAlone
  <2>5. LeavesAlone(k, u)'
    BY <1>1, <2>1, <2>3, <2>4 DEF LeavesAlone
  <2>6. u = run'[k].userNode
    BY <2>1, <2>2
  <2> QED
    BY <2>5, <2>6 DEF LeavesAlone
<1> QED
  BY <1>2, <1>3, <1>4, <1>5 DEF Anchored, FirstTurn

LEMMA AnchoredUser ==
  ASSUME ForksOwn, Sound, HandlesApart, Anchored,
         \/ \E l \in Loops : UserInput(l)
         \/ Steer \/ New \/ Clear \/ Fork \/ UNCHANGED vars
  PROVE  Anchored'
<1>0. /\ Main \in Handles /\ current[Main] \in Branches /\ run \in [Loops -> Locals]
      /\ current \in [Handles -> 0..Len(branch)] /\ Len(branch) \in Nat
      /\ branch \in [Branches -> Rows] /\ Branches = 1..Len(branch)
  BY SoundStore, DagAssumption DEF None, Sound, TypeOK, RunTypeOK
<1>1. CASE UNCHANGED dagVars
  <2>1. \A k \in Loops : run'[k] = run[k] \/ (run'[k].pc = "begin" /\ k \notin Screens)
    <3>1. ASSUME NEW l \in Loops, UserInput(l), NEW k \in Loops
          PROVE  run'[k] = run[k] \/ (run'[k].pc = "begin" /\ k \notin Screens)
      <4>1. run' = run \/ run' = [run EXCEPT ![l] = [Idle EXCEPT !.pc = "begin"]]
        BY <3>1 DEF UserInput
      <4>2. [Idle EXCEPT !.pc = "begin"].pc = "begin" /\ l \notin Screens
        BY <3>1 DEF Idle, UserInput, MainLoops
      <4> QED
        BY <1>0, <4>1, <4>2
    <3> QED
      BY <3>1 DEF Steer, New, Clear, Fork, Command, vars
  <2>2. \A h \in Handles : current'[h] # None => current[h] # None /\ HeadOf(h)' = HeadOf(h)
    BY <1>1 DEF HeadOf, dagVars
  <2>3. node' = node
    BY <1>1 DEF dagVars
  <2> QED
    BY <2>1, <2>2, <2>3, AnchoredStill
<1>2. CASE New \/ Clear \/ Fork
  <2>1. node' = node /\ run' = run
    BY <1>2 DEF New, Clear, Fork, Command, NewBranch, ResetHead, Branch
  <2>2. CASE Clear
    <3>1. branch' = [branch EXCEPT ![current[Main]].head = None] /\ current' = current
      BY <2>2 DEF Clear, ResetHead
    <3>2. \A b \in Branches : b # current[Main] => branch'[b] = branch[b]
      BY <1>0, <3>1
    <3>3. branch'[current[Main]].head = None
      BY <1>0, <3>1 DEF Rows
    <3>4. ASSUME NEW h \in Handles, current'[h] # None
          PROVE  (current[h] # None /\ HeadOf(h)' = HeadOf(h)) \/ HeadOf(h)' = None
      <4>1. CASE h = Main
        BY <3>1, <3>3, <4>1 DEF HeadOf
      <4>2. CASE h # Main
        <5>1. current[h] # current[Main] /\ current[h] \in Branches
          BY <1>0, <3>1, <3>4, <4>2 DEF HandlesApart, None
        <5> QED
          BY <3>1, <3>2, <3>4, <5>1 DEF HeadOf
      <4> QED
        BY <4>1, <4>2
    <3> QED
      BY <2>1, <3>4, AnchoredStill
  <2>3. CASE New \/ Fork
    <3>1. PICK n, f : /\ InsertBranch(n, f) /\ n \in Ids /\ f \in Ids
                      /\ \/ n = None
                         \/ n \in DOMAIN node /\ \A k \in Loops : HandleOf[k] = Main
                      /\ UNCHANGED <<node, nextNode, alias>>
                      /\ current' = [current EXCEPT ![Main] = Len(branch) + 1]
      <4>1. CASE New
        <5>1. HeadOf(Main) \in Ids
          BY <1>0 DEF HeadOf, Rows
        <5>2. PICK f : f = HeadOf(Main)
          OBVIOUS
        <5>3. /\ InsertBranch(None, f) /\ UNCHANGED <<node, nextNode, alias>>
              /\ current' = [current EXCEPT ![Main] = Len(branch) + 1]
          BY <4>1, <5>2 DEF New, NewBranch
        <5> QED
          BY <5>1, <5>2, <5>3, SoundStore
      <4>2. CASE Fork
        <5>1. PICK n \in DOMAIN node : Branch(Main, n)
          BY <4>2 DEF Fork
        <5>2. \A k \in Loops : HandleOf[k] = Main
          <6>1. "fork" \in Commands
            BY <4>2 DEF Fork, Command, Give
          <6> QED
            BY <6>1, LoopAssumption DEF ForksOwn, MainLoops
        <5>3. /\ InsertBranch(n, n) /\ UNCHANGED <<node, nextNode, alias>> /\ n \in Ids
              /\ current' = [current EXCEPT ![Main] = Len(branch) + 1]
          BY <5>1, SoundStore DEF Branch
        <5> QED
          BY <5>2, <5>3
      <4> QED
        BY <2>3, <4>1, <4>2
    <3>2. OpensRow([head |-> n, forked |-> f])
      BY <1>0, <3>1, InsertEffect
    <3>3. ASSUME NEW h \in Handles, h # Main, current'[h] # None
          PROVE  current[h] # None /\ HeadOf(h)' = HeadOf(h)
      BY <1>0, <3>1, <3>2, <3>3 DEF OpensRow, HeadOf, None
    <3>4. HeadOf(Main)' = n
      BY <1>0, <3>1, <3>2 DEF OpensRow, HeadOf
    <3> QED
      BY <2>1, <3>1, <3>3, <3>4, AnchoredStill
  <2> QED
    BY <1>2, <2>2, <2>3
<1> QED
  BY <1>1, <1>2 DEF UserInput, Steer, vars

LEMMA AnchoredNext ==
  ASSUME StaysOnOwn, SpawnsLate, ForksOwn, OwnHandles, Sound, Compacting, HandlesApart, Anchored,
         [Next]_vars
  PROVE  Anchored'
<1>1. ASSUME NEW l \in Loops, Step(l) PROVE Anchored'
  <2>1. CASE \E s \in Loops : Spawn(l, s)
    BY <2>1, AnchoredSpawn
  <2>2. CASE Compact(l)
    <3>1. Bound(l)
      BY <1>1, Kinds, ActiveBound
    <3> QED
      BY <2>2, <3>1, AnchoredRead DEF Compact
  <2>3. CASE TakesUserBack(l)
    BY <1>1, <2>3, AnchoredBack
  <2> QED
    BY <1>1, <2>1, <2>2, <2>3, AnchoredOwn
<1>2. CASE CompactCommand
  <2>1. PICK l \in Screens : ReadTail(l)
    BY <1>2 DEF CompactCommand
  <2>2. l \in Loops /\ Bound(l)
    BY ScreenBound
  <2> QED
    BY <2>1, <2>2, AnchoredRead
<1>3. CASE \/ \E l \in Loops : UserInput(l)
           \/ Steer \/ New \/ Clear \/ Fork \/ UNCHANGED vars
  BY <1>3, AnchoredUser
<1>4. ~Crash /\ ~Switch
  BY StaysStep
<1> QED
  BY <1>1, <1>2, <1>3, <1>4 DEF Next

LEMMA HandlesApartInit == Init => HandlesApart
<1>1. Init => current = [g \in Handles |-> IF g = Main THEN 1 ELSE None]
  BY DEF Init, DagInit
<1> QED
  BY <1>1 DEF HandlesApart, None

LEMMA AnchoredInit == Init => Anchored
<1> SUFFICES ASSUME Init PROVE Anchored
  OBVIOUS
<1>1. /\ current = [g \in Handles |-> IF g = Main THEN 1 ELSE None]
      /\ branch = <<[head |-> None, forked |-> None]>>
      /\ node = [n \in {} |-> None]
      /\ \A l \in Loops : run[l].pc = "idle" /\ run[l].at = None
  BY DEF Init, DagInit, Idle
<1>2. branch[1].head = None
  BY <1>1
<1>3. HeadsThere
  BY <1>1, <1>2 DEF HeadsThere, HeadOf
<1>4. ParentsThere
  BY <1>1 DEF ParentsThere
<1>5. HeldThere /\ \A l \in Loops : ~FirstTurn(l, run[l])
  BY <1>1 DEF HeldThere, Holds, FirstTurn
<1>6. \A l \in Screens : run[l].at = None
  BY <1>1, LoopAssumption
<1> QED
  BY <1>3, <1>4, <1>5, <1>6 DEF Anchored

\* A compacted conversation is complete, and one that is not compacted, whatever the
\* user and the loops are at work on at the same time: nobody takes back a message
\* that a copy, a sub-agent or a branch of the user stands on (dag.go:313-336,
\* compression.go:607-640).
THEOREM ChainsCompacted ==
  ASSUME OwnHandles, StaysOnOwn, SpawnsLate, ForksOwn PROVE Spec => []ParentsExist
<1>1. Sound /\ Compacting /\ HandlesApart /\ Anchored /\ [Next]_vars =>
        Compacting' /\ HandlesApart' /\ Anchored'
  BY CompactingNext, HandlesApartNext, AnchoredNext
<1>2. Anchored => ParentsExist
  BY DEF Anchored, ParentsThere, ParentsExist, Tree!ParentsExist, Tree!Messages, Tree!None, None
<1> QED
  BY <1>1, <1>2, CompactingInit, HandlesApartInit, AnchoredInit, Soundness, PTL DEF Spec
=============================================================================
