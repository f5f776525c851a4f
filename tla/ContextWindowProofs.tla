------------------------ MODULE ContextWindowProofs ------------------------
(***************************************************************************)
(* Why the prompt cache never changes what is sent, for any number of runs, *)
(* messages, branches and settings (loop.go:488-548): PromptCorrect.        *)
(*                                                                         *)
(* The first part is about Chain, a recursive function over a table that    *)
(* grows at its end and loses leaves.  It is well founded because parents   *)
(* are older (ChainStep); the chain of a row does not change when rows are  *)
(* added behind the table or a row without replies goes (ChainSame); and up *)
(* to any of its elements a chain is the chain of that element              *)
(* (ChainPrefix).  The last is what lets buildPrompt stop its walk at the   *)
(* head it has cached.                                                     *)
(*                                                                         *)
(* The second part is the inductive invariant.  Whatever is in the cache,   *)
(* and whatever a run has read from it, is the chain of the head it is kept *)
(* with, if that head is still stored (Faithful).  A head that is gone is   *)
(* in no chain, so the walk does not stop there and nothing of the cached   *)
(* nodes is used; and its id is given to no other message.                  *)
(***************************************************************************)
EXTENDS ContextWindow, WellFoundedInduction, TLAPS

----------------------------------------------------------------------------
\* Induction on the age of a message.

LEMMA LessPairs ==
  \A x, y : <<x, y>> \in OpToRel(<, Nat) <=> x \in Nat /\ y \in Nat /\ x < y
  BY DEF OpToRel

\* A set of numbers has a least element.
LEMMA LeastElement ==
  ASSUME NEW T, T \subseteq Nat, T # {}
  PROVE  \E x \in T : \A y \in T : x <= y
<1>1. \E x \in T : \A y \in T : ~ (<<y, x>> \in OpToRel(<, Nat))
  BY NatLessThanWellFounded, WFMin
<1>2. PICK x \in T : \A y \in T : ~ (<<y, x>> \in OpToRel(<, Nat))
  BY <1>1
<1>3. ASSUME NEW y \in T PROVE x <= y
  <2>1. ~ (<<y, x>> \in OpToRel(<, Nat))
    BY <1>2
  <2>2. x \in Nat /\ y \in Nat
    BY Zenon
  <2>3. ~ (y < x)
    BY <2>1, <2>2, LessPairs, Zenon
  <2> QED
    BY <2>2, <2>3
<1> QED
  BY <1>3

\* Complete induction, for a set of numbers.
LEMMA SetInduction ==
  ASSUME NEW S, \A n \in Nat : (\A m \in 0..(n - 1) : m \in S) => n \in S
  PROVE  Nat \subseteq S
<1> DEFINE T == Nat \ S
<1>1. ASSUME T # {} PROVE FALSE
  <2>1. PICK x \in T : \A y \in T : x <= y
    BY <1>1, LeastElement
  <2>2. ASSUME NEW m \in 0..(x - 1) PROVE m \in S
    BY <2>1
  <2> QED
    BY <2>1, <2>2
<1> QED
  BY <1>1

\* Min of a set of positive numbers is one of them.
LEMMA MinElement ==
  ASSUME NEW T, T \subseteq Nat, T # {}
  PROVE  Min(T) \in T
  BY LeastElement DEF Min

----------------------------------------------------------------------------
\* Chains.

\* Stored rows are sequence nd, those of L are not removed.
Table(nd, L) ==
  /\ Len(nd) \in Nat
  /\ L \subseteq 1..Len(nd)
  /\ \A m \in L : nd[m].parent \in 0..m - 1

ChainOf(nd, L, n) ==
  LET up[m \in 0..Len(nd)] ==
        IF m \notin L THEN <<>> ELSE Append(up[nd[m].parent], m)
  IN up[n]

\* g is the chain function of the rows up to n.
Climbs(g, n, nd, L) ==
  g = [m \in 0..n |-> IF m \notin L THEN <<>> ELSE Append(g[nd[m].parent], m)]

LEMMA ClimbValue ==
  ASSUME NEW nd, NEW L, NEW n, NEW g, Climbs(g, n, nd, L), NEW m \in 0..n
  PROVE  g[m] = IF m \notin L THEN <<>> ELSE Append(g[nd[m].parent], m)
<1> DEFINE V(i) == IF i \notin L THEN <<>> ELSE Append(g[nd[i].parent], i)
<1>1. g = [i \in 0..n |-> V(i)]
  BY Zenon DEF Climbs
<1> HIDE DEF V
<1>2. [i \in 0..n |-> V(i)][m] = V(m)
  OBVIOUS
<1>3. g[m] = V(m)
  BY <1>1, <1>2
<1> QED
  BY <1>3 DEF V

LEMMA ClimbExists ==
  ASSUME NEW nd, NEW L, Table(nd, L)
  PROVE  \A n \in Nat : \E g : Climbs(g, n, nd, L)
<1> DEFINE S == {n \in Nat : \E g : Climbs(g, n, nd, L)}
<1>1. ASSUME NEW n \in Nat, \A i \in 0..(n - 1) : i \in S PROVE n \in S
  <2>1. CASE n = 0
    <3> DEFINE g == [m \in 0..0 |-> <<>>]
    <3>1. 0 \notin L
      BY DEF Table
    <3>2. g = [m \in 0..0 |-> IF m \notin L THEN <<>> ELSE Append(g[nd[m].parent], m)]
      BY <3>1
    <3> QED
      BY <2>1, <3>2 DEF Climbs
  <2>2. CASE n # 0
    <3>1. n - 1 \in S
      BY <1>1, <2>2
    <3>2. PICK g : Climbs(g, n - 1, nd, L)
      BY <3>1
    <3> DEFINE h == [m \in 0..n |->
                       IF m = n THEN IF n \notin L THEN <<>> ELSE Append(g[nd[n].parent], n)
                                ELSE g[m]]
    <3>3. ASSUME NEW m \in 0..n
          PROVE  h[m] = IF m \notin L THEN <<>> ELSE Append(h[nd[m].parent], m)
      <4>1. m \in L => nd[m].parent \in 0..(n - 1) /\ h[nd[m].parent] = g[nd[m].parent]
        BY DEF Table
      <4>2. m # n => m \in 0..(n - 1)
        OBVIOUS
      <4>3. m # n => g[m] = IF m \notin L THEN <<>> ELSE Append(g[nd[m].parent], m)
        BY <3>2, <4>2, ClimbValue
      <4> QED
        BY <4>1, <4>3
    <3>4. h = [m \in 0..n |-> h[m]]
      OBVIOUS
    <3> HIDE DEF h
    <3>5. Climbs(h, n, nd, L)
      BY <3>3, <3>4 DEF Climbs
    <3> QED
      BY <3>5
  <2> QED
    BY <2>1, <2>2
<1>2. Nat \subseteq S
  <2> HIDE DEF S
  <2> QED BY <1>1, SetInduction
<1> QED
  BY <1>2

\* GetAncestors: a row after the chain of its parent.
LEMMA ChainStep ==
  ASSUME NEW nd, NEW L, Table(nd, L), NEW n \in 0..Len(nd)
  PROVE  ChainOf(nd, L, n) =
           IF n \notin L THEN <<>> ELSE Append(ChainOf(nd, L, nd[n].parent), n)
<1> DEFINE F == CHOOSE f : f = [m \in 0..Len(nd) |->
                                  IF m \notin L THEN <<>> ELSE Append(f[nd[m].parent], m)]
<1>1. Climbs(F, Len(nd), nd, L)
  <2>1. \E g : Climbs(g, Len(nd), nd, L)
    BY ClimbExists DEF Table
  <2> QED
    BY <2>1 DEF Climbs
<1>2. \A m : ChainOf(nd, L, m) = F[m]
  BY DEF ChainOf
<1>3. F[n] = IF n \notin L THEN <<>> ELSE Append(F[nd[n].parent], n)
  <2> HIDE DEF F
  <2> QED BY <1>1, ClimbValue
<1>4. n \in L => nd[n].parent \in 0..Len(nd)
  BY DEF Table
<1> HIDE DEF F
<1> QED
  BY <1>2, <1>3, <1>4

\* Two tables agree on a set of rows closed under parents.
Agree(nd, L, md, M, A) ==
  /\ A \subseteq 0..Len(nd) /\ A \subseteq 0..Len(md)
  /\ \A m \in A : /\ m \in L <=> m \in M
                  /\ m \in L => md[m].parent = nd[m].parent /\ nd[m].parent \in A \cup {0}

\* They have the same chains there.
LEMMA ChainSame ==
  ASSUME NEW nd, NEW L, NEW md, NEW M, Table(nd, L), Table(md, M),
         NEW A, Agree(nd, L, md, M, A)
  PROVE  \A m \in A : ChainOf(nd, L, m) = ChainOf(md, M, m)
<1> DEFINE S == {m \in Nat : m \in A \cup {0} => ChainOf(nd, L, m) = ChainOf(md, M, m)}
<1>1. ASSUME NEW n \in Nat, \A i \in 0..(n - 1) : i \in S PROVE n \in S
  <2> SUFFICES ASSUME n \in A \cup {0} PROVE ChainOf(nd, L, n) = ChainOf(md, M, n)
    OBVIOUS
  <2>0. n \in 0..Len(nd) /\ n \in 0..Len(md) /\ (n \in L <=> n \in M)
    BY DEF Table, Agree
  <2>1. /\ ChainOf(nd, L, n) = IF n \notin L THEN <<>> ELSE Append(ChainOf(nd, L, nd[n].parent), n)
        /\ ChainOf(md, M, n) = IF n \notin M THEN <<>> ELSE Append(ChainOf(md, M, md[n].parent), n)
    BY <2>0, ChainStep
  <2>2. CASE n \in L
    <3>1. nd[n].parent \in 0..(n - 1) /\ nd[n].parent \in A \cup {0} /\ md[n].parent = nd[n].parent
      BY <2>2 DEF Table, Agree
    <3>2. ChainOf(nd, L, nd[n].parent) = ChainOf(md, M, nd[n].parent)
      BY <1>1, <3>1
    <3> QED
      BY <2>0, <2>1, <3>1, <3>2
  <2> QED
    BY <2>0, <2>1, <2>2
<1>2. Nat \subseteq S
  <2> HIDE DEF S
  <2> QED BY <1>1, SetInduction
<1>3. A \subseteq Nat
  BY DEF Table, Agree
<1> QED
  BY <1>2, <1>3

\* A chain is a sequence of stored rows.
LEMMA ChainType ==
  ASSUME NEW nd, NEW L, Table(nd, L)
  PROVE  \A n \in 0..Len(nd) : ChainOf(nd, L, n) \in Seq(L)
<1> DEFINE S == {n \in Nat : n \in 0..Len(nd) => ChainOf(nd, L, n) \in Seq(L)}
<1>1. ASSUME NEW n \in Nat, \A i \in 0..(n - 1) : i \in S PROVE n \in S
  <2> SUFFICES ASSUME n \in 0..Len(nd) PROVE ChainOf(nd, L, n) \in Seq(L)
    OBVIOUS
  <2>1. ChainOf(nd, L, n) = IF n \notin L THEN <<>> ELSE Append(ChainOf(nd, L, nd[n].parent), n)
    BY ChainStep
  <2>2. CASE n \in L
    <3>1. nd[n].parent \in 0..(n - 1)
      BY <2>2 DEF Table
    <3>2. ChainOf(nd, L, nd[n].parent) \in Seq(L)
      BY <1>1, <3>1
    <3> QED
      BY <2>1, <2>2, <3>2
  <2>3. CASE n \notin L
    BY <2>1, <2>3
  <2> QED
    BY <2>2, <2>3
<1>2. Nat \subseteq S
  <2> HIDE DEF S
  <2> QED BY <1>1, SetInduction
<1> QED
  BY <1>2 DEF Table

\* Up to an element of it a chain is the chain of that element.
LEMMA ChainPrefix ==
  ASSUME NEW nd, NEW L, Table(nd, L)
  PROVE  \A n \in 0..Len(nd) : \A i \in DOMAIN ChainOf(nd, L, n) :
           ChainOf(nd, L, ChainOf(nd, L, n)[i]) = SubSeq(ChainOf(nd, L, n), 1, i)
<1> DEFINE C(n) == ChainOf(nd, L, n)
           Good(n) == \A i \in DOMAIN C(n) : C(C(n)[i]) = SubSeq(C(n), 1, i)
           S == {n \in Nat : n \in 0..Len(nd) => Good(n)}
<1>1. ASSUME NEW n \in Nat, \A i \in 0..(n - 1) : i \in S PROVE n \in S
  <2> SUFFICES ASSUME n \in 0..Len(nd), NEW i \in DOMAIN C(n)
               PROVE  C(C(n)[i]) = SubSeq(C(n), 1, i)
    OBVIOUS
  <2>1. C(n) = IF n \notin L THEN <<>> ELSE Append(C(nd[n].parent), n)
    BY ChainStep
  <2>2. n \in L
    BY <2>1
  <2> DEFINE p == nd[n].parent
  <2>3. p \in 0..(n - 1) /\ p \in 0..Len(nd)
    BY <2>2 DEF Table
  <2>4. C(p) \in Seq(L) /\ C(n) \in Seq(L) /\ Good(p)
    BY <1>1, <2>3, ChainType
  <2> HIDE DEF C, p
  <2>5. C(n) = Append(C(p), n)
    BY <2>1, <2>2 DEF p
  <2>6. CASE i = Len(C(n))
    <3>1. C(n)[i] = n
      BY <2>4, <2>5, <2>6
    <3>2. SubSeq(C(n), 1, Len(C(n))) = C(n)
      BY <2>4
    <3> QED
      BY <2>6, <3>1, <3>2
  <2>7. CASE i # Len(C(n))
    <3>1. i \in DOMAIN C(p) /\ C(n)[i] = C(p)[i]
      BY <2>4, <2>5, <2>7
    <3>2. C(C(p)[i]) = SubSeq(C(p), 1, i)
      BY <2>4, <3>1
    <3>3. SubSeq(C(p), 1, i) = SubSeq(Append(C(p), n), 1, i)
      BY <2>4, <3>1
    <3> QED
      BY <2>5, <3>1, <3>2, <3>3
  <2> QED
    BY <2>6, <2>7
<1>2. Nat \subseteq S
  <2> HIDE DEF S
  <2> QED BY <1>1, SetInduction
<1> QED
  BY <1>2 DEF Table

----------------------------------------------------------------------------
\* buildPrompt.

\* What is kept with a stored head is its chain.
Faithful(c) == c.nodes # <<>> /\ c.head \in Live => c.nodes = Chain(c.head)

LEMMA ChainIs == \A n : Chain(n) = ChainOf(node, Live, n)
  BY DEF Chain, ChainOf

\* From a faithful cache buildPrompt collects the chain, wherever its walk stops.
LEMMA PromptChain ==
  ASSUME Table(node, Live), NEW h \in Live, NEW seen, Faithful(seen)
  PROVE  Prompt(h, seen) = Chain(h)
<1> DEFINE c == Chain(h)
           at == {i \in DOMAIN c : c[i] = seen.head}
<1>1. h \in 0..Len(node) /\ h # 0
  BY DEF Table
<1>2. c \in Seq(Live)
  BY <1>1, ChainIs, ChainType
<1>3. CASE h = seen.head /\ seen.nodes # <<>>
  BY <1>1, <1>3 DEF Prompt, Faithful
<1>4. ASSUME ~ (h = seen.head /\ seen.nodes # <<>>), seen.nodes # <<>>, at # {}
      PROVE  seen.nodes \o SubSeq(c, Min(at) + 1, Len(c)) = c
  <2>1. at \subseteq 1..Len(c) /\ Len(c) \in Nat
    BY <1>2
  <2>2. PICK m : m = Min(at)
    OBVIOUS
  <2> HIDE DEF at
  <2>3. m \in at /\ m \in 1..Len(c)
    <3>1. at \subseteq Nat
      BY <2>1
    <3>2. Min(at) \in at
      BY <1>4, <3>1, MinElement
    <3> QED
      BY <2>1, <2>2, <3>2
  <2>4. c[m] = seen.head /\ m \in DOMAIN c /\ seen.head \in Live
    BY <1>2, <2>3 DEF at
  <2> HIDE DEF c
  <2>5. Chain(c[m]) = SubSeq(c, 1, m)
    BY <1>1, <2>4, ChainIs, ChainPrefix DEF c
  <2>6. seen.nodes = SubSeq(c, 1, m)
    BY <1>4, <2>4, <2>5 DEF Faithful
  <2>7. SubSeq(c, 1, m) \o SubSeq(c, m + 1, Len(c)) = c
    BY <1>2, <2>3
  <2> QED
    BY <2>2, <2>6, <2>7
<1>5. CASE ~ (h = seen.head /\ seen.nodes # <<>>) /\ seen.nodes # <<>> /\ at # {}
  BY <1>1, <1>4, <1>5 DEF Prompt
<1>6. CASE ~ (h = seen.head /\ seen.nodes # <<>>) /\ ~ (seen.nodes # <<>> /\ at # {})
  BY <1>1, <1>6 DEF Prompt
<1> QED
  BY <1>3, <1>5, <1>6

----------------------------------------------------------------------------
\* The inductive invariant.

\* A stored message.
Call == (Nat \X CallTypes) \cup {NoCall}
Block == [kind : {"text", "use", "result"}, call : Call,
          size : TextClasses \cup ResultShapes, covers : SUBSET Nat]
Content == [role : Roles, blocks : SUBSET Block]
Row == [parent : Nat, message : Content]

\* The rows, the ids and the head of the store; a stored row has its parent.
StoreOK ==
  /\ setup \in Setups
  /\ node \in Seq(Row)
  /\ gone \subseteq Ids
  /\ head \in Live \cup {0}
  /\ \A n \in Ids : node[n].parent \in 0..n - 1
  /\ \A n \in Live : node[n].parent \in Live \cup {0}

\* Heads are those of rows that were stored at some time.
RunFields == DOMAIN Settled
HeadsOK ==
  /\ DOMAIN run = Runs
  /\ cache.head \in 0..Len(node)
  /\ \A r \in Runs : /\ DOMAIN run[r] = RunFields
                      /\ run[r].at \in Places0
                      /\ run[r].head \in 0..Len(node)
                      /\ run[r].seen.head \in 0..Len(node)

CacheOK == Faithful(cache) /\ \A r \in Runs : Faithful(run[r].seen)

Collected(r) ==
  run[r].at \in {"squeeze", "compact", "sent"} /\ run[r].head \in Live
    => run[r].chain = Chain(run[r].head)

Inv == StoreOK /\ HeadsOK /\ CacheOK /\ \A r \in Runs : Collected(r)

LEMMA StoreTable == StoreOK => Table(node, Live)
  BY DEF StoreOK, Table, Ids, Live

LEMMA InitInv == Init => Inv
<1> SUFFICES ASSUME Init PROVE Inv
  OBVIOUS
<1>1. StoreOK
  BY DEF Init, StoreOK, Ids, Live
<1>2. HeadsOK
  BY DEF Init, HeadsOK, Settled, RunFields, Places0
<1>3. CacheOK
  BY DEF Init, CacheOK, Faithful, Settled
<1>4. \A r \in Runs : Collected(r)
  BY DEF Init, Collected, Settled
<1> QED
  BY <1>1, <1>2, <1>3, <1>4 DEF Inv

\* A step of the store: no id comes back, and no chain of a stored row changes.
Kept ==
  /\ Len(node') >= Len(node)
  /\ \A n \in 0..Len(node) : n \in Live' => n \in Live /\ ChainOf(node', Live', n) = Chain(n)

\* Rows are added behind the others.
LEMMA GrownKept ==
  ASSUME StoreOK, StoreOK', gone' = gone, NEW rows \in Seq(Row), node' = node \o rows
  PROVE  Kept
<1>1. Table(node, Live) /\ Table(node', Live')
  <2>1. Table(node', Live')
    BY DEF StoreOK, Table, Ids, Live
  <2> QED
    BY <2>1, StoreTable
<1>2. Len(node) \in Nat /\ Len(node') = Len(node) + Len(rows) /\ Len(rows) \in Nat
      /\ Ids = 1..Len(node) /\ Ids' = 1..Len(node')
  BY DEF StoreOK, Ids
<1> DEFINE A == 0..Len(node)
<1>3. ASSUME NEW m \in A
      PROVE  /\ m \in Live <=> m \in Live'
             /\ m \in Live => node'[m].parent = node[m].parent /\ node[m].parent \in A \cup {0}
  <2>1. m \in Live <=> m \in Live'
    BY <1>2 DEF Live
  <2>2. m \in Live => node'[m] = node[m]
    BY <1>2 DEF Live, StoreOK
  <2>3. m \in Live => node[m].parent \in 0..Len(node)
    BY <1>1, <1>2 DEF Table
  <2> QED
    BY <2>1, <2>2, <2>3
<1>4. A \subseteq 0..Len(node) /\ A \subseteq 0..Len(node')
  BY <1>2
<1> HIDE DEF A
<1>5. \A m \in A : ChainOf(node, Live, m) = ChainOf(node', Live', m)
  <2>1. Agree(node, Live, node', Live', A)
    BY <1>3, <1>4 DEF Agree
  <2> QED
    BY <1>1, <2>1, ChainSame
<1>6. \A n \in 0..Len(node) : n \in Live' => n \in Live /\ ChainOf(node', Live', n) = Chain(n)
  BY <1>3, <1>5, ChainIs DEF A
<1> QED
  BY <1>2, <1>6 DEF Kept

\* A row without replies goes.
LEMMA LeafKept ==
  ASSUME StoreOK, StoreOK', node' = node, NEW h \in Live, gone' = gone \cup {h},
         \A n \in Live : node[n].parent # h
  PROVE  Kept
<1>1. Table(node, Live) /\ Table(node, Live')
  <2>1. Table(node', Live')
    BY DEF StoreOK, Table, Ids, Live
  <2> QED
    BY <2>1, StoreTable
<1>2. Len(node) \in Nat /\ Ids = 1..Len(node) /\ Ids' = Ids /\ Live' = Live \ {h}
  BY DEF StoreOK, Ids, Live
<1> DEFINE A == 0..Len(node) \ {h}
<1>3. ASSUME NEW m \in A
      PROVE  /\ m \in Live <=> m \in Live'
             /\ m \in Live => node[m].parent \in A \cup {0}
  BY <1>1, <1>2 DEF Table
<1>4. A \subseteq 0..Len(node)
  OBVIOUS
<1> HIDE DEF A
<1>5. \A m \in A : ChainOf(node, Live, m) = ChainOf(node, Live', m)
  <2>1. Agree(node, Live, node, Live', A)
    BY <1>3, <1>4 DEF Agree
  <2> QED
    BY <1>1, <2>1, ChainSame
<1>6. \A n \in 0..Len(node) : n \in Live' => n \in Live /\ ChainOf(node', Live', n) = Chain(n)
  BY <1>2, <1>5, ChainIs DEF A
<1>7. Len(node') >= Len(node)
  BY <1>2
<1> QED
  BY <1>6, <1>7 DEF Kept

\* c, of the next state, is faithful to the next state.
FaithfulNext(c) == c.nodes # <<>> /\ c.head \in Live' => c.nodes = ChainOf(node', Live', c.head)

LEMMA ChainIsNext == \A n : Chain(n)' = ChainOf(node', Live', n)
  BY DEF Chain, ChainOf

\* What was faithful to the store stays so.
LEMMA FaithfulKept ==
  ASSUME Kept, NEW c, c.head \in 0..Len(node), Faithful(c)
  PROVE  FaithfulNext(c)
  BY DEF Kept, Faithful, FaithfulNext

----------------------------------------------------------------------------
\* The invariant after a step of the store, of a run, or of both.

\* A step that leaves all runs but r as they are.
LEMMA RunMoves ==
  ASSUME Inv, StoreOK', Kept, NEW r \in Runs,
         DOMAIN run' = Runs, \A q \in Runs \ {r} : run'[q] = run[q],
         cache'.head \in 0..Len(node'), FaithfulNext(cache'),
         DOMAIN run'[r] = RunFields, run'[r].at \in Places0,
         run'[r].head \in 0..Len(node'),
         run'[r].seen.head \in 0..Len(node'), FaithfulNext(run'[r].seen),
         Collected(r)'
  PROVE  Inv'
<1>1. ASSUME NEW q \in Runs \ {r}
      PROVE  /\ DOMAIN run'[q] = RunFields /\ run'[q].at \in Places0
             /\ run'[q].head \in 0..Len(node') /\ run'[q].seen.head \in 0..Len(node')
             /\ FaithfulNext(run'[q].seen)
             /\ Collected(q)'
  <2>1. run'[q] = run[q]
    OBVIOUS
  <2>2. DOMAIN run[q] = RunFields /\ run[q].at \in Places0
        /\ run[q].head \in 0..Len(node) /\ run[q].seen.head \in 0..Len(node)
        /\ Faithful(run[q].seen) /\ Collected(q)
    BY DEF Inv, HeadsOK, CacheOK
  <2>3. Len(node) \in Nat /\ Len(node') \in Nat /\ Len(node') >= Len(node)
    BY DEF Inv, StoreOK, Kept
  <2>4. FaithfulNext(run[q].seen)
    BY <2>2, FaithfulKept
  <2>5. Collected(q)'
    BY <2>1, <2>2, ChainIsNext DEF Collected, Kept
  <2> QED
    BY <2>1, <2>2, <2>3, <2>4, <2>5
<1>2. HeadsOK'
  BY <1>1 DEF HeadsOK, RunFields, Settled
<1>3. CacheOK'
  <2>1. \A q \in Runs : FaithfulNext(run'[q].seen)
    BY <1>1
  <2>2. \A c : FaithfulNext(c) => (c.nodes # <<>> /\ c.head \in Live' => c.nodes = Chain(c.head)')
    BY ChainIsNext DEF FaithfulNext
  <2> QED
    BY <2>1, <2>2 DEF CacheOK, Faithful
<1>4. \A q \in Runs : Collected(q)'
  BY <1>1
<1> QED
  BY <1>2, <1>3, <1>4 DEF Inv

\* A step of the store alone.
LEMMA StoreMoves ==
  ASSUME Inv, StoreOK', Kept, cache' = cache, run' = run
  PROVE  Inv'
<1>1. Len(node) \in Nat /\ Len(node') \in Nat /\ Len(node') >= Len(node)
  BY DEF Inv, StoreOK, Kept
<1>2. HeadsOK'
  BY <1>1 DEF Inv, HeadsOK, RunFields, Settled
<1>3. CacheOK'
  <2>1. FaithfulNext(cache)
    BY FaithfulKept DEF Inv, HeadsOK, CacheOK
  <2>2. ASSUME NEW q \in Runs PROVE FaithfulNext(run[q].seen)
    BY FaithfulKept DEF Inv, HeadsOK, CacheOK
  <2> QED
    BY <2>1, <2>2, ChainIsNext DEF CacheOK, FaithfulNext, Faithful
<1>4. ASSUME NEW q \in Runs PROVE Collected(q)'
  BY ChainIsNext DEF Inv, HeadsOK, Collected, Kept
<1> QED
  BY <1>2, <1>3, <1>4 DEF Inv

\* A run's step that leaves the store alone.
LEMMA StoreSame ==
  ASSUME StoreOK, UNCHANGED <<setup, node, gone, head>>
  PROVE  StoreOK' /\ Kept /\ Live' = Live
<1>1. StoreOK' /\ Live' = Live
  BY DEF StoreOK, Live, Ids
<1> QED
  BY <1>1, ChainIs DEF Kept, StoreOK

----------------------------------------------------------------------------
\* What the conversation gains.

LEMMA AddNodeNext ==
  ASSUME Inv, NEW message \in Content, AddNode(message)
  PROVE  Inv'
<1> DEFINE row == [parent |-> head, message |-> message]
<1>1. /\ node' = Append(node, row) /\ head' = Len(node) + 1
      /\ UNCHANGED <<setup, gone, cache, run>>
  BY DEF AddNode
<1>2. /\ node \in Seq(Row) /\ Ids = 1..Len(node) /\ Len(node) \in Nat
      /\ gone \subseteq Ids /\ head \in Live \cup {0}
  BY DEF Inv, StoreOK, Ids
<1>3. row \in Row
  BY <1>2 DEF Row, Live
<1> HIDE DEF row
<1>4. /\ node' \in Seq(Row) /\ Len(node') = Len(node) + 1
      /\ node'[Len(node) + 1] = row
      /\ \A n \in Ids : node'[n] = node[n]
      /\ Ids' = Ids \cup {Len(node) + 1} /\ Live' = Live \cup {Len(node) + 1}
  BY <1>1, <1>2, <1>3 DEF Ids, Live
<1>5. StoreOK'
  <2>1. node'[Len(node) + 1].parent = head
    BY <1>4 DEF row
  <2>2. setup' \in Setups /\ gone' \subseteq Ids' /\ head' \in Live' \cup {0}
    BY <1>1, <1>2, <1>4 DEF Inv, StoreOK
  <2>3. ASSUME NEW n \in Ids'
        PROVE  node'[n].parent \in 0..n - 1 /\ (n \in Live' => node'[n].parent \in Live' \cup {0})
    <3>1. CASE n \in Ids
      BY <1>2, <1>4, <3>1 DEF Inv, StoreOK
    <3>2. CASE n = Len(node) + 1
      BY <1>2, <1>4, <2>1, <3>2 DEF Live
    <3> QED
      BY <1>4, <3>1, <3>2
  <2>4. Live' \subseteq Ids'
    BY DEF Live
  <2> QED
    BY <1>4, <2>2, <2>3, <2>4 DEF StoreOK
<1>6. node' = node \o <<row>> /\ <<row>> \in Seq(Row)
  BY <1>1, <1>2, <1>3
<1>7. Kept
  BY <1>1, <1>5, <1>6, GrownKept DEF Inv
<1> QED
  BY <1>1, <1>5, <1>7, StoreMoves

\* Max of a set of positions is one of them.
LEMMA MaxElement ==
  ASSUME NEW k \in Nat, NEW T, T \subseteq 1..k, T # {}
  PROVE  Max(T) \in T
<1> DEFINE U == {k - x : x \in T}
<1>0. \A x \in T : x \in Int /\ k - x \in Nat /\ k - x \in U
  OBVIOUS
<1>1. PICK u \in U : \A v \in U : u <= v
  <2>1. U \subseteq Nat
    BY <1>0
  <2>2. U # {}
    BY <1>0
  <2> HIDE DEF U
  <2> QED
    BY <2>1, <2>2, LeastElement
<1>2. PICK x \in T : u = k - x
  OBVIOUS
<1> HIDE DEF U
<1>3. ASSUME NEW y \in T PROVE x >= y
  <2>1. k - x <= k - y
    BY <1>0, <1>1, <1>2
  <2> QED
    BY <1>0, <2>1
<1> QED
  BY <1>3 DEF Max

\* The messages of a chain are stored messages.
LEMMA ChainMessages ==
  ASSUME StoreOK
  PROVE  \A n \in 0..Len(node) :
           /\ Chain(n) \in Seq(Live)
           /\ NodesToMessages(Chain(n)) \in Seq(Content)
           /\ Len(NodesToMessages(Chain(n))) = Len(Chain(n))
<1> SUFFICES ASSUME NEW n \in 0..Len(node)
             PROVE  /\ Chain(n) \in Seq(Live)
                    /\ NodesToMessages(Chain(n)) \in Seq(Content)
                    /\ Len(NodesToMessages(Chain(n))) = Len(Chain(n))
  OBVIOUS
<1>1. Chain(n) \in Seq(Live)
  BY StoreTable, ChainType, ChainIs
<1>2. PICK c : c = Chain(n)
  OBVIOUS
<1>3. c \in Seq(Live) /\ DOMAIN c = 1..Len(c) /\ Len(c) \in Nat
  BY <1>1, <1>2
<1>4. ASSUME NEW i \in DOMAIN c PROVE node[c[i]].message \in Content
  <2>1. PICK m \in Ids : m = c[i]
    BY <1>3 DEF Live
  <2>2. node[m] \in Row
    BY DEF StoreOK, Ids
  <2> QED
    BY <2>1, <2>2 DEF Row
<1>5. NodesToMessages(c) = [i \in 1..Len(c) |-> node[c[i]].message]
  BY <1>3 DEF NodesToMessages
<1>6. NodesToMessages(c) \in Seq(Content) /\ Len(NodesToMessages(c)) = Len(c)
  BY <1>3, <1>4, <1>5
<1> QED
  BY <1>1, <1>2, <1>6

\* A call that waits for its result is one of a stored message.
LEMMA PendingCalls == StoreOK => Pending \subseteq Call
<1> SUFFICES ASSUME StoreOK, NEW p \in Pending PROVE p \in Call
  OBVIOUS
<1> DEFINE ms == NodesToMessages(Chain(head))
           spoken == {i \in DOMAIN ms : ms[i].role \in {"user", "assistant"}}
<1>1. ms \in Seq(Content)
  BY ChainMessages DEF StoreOK, Live, Ids
<1> HIDE DEF ms
<1>2. spoken # {} /\ p \in {b.call : b \in Of(ms[Max(spoken)], "use")}
  BY DEF Pending, ms
<1>3. spoken \subseteq 1..Len(ms) /\ Len(ms) \in Nat
  BY <1>1
<1> HIDE DEF spoken
<1>4. Max(spoken) \in 1..Len(ms)
  BY <1>2, <1>3, MaxElement
<1>5. ms[Max(spoken)] \in Content
  BY <1>1, <1>4
<1> QED
  BY <1>2, <1>5 DEF Of, Content, Block

\* Every message that is added is a stored message.
LEMMA GrowNext == ASSUME Inv, Grow PROVE Inv'
<1>0. setup \in Setups /\ Len(node) + 1 \in Nat
  BY DEF Inv, StoreOK
<1>1. CASE AddUser
  <2>1. PICK size \in setup.asks : AddNode(Message("user", {Text(size, {Len(node) + 1})}))
    BY <1>1 DEF AddUser
  <2>2. Message("user", {Text(size, {Len(node) + 1})}) \in Content
    BY <1>0, <2>1, ContextAssumption DEF Message, Text, Content, Block, Call, Roles
  <2> QED
    BY <2>1, <2>2, AddNodeNext
<1>2. CASE AddAnswer
  <2>1. PICK size \in setup.answers : AddNode(Message("assistant", {Text(size, {Len(node) + 1})}))
    BY <1>2 DEF AddAnswer
  <2>2. Message("assistant", {Text(size, {Len(node) + 1})}) \in Content
    BY <1>0, <2>1, ContextAssumption DEF Message, Text, Content, Block, Call, Roles
  <2> QED
    BY <2>1, <2>2, AddNodeNext
<1>3. CASE AddCalls
  <2> DEFINE n == Len(node) + 1
  <2>1. PICK types \in setup.calls : AddNode(Message("assistant", {Use(<<n, t>>, n) : t \in types}))
    BY <1>3 DEF AddCalls
  <2>2. types \subseteq CallTypes
    BY <1>0, ContextAssumption
  <2>3. ASSUME NEW t \in types PROVE Use(<<n, t>>, n) \in Block
    BY <1>0, <2>2 DEF Use, Block, Call, TextClasses
  <2>4. Message("assistant", {Use(<<n, t>>, n) : t \in types}) \in Content
    BY <2>3 DEF Message, Content, Roles
  <2> QED
    BY <2>1, <2>4, AddNodeNext
<1>4. CASE AddThinking
  <2>1. AddNode(Message("thinking", {Text("short", {Len(node) + 1})}))
    BY <1>4 DEF AddThinking
  <2>2. Message("thinking", {Text("short", {Len(node) + 1})}) \in Content
    BY <1>0 DEF Message, Text, Content, Block, Call, Roles, TextClasses
  <2> QED
    BY <2>1, <2>2, AddNodeNext
<1>5. CASE AddResult
  <2> DEFINE call == CHOOSE c \in Pending : TRUE
  <2>1. Pending # {}
    BY <1>5 DEF AddResult
  <2>2. PICK size \in setup.shapes : AddNode(Message("tool", {Result(call, size, Len(node) + 1)}))
    BY <1>5 DEF AddResult
  <2>3. call \in Call
    BY <2>1, PendingCalls DEF Inv
  <2> HIDE DEF call
  <2>4. size \in ResultShapes
    BY <1>0, ContextAssumption
  <2>5. Message("tool", {Result(call, size, Len(node) + 1)}) \in Content
    BY <1>0, <2>3, <2>4 DEF Message, Result, Content, Block, Roles
  <2> QED
    BY <2>2, <2>5, AddNodeNext
<1> QED
  BY <1>1, <1>2, <1>3, <1>4, <1>5 DEF Grow

----------------------------------------------------------------------------
\* The head moves, a message is taken back.

LEMMA MoveHeadNext == ASSUME Inv, MoveHead PROVE Inv'
<1>1. /\ head' \in Live \cup {0}
      /\ UNCHANGED <<setup, node, gone, cache, run>>
  BY DEF MoveHead
<1>2. StoreOK' /\ Live' = Live
  BY <1>1 DEF Inv, StoreOK, Live, Ids
<1>3. Kept
  BY <1>1, <1>2, ChainIs DEF Kept, Inv, StoreOK
<1> QED
  BY <1>1, <1>2, <1>3, StoreMoves

LEMMA TakeBackNext == ASSUME Inv, TakeBack PROVE Inv'
<1>1. /\ head # 0
      /\ \A n \in Live : node[n].parent # head
      /\ gone' = gone \cup {head}
      /\ head' = node[head].parent
      /\ UNCHANGED <<setup, node, cache, run>>
  BY DEF TakeBack, LastRole
<1>2. head \in Live
  BY <1>1 DEF Inv, StoreOK
<1>3. Ids' = Ids /\ Live' = Live \ {head}
  BY <1>1 DEF Ids, Live
<1>4. StoreOK'
  <2>1. node[head].parent \in Live \cup {0} /\ node[head].parent # head
    BY <1>1, <1>2 DEF Inv, StoreOK
  <2>2. head' \in Live' \cup {0}
    BY <1>1, <1>3, <2>1
  <2>3. \A n \in Live' : node[n].parent \in Live' \cup {0}
    BY <1>1, <1>3 DEF Inv, StoreOK
  <2>4. gone' \subseteq Ids'
    BY <1>1, <1>2, <1>3 DEF Inv, StoreOK, Live
  <2> QED
    BY <1>1, <1>3, <2>2, <2>3, <2>4 DEF Inv, StoreOK
<1>5. Kept
  BY <1>1, <1>2, <1>4, LeafKept DEF Inv
<1> QED
  BY <1>1, <1>4, <1>5, StoreMoves

----------------------------------------------------------------------------
\* The turns.

\* Run r takes a step; the store and the other runs stay as they are.
LEMMA TurnMoves ==
  ASSUME Inv, NEW r \in Runs, UNCHANGED <<setup, node, gone, head>>,
         DOMAIN run' = Runs, \A q \in Runs \ {r} : run'[q] = run[q],
         cache'.head \in 0..Len(node), Faithful(cache)',
         DOMAIN run'[r] = RunFields, run'[r].at \in Places0,
         run'[r].head \in 0..Len(node),
         run'[r].seen.head \in 0..Len(node), Faithful(run[r].seen)',
         Collected(r)'
  PROVE  Inv'
<1>1. StoreOK' /\ Kept
  BY StoreSame DEF Inv
<1>2. FaithfulNext(cache') /\ FaithfulNext(run'[r].seen)
  BY ChainIsNext DEF Faithful, FaithfulNext
<1> QED
  BY <1>1, <1>2, RunMoves

\* What of a state stays when neither the rows nor what is gone change.
LEMMA SameStore ==
  ASSUME UNCHANGED <<node, gone>>
  PROVE  /\ Live' = Live
         /\ \A n : Chain(n)' = Chain(n)
  BY DEF Live, Ids, Chain

LEMMA ReadHeadNext == ASSUME Inv, NEW r \in Runs, ReadHead(r) PROVE Inv'
<1>1. /\ run' = [run EXCEPT ![r] = [Settled EXCEPT !.at = "load", !.head = head]]
      /\ UNCHANGED <<setup, node, gone, head, cache>>
  BY DEF ReadHead
<1>2. DOMAIN run = Runs /\ Len(node) \in Nat /\ head \in 0..Len(node) /\ Faithful(cache)
      /\ cache.head \in 0..Len(node)
  BY DEF Inv, HeadsOK, StoreOK, CacheOK, Live, Ids
<1>3. DOMAIN run' = Runs /\ \A q \in Runs \ {r} : run'[q] = run[q]
  BY <1>1, <1>2
<1>4. /\ DOMAIN run'[r] = RunFields
      /\ run'[r].at = "load" /\ run'[r].head = head
      /\ run'[r].seen.head = 0 /\ run'[r].seen.nodes = <<>>
  BY <1>1, <1>2 DEF Settled, RunFields
<1>5. Collected(r)'
  BY <1>4 DEF Collected
<1>6. Faithful(cache)' /\ Faithful(run[r].seen)'
  BY <1>1, <1>2, <1>4, SameStore DEF Faithful
<1> QED
  BY <1>1, <1>2, <1>3, <1>4, <1>5, <1>6, TurnMoves DEF Places0

LEMMA LoadCacheNext == ASSUME Inv, NEW r \in Runs, LoadCache(r) PROVE Inv'
<1>1. /\ run' = [run EXCEPT ![r].at = IF @ = "load" THEN "walk" ELSE "rewalk",
                            ![r].seen = cache]
      /\ UNCHANGED <<setup, node, gone, head, cache>>
  BY DEF LoadCache
<1>2. /\ DOMAIN run = Runs /\ DOMAIN run[r] = RunFields /\ run[r].head \in 0..Len(node)
      /\ Faithful(cache) /\ cache.head \in 0..Len(node)
  BY DEF Inv, HeadsOK, CacheOK
<1>3. DOMAIN run' = Runs /\ \A q \in Runs \ {r} : run'[q] = run[q]
  BY <1>1, <1>2
<1>4. /\ DOMAIN run'[r] = RunFields
      /\ run'[r].at \in {"walk", "rewalk"} /\ run'[r].head = run[r].head
      /\ run'[r].seen = cache
  BY <1>1, <1>2 DEF Settled, RunFields
<1>5. Collected(r)'
  BY <1>4 DEF Collected
<1>6. Faithful(cache)' /\ Faithful(run[r].seen)'
  BY <1>1, <1>2, <1>4, SameStore DEF Faithful
<1> QED
  BY <1>1, <1>2, <1>3, <1>4, <1>5, <1>6, TurnMoves DEF Places0

LEMMA StoreCacheNext == ASSUME Inv, NEW r \in Runs, StoreCache(r) PROVE Inv'
<1> DEFINE chain == Prompt(run[r].head, run[r].seen)
           request == IF run[r].at = "walk" THEN <<>> ELSE SanitizeMessages(NodesToMessages(chain))
<1>1. /\ cache' = [head |-> run[r].head, nodes |-> chain]
      /\ run' = [run EXCEPT ![r].at = IF @ = "walk" THEN "squeeze" ELSE "sent",
                            ![r].chain = chain,
                            ![r].request = request]
      /\ UNCHANGED <<setup, node, gone, head>>
  BY DEF StoreCache
<1>2. /\ DOMAIN run = Runs /\ DOMAIN run[r] = RunFields
      /\ run[r].head \in 0..Len(node) /\ run[r].seen.head \in 0..Len(node)
      /\ Faithful(run[r].seen)
  BY DEF Inv, HeadsOK, CacheOK
<1>3. run[r].head \in Live => chain = Chain(run[r].head)
  <2>1. PICK h, seen : h = run[r].head /\ seen = run[r].seen
    OBVIOUS
  <2>2. h \in Live => Prompt(h, seen) = Chain(h)
    BY <1>2, <2>1, StoreTable, PromptChain DEF Inv
  <2> QED
    BY <2>1, <2>2
<1> HIDE DEF chain, request
<1>4. DOMAIN run' = Runs /\ \A q \in Runs \ {r} : run'[q] = run[q]
  BY <1>1, <1>2
<1>5. /\ DOMAIN run'[r] = RunFields
      /\ run'[r].at \in {"squeeze", "sent"} /\ run'[r].head = run[r].head
      /\ run'[r].seen = run[r].seen /\ run'[r].chain = chain
  BY <1>1, <1>2 DEF Settled, RunFields
<1>6. Collected(r)'
  BY <1>1, <1>3, <1>5, SameStore DEF Collected
<1>7. Faithful(cache)' /\ Faithful(run[r].seen)'
  BY <1>1, <1>2, <1>3, <1>5, SameStore DEF Faithful
<1> QED
  BY <1>1, <1>2, <1>4, <1>5, <1>6, <1>7, TurnMoves DEF Places0

\* A step that only changes the request and the place, from and to places at
\* which the chain is in hand.
LEMMA RequestNext ==
  ASSUME Inv, NEW r \in Runs, UNCHANGED <<setup, node, gone, head, cache>>,
         DOMAIN run' = Runs, \A q \in Runs \ {r} : run'[q] = run[q],
         DOMAIN run'[r] = RunFields,
         run[r].at \in {"squeeze", "compact"}, run'[r].at \in {"compact", "sent"},
         run'[r].head = run[r].head, run'[r].seen = run[r].seen, run'[r].chain = run[r].chain
  PROVE  Inv'
<1>1. /\ run[r].head \in 0..Len(node) /\ run[r].seen.head \in 0..Len(node)
      /\ cache.head \in 0..Len(node) /\ Faithful(cache) /\ Faithful(run[r].seen) /\ Collected(r)
  BY DEF Inv, HeadsOK, CacheOK
<1>2. Collected(r)'
  BY <1>1, SameStore DEF Collected
<1>3. Faithful(cache)' /\ Faithful(run[r].seen)'
  BY <1>1, SameStore DEF Faithful
<1> QED
  BY <1>1, <1>2, <1>3, TurnMoves DEF Places0

LEMMA SqueezeNext == ASSUME Inv, NEW r \in Runs, Squeeze(r) PROVE Inv'
<1> DEFINE ms == CompressionHook(MicroCompact(SanitizeMessages(NodesToMessages(run[r].chain)), setup.keepLast))
<1>1. PICK actual \in {0, setup.window} :
        run' = [run EXCEPT ![r].at = IF NeedsCompaction(ms, actual) THEN "compact" ELSE "sent",
                           ![r].request = ms]
  BY DEF Squeeze
<1>2. run[r].at = "squeeze" /\ UNCHANGED <<setup, node, gone, head, cache>>
  BY DEF Squeeze
<1> HIDE DEF ms
<1>3. PICK place \in {"compact", "sent"} : run' = [run EXCEPT ![r].at = place, ![r].request = ms]
  BY <1>1
<1>4. DOMAIN run = Runs /\ DOMAIN run[r] = RunFields
  BY DEF Inv, HeadsOK
<1>5. DOMAIN run' = Runs /\ \A q \in Runs \ {r} : run'[q] = run[q]
  BY <1>3, <1>4
<1>6. /\ DOMAIN run'[r] = RunFields
      /\ run'[r].at \in {"compact", "sent"} /\ run'[r].head = run[r].head
      /\ run'[r].seen = run[r].seen /\ run'[r].chain = run[r].chain
  BY <1>3, <1>4 DEF Settled, RunFields
<1> QED
  BY <1>2, <1>5, <1>6, RequestNext

LEMMA CompactInMemoryNext == ASSUME Inv, NEW r \in Runs, CompactInMemory(r) PROVE Inv'
<1>1. run[r].at = "compact" /\ UNCHANGED <<setup, node, gone, head, cache>>
  BY DEF CompactInMemory
<1>2. PICK request : run' = [run EXCEPT ![r].at = "sent", ![r].compacted = TRUE, ![r].request = request]
  BY DEF CompactInMemory
<1>3. DOMAIN run = Runs /\ DOMAIN run[r] = RunFields
  BY DEF Inv, HeadsOK
<1>4. DOMAIN run' = Runs /\ \A q \in Runs \ {r} : run'[q] = run[q]
  BY <1>2, <1>3
<1>5. /\ DOMAIN run'[r] = RunFields
      /\ run'[r].at = "sent" /\ run'[r].head = run[r].head
      /\ run'[r].seen = run[r].seen /\ run'[r].chain = run[r].chain
  BY <1>2, <1>3 DEF Settled, RunFields
<1> QED
  BY <1>1, <1>4, <1>5, RequestNext

LEMMA EndTurnNext == ASSUME Inv, NEW r \in Runs, EndTurn(r) PROVE Inv'
<1>1. run' = [run EXCEPT ![r] = Settled] /\ UNCHANGED <<setup, node, gone, head, cache>>
  BY DEF EndTurn
<1>2. DOMAIN run = Runs /\ Len(node) \in Nat /\ Faithful(cache) /\ cache.head \in 0..Len(node)
  BY DEF Inv, HeadsOK, StoreOK, CacheOK
<1>3. DOMAIN run' = Runs /\ \A q \in Runs \ {r} : run'[q] = run[q]
  BY <1>1, <1>2
<1>4. run'[r] = Settled
  BY <1>1, <1>2
<1>5. /\ DOMAIN run'[r] = RunFields
      /\ run'[r].at = "idle" /\ run'[r].head = 0
      /\ run'[r].seen.head = 0 /\ run'[r].seen.nodes = <<>>
  BY <1>4 DEF Settled, RunFields
<1>6. Collected(r)'
  BY <1>5 DEF Collected
<1>7. Faithful(cache)' /\ Faithful(run[r].seen)'
  BY <1>1, <1>2, <1>5, SameStore DEF Faithful
<1> QED
  BY <1>1, <1>2, <1>3, <1>5, <1>6, <1>7, TurnMoves DEF Places0

----------------------------------------------------------------------------
\* CompactDAG.

\* The tail that is kept starts behind the first message, at the end at the latest.
LEMMA TailStartRange ==
  ASSUME NEW ms, NEW k \in Nat, Len(ms) \in Nat, k + 1 < Len(ms)
  PROVE  TailStart(ms, k) \in 2..Len(ms) + 1
<1> DEFINE start == Len(ms) - k + 1
           T == {i \in start..Len(ms) : ms[i].role # "tool"} \cup {Len(ms) + 1}
<1>1. start \in Nat /\ start >= 2
  OBVIOUS
<1>2. T \subseteq 2..Len(ms) + 1 /\ T \subseteq Nat /\ T # {}
  BY <1>1
<1>3. TailStart(ms, k) = Min(T)
  BY DEF TailStart, SnapTailStart
<1> HIDE DEF T
<1> QED
  BY <1>2, <1>3, MinElement

\* The rows of the new branch, which are added to n rows.
Stacked(rows, added, root, n) ==
  rows = [i \in DOMAIN added |-> [parent |-> IF i = 1 THEN root ELSE n + i - 1,
                                  message |-> added[i]]]

LEMMA CompactedRows ==
  ASSUME NEW added \in Seq(Content), NEW root \in Nat, NEW n \in Nat,
         NEW rows, Stacked(rows, added, root, n)
  PROVE  /\ rows \in Seq(Row) /\ Len(rows) = Len(added)
         /\ \A i \in 1..Len(added) : rows[i].parent = IF i = 1 THEN root ELSE n + i - 1
<1>1. DOMAIN added = 1..Len(added) /\ Len(added) \in Nat
  OBVIOUS
<1>2. ASSUME NEW i \in 1..Len(added)
      PROVE  [parent |-> IF i = 1 THEN root ELSE n + i - 1, message |-> added[i]] \in Row
  BY DEF Row
<1>3. rows = [i \in 1..Len(added) |-> [parent |-> IF i = 1 THEN root ELSE n + i - 1,
                                       message |-> added[i]]]
  BY <1>1 DEF Stacked
<1> QED
  BY <1>1, <1>2, <1>3

\* What is written is a summary and a part of the messages.
LEMMA CompactedMessages ==
  ASSUME NEW ms \in Seq(Content), NEW start \in 2..Len(ms) + 1
  PROVE  LET summary == Message("assistant", {Text("short", Covered(SubSeq(ms, 2, start - 1)))})
         IN /\ <<summary>> \o SubSeq(ms, start, Len(ms)) \in Seq(Content)
            /\ Len(<<summary>> \o SubSeq(ms, start, Len(ms))) >= 1
<1> DEFINE middle == SubSeq(ms, 2, start - 1)
           tail == SubSeq(ms, start, Len(ms))
           summary == Message("assistant", {Text("short", Covered(middle))})
<1>1. middle \in Seq(Content) /\ tail \in Seq(Content)
  OBVIOUS
<1> HIDE DEF middle, tail
<1>2. Covered(middle) \subseteq Nat
  <2> SUFFICES ASSUME NEW x \in Covered(middle) PROVE x \in Nat
    OBVIOUS
  <2>1. PICK i \in DOMAIN middle : \E b \in middle[i].blocks : x \in b.covers
    BY DEF Covered
  <2>2. middle[i] \in Content
    BY <1>1
  <2> QED
    BY <2>1, <2>2 DEF Content, Block
<1>3. summary \in Content
  BY <1>2 DEF Message, Text, Content, Block, Call, Roles, TextClasses
<1> HIDE DEF summary
<1>4. <<summary>> \o tail \in Seq(Content) /\ Len(<<summary>> \o tail) = 1 + Len(tail) /\ Len(tail) \in Nat
  BY <1>1, <1>3
<1> QED
  BY <1>4 DEF summary, tail, middle

\* The new rows stand on the first one of the chain and on one another.
LEMMA CompactedStore ==
  ASSUME Inv, NEW rows \in Seq(Row), Len(rows) >= 1, NEW root \in Live,
         node' = node \o rows, head' = Len(node) + Len(rows), UNCHANGED <<setup, gone>>,
         \A i \in 1..Len(rows) : rows[i].parent = IF i = 1 THEN root ELSE Len(node) + i - 1
  PROVE  StoreOK'
<1> DEFINE n == Len(node)
           m == Len(rows)
<1>1. /\ node \in Seq(Row) /\ Ids = 1..n /\ n \in Nat /\ m \in Nat
      /\ gone \subseteq Ids /\ root \in 1..n
  BY DEF Inv, StoreOK, Ids, Live
<1>2. /\ node' \in Seq(Row) /\ Len(node') = n + m /\ Ids' = 1..n + m
      /\ \A i \in 1..n : node'[i] = node[i]
      /\ \A i \in n + 1..n + m : node'[i] = rows[i - n]
  BY <1>1 DEF Ids
<1> HIDE DEF n, m
<1>3. Live' = Live \cup (n + 1..n + m) /\ Live' \subseteq Ids'
  BY <1>1, <1>2 DEF Live
<1>4. setup' \in Setups /\ gone' \subseteq Ids' /\ head' \in Live' \cup {0}
  BY <1>1, <1>2, <1>3 DEF Inv, StoreOK, n, m
<1>5. ASSUME NEW i \in Ids'
      PROVE  node'[i].parent \in 0..i - 1 /\ (i \in Live' => node'[i].parent \in Live' \cup {0})
  <2>1. CASE i \in Ids
    <3>1. node'[i] = node[i] /\ node[i].parent \in 0..i - 1
      BY <1>1, <1>2, <2>1 DEF Inv, StoreOK
    <3>2. i \in Live' => i \in Live
      BY <1>1, <1>3, <2>1
    <3>3. i \in Live => node[i].parent \in Live \cup {0}
      BY DEF Inv, StoreOK
    <3> QED
      BY <1>3, <3>1, <3>2, <3>3
  <2>2. CASE i \notin Ids
    <3>1. i \in n + 1..n + m
      BY <1>1, <1>2, <2>2
    <3>2. i - n \in 1..m /\ node'[i] = rows[i - n]
      BY <1>1, <1>2, <3>1
    <3>3. node'[i].parent = IF i - n = 1 THEN root ELSE n + (i - n) - 1
      BY <3>2 DEF n, m
    <3>4. CASE i - n = 1
      BY <1>1, <1>3, <3>1, <3>3, <3>4
    <3>5. CASE i - n # 1
      BY <1>1, <1>3, <3>1, <3>3, <3>5
    <3> QED
      BY <3>4, <3>5
  <2> QED
    BY <2>1, <2>2
<1> QED
  BY <1>2, <1>3, <1>4, <1>5 DEF StoreOK

LEMMA CompactDAGNext == ASSUME Inv, NEW r \in Runs, CompactDAG(r) PROVE Inv'
<1> DEFINE chain == Chain(head)
           ms == NodesToMessages(chain)
           start == TailStart(ms, setup.keepLast)
           summary == Message("assistant", {Text("short", Covered(SubSeq(ms, 2, start - 1)))})
           added == <<summary>> \o SubSeq(ms, start, Len(ms))
           n == Len(node)
           rows == [i \in DOMAIN added |-> [parent |-> IF i = 1 THEN chain[1] ELSE n + i - 1,
                                            message |-> added[i]]]
<1>1. run[r].at = "compact" /\ UNCHANGED <<setup, gone, cache>>
  BY DEF CompactDAG
<1>2. /\ DOMAIN run = Runs /\ DOMAIN run[r] = RunFields
      /\ run[r].seen.head \in 0..Len(node) /\ Faithful(run[r].seen)
      /\ cache.head \in 0..Len(node) /\ Faithful(cache)
      /\ head \in 0..Len(node) /\ n \in Nat /\ setup \in Setups
  BY DEF Inv, HeadsOK, CacheOK, StoreOK, Live, Ids
<1>3. CASE Len(ms) <= setup.keepLast + 1
  <2>1. /\ run' = [run EXCEPT ![r].at = "reload", ![r].head = head]
        /\ UNCHANGED <<node, head>>
    BY <1>3 DEF CompactDAG
  <2> HIDE DEF chain, ms, start, summary, added, rows
  <2>2. DOMAIN run' = Runs /\ \A q \in Runs \ {r} : run'[q] = run[q]
    BY <1>2, <2>1
  <2>3. /\ DOMAIN run'[r] = RunFields /\ run'[r].at = "reload"
        /\ run'[r].head = head /\ run'[r].seen = run[r].seen
    BY <1>2, <2>1 DEF Settled, RunFields
  <2>4. Collected(r)'
    BY <2>3 DEF Collected
  <2>5. Faithful(cache)' /\ Faithful(run[r].seen)'
    BY <1>1, <1>2, <2>1, <2>3, SameStore DEF Faithful
  <2> QED
    BY <1>1, <1>2, <2>1, <2>2, <2>3, <2>4, <2>5, TurnMoves DEF Places0
<1>4. CASE ~ (Len(ms) <= setup.keepLast + 1)
  <2>1. /\ node' = node \o rows
        /\ head' = n + Len(added)
        /\ run' = [run EXCEPT ![r].at = "reload", ![r].head = n + Len(added), ![r].compacted = TRUE]
    BY <1>4 DEF CompactDAG
  <2>2. ms \in Seq(Content) /\ chain \in Seq(Live) /\ Len(ms) = Len(chain) /\ Len(ms) \in Nat
    BY <1>2, ChainMessages DEF Inv
  <2> HIDE DEF chain, ms
  <2>3. setup.keepLast \in Nat
    BY <1>2, ContextAssumption
  <2>4. start \in 2..Len(ms) + 1 /\ chain[1] \in Live
    BY <1>4, <2>2, <2>3, TailStartRange
  <2> HIDE DEF start
  <2>5. added \in Seq(Content) /\ Len(added) >= 1
    BY <2>2, <2>4, CompactedMessages
  <2> HIDE DEF summary, added
  <2>6. PICK root : root = chain[1]
    OBVIOUS
  <2>7. root \in Live /\ root \in Nat /\ Len(added) \in Nat
    BY <2>4, <2>5, <2>6 DEF Live, Ids, Inv, StoreOK
  <2>8. /\ rows \in Seq(Row) /\ Len(rows) = Len(added)
        /\ \A i \in 1..Len(added) : rows[i].parent = IF i = 1 THEN root ELSE n + i - 1
    <3>1. Stacked(rows, added, root, n)
      BY <2>6 DEF Stacked
    <3> HIDE DEF rows
    <3> QED
      BY <1>2, <2>5, <2>7, <3>1, CompactedRows
  <2> HIDE DEF rows
  <2>9. StoreOK'
    BY <1>1, <2>1, <2>5, <2>7, <2>8, CompactedStore
  <2>10. Kept
    BY <1>1, <2>1, <2>8, <2>9, GrownKept DEF Inv
  <2>11. DOMAIN run' = Runs /\ \A q \in Runs \ {r} : run'[q] = run[q]
    BY <1>2, <2>1
  <2>12. /\ DOMAIN run'[r] = RunFields /\ run'[r].at = "reload"
         /\ run'[r].head = n + Len(added) /\ run'[r].seen = run[r].seen
    BY <1>2, <2>1 DEF Settled, RunFields
  <2>13. Collected(r)'
    BY <2>12 DEF Collected
  <2>14. Len(node') = n + Len(added)
    <3>1. node \in Seq(Row)
      BY DEF Inv, StoreOK
    <3>2. rows \in Seq(Row)
      BY <2>8
    <3>3. Len(node \o rows) = Len(node) + Len(rows)
      BY <3>1, <3>2
    <3>4. Len(rows) = Len(added) /\ node' = node \o rows
      BY <2>1, <2>8
    <3> QED
      BY <3>3, <3>4
  <2>15. FaithfulNext(cache') /\ FaithfulNext(run'[r].seen)
    BY <1>1, <1>2, <2>10, <2>12, FaithfulKept
  <2> QED
    BY <1>1, <1>2, <2>7, <2>9, <2>10, <2>11, <2>12, <2>13, <2>14, <2>15, RunMoves DEF Places0
<1> QED
  BY <1>3, <1>4

----------------------------------------------------------------------------
\* The theorems.

LEMMA NextInv == Inv /\ [Next]_vars => Inv'
<1> SUFFICES ASSUME Inv, [Next]_vars PROVE Inv'
  OBVIOUS
<1>1. CASE UNCHANGED vars
  <2>1. StoreOK' /\ Kept
    BY <1>1, StoreSame DEF vars, Inv
  <2> QED
    BY <1>1, <2>1, StoreMoves DEF vars
<1>2. ASSUME NEW r \in Active, Turn(r) PROVE Inv'
  BY <1>2, ReadHeadNext, LoadCacheNext, StoreCacheNext, SqueezeNext, CompactDAGNext,
     CompactInMemoryNext, EndTurnNext DEF Turn, Active
<1> QED
  BY <1>1, <1>2, GrowNext, MoveHeadNext, TakeBackNext DEF Next

LEMMA Invariance == Spec => []Inv
  BY InitInv, NextInv, PTL DEF Spec

\* What a run is about to send, as long as the head it has read is stored, is
\* the chain of that head: buildPrompt's result does not depend on what other
\* runs, commands or compactions do to the cache between its two critical
\* sections.
THEOREM PromptCorrect == Spec => []PromptIsChain
<1>1. Inv => PromptIsChain
  BY DEF Inv, PromptIsChain, Collected
<1> QED
  BY <1>1, Invariance, PTL

\* The rows of the store stay a forest of stored messages: a parent is older
\* than its replies and is not removed before them, the head is a row that is
\* stored, and neither adding, compacting nor taking back changes that.
Forest ==
  /\ head \in Live \cup {0}
  /\ \A n \in Live : node[n].parent < n /\ node[n].parent \in Live \cup {0}

THEOREM ForestKept == Spec => []Forest
<1>1. Inv => Forest
  BY DEF Inv, StoreOK, Forest, Live, Ids
<1> QED
  BY <1>1, Invariance, PTL
=============================================================================
