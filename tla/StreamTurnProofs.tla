-------------------------- MODULE StreamTurnProofs --------------------------
(***************************************************************************)
(* Theorems of StreamTurn, for any set of replies, any number of tools     *)
(* and places, buffer and number of attempts.                              *)
(*                                                                         *)
(* The frames of a reply that are still to come follow from those that     *)
(* were read (Wired), and the events a parser has sent, with the calls the *)
(* run has pending and the tools it has started, are those of the blocks   *)
(* the parser has kept (Feed, Fed).  So a tool that starts early is given  *)
(* the id, and from Anthropic and Gemini the arguments, of a block of the  *)
(* reply, and the answer, made of the same blocks, has its call.           *)
(***************************************************************************)
EXTENDS StreamTurn, SequenceTheorems, FiniteSetTheorems, WellFoundedInduction, TLAPS

\* A server gives the calls of one reply ids that differ.  Two calls of one id
\* share an entry of eagerResults (loop.go:981).
IdsDiffer ==
  \A s \in Setups : \A i, j \in DOMAIN s.reply.blocks :
    /\ IsCall(s.reply.blocks[i]) /\ IsCall(s.reply.blocks[j])
    /\ s.reply.blocks[i].id = s.reply.blocks[j].id
    => i = j

-----------------------------------------------------------------------------
\* The frames of a reply.

Stopping == {"end", "length"}
Opening == {"content_block_start", "tool_call", "item.added", "part"}
Deltas == {"content_block_delta", "arguments.delta"}
Bare(b) == [b EXCEPT !.args = "none"]

Opens(f) == IsCall(f.block) /\ f.type \in Opening

Legal(format, f) ==
  /\ f.index \in Int /\ IsBlock(f.block)
  /\ \/ f.type \in Stopping
     \/ format = "anthropic"
        /\ f.type \in {"content_block_start", "content_block_delta", "content_block_stop"}
     \/ format = "openai" /\ f.type = "part" /\ ~IsCall(f.block)
     \/ format = "openai" /\ f.type \in {"tool_call", "arguments"} /\ IsCall(f.block)
     \/ format = "responses" /\ f.type = "part" /\ ~IsCall(f.block)
     \/ format = "responses" /\ IsCall(f.block)
        /\ f.type \in {"item.added", "arguments.delta", "arguments.done", "item.done"}
     \/ format = "gemini" /\ f.type = "part"

\* g may come right after f.
Follows(format, f, g) ==
  LET same == g.block = f.block /\ g.index = f.index
      filled == ~IsCall(f.block) \/ f.block.args = "some"
  IN /\ f.type \notin Stopping
     /\ format = "anthropic" =>
          \/ f.type = "content_block_start" /\ filled /\ g.type = "content_block_delta" /\ same
          \/ f.type = "content_block_start" /\ ~filled /\ g.type = "content_block_stop" /\ same
          \/ f.type = "content_block_delta" /\ g.type = "content_block_stop" /\ same
          \/ f.type = "content_block_stop" /\ g.type = "content_block_start" /\ g.index = f.index + 1
          \/ f.type = "content_block_stop" /\ g.type \in Stopping
     /\ format = "responses" =>
          \/ f.type = "item.added" /\ filled /\ g.type = "arguments.delta" /\ same
          \/ f.type = "item.added" /\ ~filled /\ g.type = "item.done" /\ same
          \/ f.type = "arguments.delta" /\ g.type = "arguments.done" /\ same
          \/ f.type = "arguments.done" /\ g.type = "item.done" /\ same
          \/ f.type \in {"part", "item.done"} /\ g.type \in {"part", "item.added"} \cup Stopping

\* The frames left are legal, in an order that is, and announce each call once.
Wired(format, blocks, w) ==
  /\ IsSequence(w)
  /\ \A j \in DOMAIN w : Legal(format, w[j])
       /\ (w[j].type \notin Stopping => w[j].block \in Range(blocks))
  /\ w # <<>> => w[Len(w)].type \in Stopping
  /\ \A j \in 1..(Len(w) - 1) : Follows(format, w[j], w[j + 1])
  /\ \A j, k \in DOMAIN w :
       Opens(w[j]) /\ Opens(w[k]) /\ w[j].block.id = w[k].block.id => j = k

\* What the parser has made of the frames before f.
Expects(format, p, f) ==
  LET n == Len(p.blocks) IN
  /\ format = "anthropic" =>
       /\ f.type = "content_block_start" => f.index = n
       /\ f.type \in {"content_block_delta", "content_block_stop"} =>
            n > 0 /\ f.index + 1 = n /\ (IsCall(p.blocks[n]) <=> IsCall(f.block))
       /\ IsCall(f.block) /\ f.type = "content_block_delta" =>
            p.blocks[n] = Bare(f.block) /\ f.block.args = "some"
       /\ IsCall(f.block) /\ f.type = "content_block_stop" => p.blocks[n] = f.block
  /\ format = "responses" =>
       /\ f.type \in {"arguments.delta", "arguments.done", "item.done"} => n > 0
       /\ f.type = "arguments.delta" =>
            p.blocks[n] = Bare(f.block) /\ f.block.args = "some" /\ n \notin p.stopped
       /\ f.type \in {"arguments.done", "item.done"} => p.blocks[n] = f.block
       /\ f.type = "arguments.done" => n \notin p.stopped

Fields == {"kind", "id", "name", "args"}
Reasons == {"", "end", "length", "tool_use"}
Shaped(p) ==
  p = [blocks |-> p.blocks, text |-> p.text, thinking |-> p.thinking, stop |-> p.stop,
       stopped |-> p.stopped, saw |-> p.saw, closed |-> p.closed, events |-> p.events]
ParserOK(p) ==
  /\ Shaped(p)
  /\ p.text \in Nat /\ p.thinking \in Nat /\ p.closed \in BOOLEAN
  /\ p.stop \in Reasons
  /\ p.stopped \subseteq 0..Len(p.blocks)

\* The calls of the blocks: each once, and those of the reply but for one that
\* is being read.
Apart(blocks) ==
  \A q, r \in DOMAIN blocks :
    IsCall(blocks[q]) /\ IsCall(blocks[r]) /\ blocks[q].id = blocks[r].id => q = r
WholeBut(blocks, reply, n) ==
  \A q \in DOMAIN blocks : IsCall(blocks[q]) /\ q # n => blocks[q] \in Range(reply)
BeingRead(p, w) == IF w # <<>> /\ Head(w).type \in Deltas THEN Len(p.blocks) ELSE 0

Parsing(format, reply, p, w) ==
  /\ Wired(format, reply, w)
  /\ WholeBut(p.blocks, reply, BeingRead(p, w))
  /\ \A j \in DOMAIN w : Opens(w[j]) =>
       \A q \in DOMAIN p.blocks : IsCall(p.blocks[q]) => p.blocks[q].id # w[j].block.id
  /\ w # <<>> => Expects(format, p, Head(w))

-----------------------------------------------------------------------------
\* The events on their way, and what was made of those before.

Tooling == {"tool_use_start", "input_delta", "content_block_stop"}
Final == {"message_stop", "error"}
Has(ch, type, i) == \E x \in DOMAIN ch : ch[x].type = type /\ ch[x].index = i

\* The consumer knows of call b, whose events have index i, or will.
Told(b, i, ch, pend) ==
  /\ Has(ch, "tool_use_start", i) \/ i \in DOMAIN pend
  /\ b.args = "some" => Has(ch, "input_delta", i) \/ (i \in DOMAIN pend /\ pend[i].args = "some")

\* The block with index i is at place i + s.
PlacesOK(s, blocks, ch) ==
  \A x \in DOMAIN ch : ch[x].type \in Tooling => ch[x].index + s \in DOMAIN blocks
StartsOK(s, blocks, ch, pend, eag) ==
  \A x \in DOMAIN ch : ch[x].type = "tool_use_start" =>
    LET b == blocks[ch[x].index + s] IN
    /\ IsCall(b) /\ b.id = ch[x].id /\ b.name = ch[x].name
    /\ ch[x].index \notin DOMAIN pend /\ b.id \notin DOMAIN eag
DeltasOK(s, blocks, ch) ==
  \A x \in DOMAIN ch : ch[x].type = "input_delta" =>
    IsCall(blocks[ch[x].index + s]) /\ blocks[ch[x].index + s].args = "some"
StopsOK(s, blocks, reply, ch, pend, eag) ==
  \A x \in DOMAIN ch : ch[x].type = "content_block_stop" =>
    LET b == blocks[ch[x].index + s] IN
    IsCall(b) => b.id \notin DOMAIN eag /\ b \in Range(reply) /\ Told(b, ch[x].index, ch, pend)
InOrder(ch) ==
  \A x, y \in DOMAIN ch :
    x < y /\ ch[x].type \in Tooling /\ ch[y].type \in Tooling /\ ch[x].index = ch[y].index
    => /\ ch[x].type # "content_block_stop" /\ ch[y].type # "tool_use_start"
       /\ ~(ch[x].type = "input_delta" /\ ch[y].type = "input_delta")
PendingOK(s, blocks, pend, eag) ==
  \A i \in DOMAIN pend :
    LET b == blocks[i + s] IN
    /\ i \in Int /\ i + s \in DOMAIN blocks /\ IsCall(b) /\ b.id \notin DOMAIN eag
    /\ pend[i] = Call(b.id, b.name, pend[i].args) /\ pend[i].args \in {"none", "some"}
    /\ pend[i].args = "some" => b.args = "some"
EagerOK(blocks, eag, tl) ==
  \A d \in DOMAIN eag :
    /\ eag[d] \in DOMAIN tl
    /\ \E q \in DOMAIN blocks : IsCall(blocks[q]) /\ blocks[q].id = d /\ tl[eag[d]].call = blocks[q]
BlocksOK(blocks) ==
  /\ IsSequence(blocks)
  /\ \A q \in DOMAIN blocks : DOMAIN blocks[q] = Fields /\ (IsCall(blocks[q]) => IsBlock(blocks[q]))
  /\ Apart(blocks)

Feed(s, blocks, reply, ch, pend, eag, tl) ==
  /\ BlocksOK(blocks)
  /\ PlacesOK(s, blocks, ch) /\ StartsOK(s, blocks, ch, pend, eag)
  /\ DeltasOK(s, blocks, ch) /\ StopsOK(s, blocks, reply, ch, pend, eag) /\ InOrder(ch)
  /\ PendingOK(s, blocks, pend, eag) /\ EagerOK(blocks, eag, tl)

Shift(format) == IF format = "anthropic" THEN 1 ELSE 0

\* While the parser reads, the consumer is told of every call it has.
Fed(s, blocks, ch, pend, eag) ==
  \A q \in DOMAIN blocks :
    IsCall(blocks[q]) => blocks[q].id \in DOMAIN eag \/ Told(blocks[q], q - s, ch, pend)

\* Frame f belongs to a block that was not stopped.
Unstopped(p, f) ==
  \/ f.type \in {"content_block_delta", "content_block_stop"}
  \/ /\ f.type \in {"arguments.delta", "arguments.done", "item.done"}
     /\ Len(p.blocks) \notin p.stopped
Unsealed(s, blocks, ch, eag) ==
  /\ ~Has(ch, "content_block_stop", Len(blocks) - s)
  /\ IsCall(blocks[Len(blocks)]) => blocks[Len(blocks)].id \notin DOMAIN eag

\* While the parser reads.
Reading(format, reply, p, w, ch, pend, eag, tl) ==
  /\ Parsing(format, reply, p, w)
  /\ Feed(Shift(format), p.blocks, reply, ch, pend, eag, tl)
  /\ Fed(Shift(format), p.blocks, ch, pend, eag)
  /\ w # <<>> /\ Unstopped(p, Head(w)) => Unsealed(Shift(format), p.blocks, ch, eag)

Streaming(format, reply, p, w, ch, pend, eag, tl) ==
  IF format = "openai"
  THEN eag = NoCalls /\ p.stopped = {} /\ \A x \in DOMAIN ch : ch[x].type # "content_block_stop"
  ELSE /\ \E s \in 0..2 : Feed(s, p.blocks, reply, ch, pend, eag, tl)
       /\ ~p.closed => Reading(format, reply, p, w, ch, pend, eag, tl)
       /\ p.closed /\ format \in {"anthropic", "gemini"} /\ (\E x \in DOMAIN ch : ch[x].type = "message_stop")
            => WholeBut(p.blocks, reply, 0)

\* The last event of a stream.
Kinds == {"transient", "permanent"}
IsFinal(e) == IsEvent(e) /\ e.type \in Final /\ (e.type = "error" => e.name \in Kinds)

Going(format, reply, p, w, ch, pend, eag, tl) ==
  /\ IsSequence(w) /\ IsSequence(ch) /\ \A x \in DOMAIN ch : IsEvent(ch[x])
  /\ ParserOK(p)
  /\ ~p.closed => Wired(format, reply, w)
  /\ Streaming(format, reply, p, w, ch, pend, eag, tl)
  /\ \A x \in DOMAIN ch : ch[x].type \in Final => x = Len(ch) /\ p.closed /\ IsFinal(ch[x])

-----------------------------------------------------------------------------
Reply == setup.reply.blocks

StreamInv ==
  at = "read" =>
    /\ setup.streaming /\ err = "none"
    /\ Going(setup.format, Reply, parser, wire, channel, pending, eager, tool)
    /\ answer # NoAnswer => channel = <<>> /\ parser.closed
    /\ parser.closed /\ ~cancelled /\ answer = NoAnswer =>
         \E x \in DOMAIN channel : channel[x].type \in Final

\* Between streams nothing is on its way; a wait is for an attempt that is left.
AtRest ==
  /\ at # "read" => parser.closed /\ channel = <<>>
  /\ at = "backoff" => attempt < MaxAttempts

\* The tools at work are those the run will wait for.
Awaited ==
  /\ at \in {"ask", "backoff", "ended", "failed"} => \A k \in DOMAIN tool : ~Running(k)
  /\ at \in {"read", "drain"} => \A k \in DOMAIN tool : Running(k) => \E d \in DOMAIN eager : eager[d] = k
  /\ at \in {"finish", "sequence"} => \A k \in DOMAIN tool : Running(k) => k = inline
  /\ at \in {"ask", "backoff", "drain", "ended", "failed"} => inline = 0

\* Tools started early, each under its id.
Early ==
  /\ \A d, e \in DOMAIN eager : eager[d] = eager[e] => d = e
  /\ eager # NoCalls => setup.streaming /\ setup.format # "openai"
  /\ at \in {"sequence", "spawn"} => eager = NoCalls

\* What was started early is what the answer has.
Matched ==
  eager # NoCalls /\ at \in {"read", "drain", "finish", "ended"} =>
    /\ IsSequence(TheCalls)
    /\ \A i, j \in DOMAIN TheCalls : TheCalls[i].id = TheCalls[j].id => i = j
    /\ \A i \in DOMAIN TheCalls : TheCalls[i].id \in DOMAIN eager => tool[eager[TheCalls[i].id]].call = TheCalls[i]
    /\ ~cancelled /\ err = "none" /\ (answer # NoAnswer \/ at # "read") =>
         \A d \in DOMAIN eager : \E i \in DOMAIN TheCalls : TheCalls[i].id = d

\* What was recorded.
Kept ==
  /\ at \in {"ask", "backoff", "read", "drain"} => recorded = <<>>
  /\ at \in {"finish", "sequence", "spawn", "ended"} => err = "none"
  /\ \A i \in DOMAIN recorded :
       /\ tool[recorded[i]].call = TheCalls[i]
       /\ TheCalls[i].id \in DOMAIN eager => recorded[i] = eager[TheCalls[i].id]
       /\ TheCalls[i].id \notin DOMAIN eager => \A d \in DOMAIN eager : eager[d] # recorded[i]
       /\ \A j \in DOMAIN recorded : recorded[i] = recorded[j] => i = j
  /\ at = "ended" /\ TheCalls # <<>> /\ answer.stop # "length" => ~Unrecorded

\* In the first attempt every tool was started early or for a call of the answer.
AllKnown ==
  attempt = 1 =>
    /\ at = "ask" => tool = <<>> /\ eager = NoCalls
    /\ \A k \in DOMAIN tool :
         (\E d \in DOMAIN eager : eager[d] = k) \/ (\E i \in DOMAIN recorded : recorded[i] = k)

Exact == setup.format \in {"anthropic", "gemini"}
OwnArguments ==
  Exact => /\ \A k \in DOMAIN tool : tool[k].call \in Range(Reply)
           /\ at \in {"read", "drain", "finish", "sequence", "spawn"} =>
                IsSequence(TheCalls) /\ \A i \in DOMAIN TheCalls : TheCalls[i] \in Range(Reply)

TurnInv == TypeOK /\ StreamInv /\ AtRest /\ Awaited /\ Early /\ Matched /\ Kept /\ AllKnown
           /\ OwnArguments
-----------------------------------------------------------------------------
\* Induction over the numbers of a set.

LEMMA LessPairs ==
  \A x, y : <<x, y>> \in OpToRel(<, Nat) <=> x \in Nat /\ y \in Nat /\ x < y
  BY DEF OpToRel

\* A set of numbers has a least element.
LEMMA LeastElement ==
  ASSUME NEW T, T \subseteq Nat, T # {}
  PROVE  \E x \in T : \A y \in T : x <= y
<1>1. \E x \in T : \A y \in T : ~ (<<y, x>> \in OpToRel(<, Nat))
  BY NatLessThanWellFounded, WFMin
<1>2. PICK x \in T : \A y \in T : ~ (<<y, x>> \in OpToRel(<, Nat))
  BY <1>1
<1>3. ASSUME NEW y \in T PROVE ~ (y < x)
  <2>1. ~ (<<y, x>> \in OpToRel(<, Nat))
    BY <1>2
  <2>2. x \in Nat /\ y \in Nat
    BY Zenon
  <2> QED
    BY <2>1, <2>2, LessPairs, Zenon
<1>4. ASSUME NEW y \in T PROVE x <= y
  BY <1>3
<1> QED
  BY <1>4

\* Simple induction, for a set of numbers.
LEMMA StepInduction ==
  ASSUME NEW S, 0 \in S, \A n \in Nat : n \in S => n + 1 \in S
  PROVE  Nat \subseteq S
<1> DEFINE T == Nat \ S
<1>1. ASSUME T # {} PROVE FALSE
  <2>1. PICK x \in T : \A y \in T : x <= y
    BY <1>1, LeastElement
  <2>2. x # 0 /\ x - 1 \in Nat /\ x - 1 \notin T
    BY <2>1
  <2> QED
    BY <2>2
<1> QED
  BY <1>1

-----------------------------------------------------------------------------
\* ExtractToolCalls.

\* c holds the calls among the first n blocks, in their order.
CallsUpTo(blocks, n, c, place) ==
  /\ IsSequence(c) /\ place \in [DOMAIN c -> 1..n]
  /\ \A i \in DOMAIN c : IsCall(blocks[place[i]]) /\ c[i] = blocks[place[i]]
  /\ \A q \in 1..n : IsCall(blocks[q]) => \E i \in DOMAIN c : place[i] = q
  /\ \A i, j \in DOMAIN c : place[i] = place[j] => i = j

IsUpTo(blocks, f, n) ==
  f = [i \in 0..n |->
         IF i = 0 THEN <<>>
         ELSE IF IsCall(blocks[i]) THEN Append(f[i - 1], blocks[i]) ELSE f[i - 1]]

LEMMA UpToValue ==
  ASSUME NEW blocks, NEW f, NEW n \in Nat, IsUpTo(blocks, f, n), NEW i \in 0..n
  PROVE  f[i] = IF i = 0 THEN <<>>
                ELSE IF IsCall(blocks[i]) THEN Append(f[i - 1], blocks[i]) ELSE f[i - 1]
<1> DEFINE V(j) == IF j = 0 THEN <<>>
                   ELSE IF IsCall(blocks[j]) THEN Append(f[j - 1], blocks[j]) ELSE f[j - 1]
<1>1. f = [j \in 0..n |-> V(j)]
  BY Zenon DEF IsUpTo
<1> HIDE DEF V
<1>2. f[i] = V(i)
  BY <1>1
<1> QED
  BY <1>2 DEF V

LEMMA UpToExists ==
  ASSUME NEW blocks
  PROVE  \A n \in Nat : \E f : IsUpTo(blocks, f, n)
<1> DEFINE S == {n \in Nat : \E f : IsUpTo(blocks, f, n)}
<1>1. 0 \in S
  <2> DEFINE f == [i \in 0..0 |-> <<>>]
  <2>1. f = [i \in 0..0 |-> IF i = 0 THEN <<>>
                    ELSE IF IsCall(blocks[i]) THEN Append(f[i - 1], blocks[i]) ELSE f[i - 1]]
    OBVIOUS
  <2> QED
    BY <2>1 DEF IsUpTo
<1>2. ASSUME NEW n \in Nat, n \in S PROVE n + 1 \in S
  <2>1. PICK f : IsUpTo(blocks, f, n)
    BY <1>2
  <2> DEFINE g == [i \in 0..(n + 1) |->
                     IF i = n + 1 THEN IF IsCall(blocks[n + 1]) THEN Append(f[n], blocks[n + 1]) ELSE f[n]
                                  ELSE f[i]]
  <2>2. ASSUME NEW i \in 0..(n + 1)
        PROVE  g[i] = IF i = 0 THEN <<>>
                      ELSE IF IsCall(blocks[i]) THEN Append(g[i - 1], blocks[i]) ELSE g[i - 1]
    <3>1. CASE i = n + 1
      <4>1. g[i - 1] = f[n] /\ i # 0
        BY <3>1
      <4> QED
        BY <3>1, <4>1
    <3>2. CASE i # n + 1
      <4>1. i \in 0..n /\ g[i] = f[i] /\ (i # 0 => g[i - 1] = f[i - 1])
        BY <3>2
      <4>2. f[i] = IF i = 0 THEN <<>>
                   ELSE IF IsCall(blocks[i]) THEN Append(f[i - 1], blocks[i]) ELSE f[i - 1]
        BY <2>1, <4>1, UpToValue
      <4> HIDE DEF g
      <4> QED
        BY <4>1, <4>2
    <3> QED
      BY <3>1, <3>2
  <2>3. g = [i \in 0..(n + 1) |-> g[i]]
    OBVIOUS
  <2> HIDE DEF g
  <2>4. IsUpTo(blocks, g, n + 1)
    BY <2>2, <2>3 DEF IsUpTo
  <2> QED
    BY <2>4
<1>3. Nat \subseteq S
  <2> HIDE DEF S
  <2> QED BY <1>1, <1>2, StepInduction
<1> QED
  BY <1>3

LEMMA UpToCalls ==
  ASSUME NEW blocks, IsSequence(blocks), NEW f, IsUpTo(blocks, f, Len(blocks))
  PROVE  \A n \in 0..Len(blocks) : \E place : CallsUpTo(blocks, n, f[n], place)
<1> DEFINE S == {n \in Nat : n <= Len(blocks) => \E place : CallsUpTo(blocks, n, f[n], place)}
<1>0. Len(blocks) \in Nat
  BY DEF IsSequence
<1>1. 0 \in S
  <2>1. f[0] = <<>>
    BY <1>0, UpToValue
  <2>2. CallsUpTo(blocks, 0, <<>>, <<>>)
    BY DEF CallsUpTo, IsSequence
  <2> QED
    BY <2>1, <2>2
<1>2. ASSUME NEW n \in Nat, n \in S PROVE n + 1 \in S
  <2> SUFFICES ASSUME n + 1 <= Len(blocks)
               PROVE  \E place : CallsUpTo(blocks, n + 1, f[n + 1], place)
    OBVIOUS
  <2>1. PICK place : CallsUpTo(blocks, n, f[n], place)
    BY <1>2, <1>0
  <2>2. f[n + 1] = IF IsCall(blocks[n + 1]) THEN Append(f[n], blocks[n + 1]) ELSE f[n]
    BY <1>0, UpToValue
  <2> DEFINE c == f[n]
  <2> HIDE DEF c
  <2>3. CASE ~IsCall(blocks[n + 1])
    <3>1. CallsUpTo(blocks, n + 1, c, place)
      BY <2>1, <2>3 DEF CallsUpTo, c
    <3> QED
      BY <2>2, <2>3, <3>1 DEF c
  <2>4. CASE IsCall(blocks[n + 1])
    <3> DEFINE a == Append(c, blocks[n + 1])
               new == [i \in DOMAIN a |-> IF i = Len(c) + 1 THEN n + 1 ELSE place[i]]
    <3>1. IsSequence(c) /\ place \in [DOMAIN c -> 1..n] /\ Len(c) \in Nat /\ DOMAIN c = 1..Len(c)
      BY <2>1 DEF CallsUpTo, c, IsSequence
    <3>2. a \in Seq(Range(c) \cup {blocks[n + 1]})
      BY <3>1 DEF IsSequence
    <3>3. DOMAIN a = 1..(Len(c) + 1)
      BY <3>1 DEF IsSequence
    <3>4. \A i \in DOMAIN a : a[i] = IF i = Len(c) + 1 THEN blocks[n + 1] ELSE c[i]
      BY <3>1 DEF IsSequence
    <3>5. IsSequence(a)
      BY <3>2, SeqOfRange DEF IsSequence
    <3> HIDE DEF a
    <3>6. new \in [DOMAIN a -> 1..(n + 1)]
      BY <3>1, <3>3
    <3>7. \A i \in DOMAIN a : IsCall(blocks[new[i]]) /\ a[i] = blocks[new[i]]
      BY <2>1, <2>4, <3>1, <3>3, <3>4 DEF CallsUpTo, c
    <3>8. \A q \in 1..(n + 1) : IsCall(blocks[q]) => \E i \in DOMAIN a : new[i] = q
      <4>1. new[Len(c) + 1] = n + 1 /\ Len(c) + 1 \in DOMAIN a
        BY <3>1, <3>3
      <4>2. ASSUME NEW q \in 1..n, IsCall(blocks[q]) PROVE \E i \in DOMAIN a : new[i] = q
        <5>1. PICK i \in DOMAIN c : place[i] = q
          BY <2>1, <4>2 DEF CallsUpTo, c
        <5> QED
          BY <3>1, <3>3, <5>1
      <4> QED
        BY <4>1, <4>2
    <3>9. \A i, j \in DOMAIN a : new[i] = new[j] => i = j
      BY <2>1, <3>1, <3>3 DEF CallsUpTo, c
    <3>10. CallsUpTo(blocks, n + 1, a, new)
      <4> HIDE DEF new
      <4> QED BY <3>5, <3>6, <3>7, <3>8, <3>9 DEF CallsUpTo
    <3> QED
      BY <2>2, <2>4, <3>10 DEF a, c
  <2> QED
    BY <2>3, <2>4
<1>3. Nat \subseteq S
  <2> HIDE DEF S
  <2> QED BY <1>1, <1>2, StepInduction
<1> QED
  BY <1>0, <1>3

\* The calls of an answer are the blocks that are calls, each once.
LEMMA CallsOf ==
  ASSUME NEW blocks, IsSequence(blocks)
  PROVE  \E place : CallsUpTo(blocks, Len(blocks), Calls(blocks), place)
<1> DEFINE F == CHOOSE f : f = [i \in 0..Len(blocks) |->
         IF i = 0 THEN <<>>
         ELSE IF IsCall(blocks[i]) THEN Append(f[i - 1], blocks[i]) ELSE f[i - 1]]
<1>0. Len(blocks) \in Nat
  BY DEF IsSequence
<1>1. IsUpTo(blocks, F, Len(blocks))
  <2>1. \E f : f = [i \in 0..Len(blocks) |->
         IF i = 0 THEN <<>>
         ELSE IF IsCall(blocks[i]) THEN Append(f[i - 1], blocks[i]) ELSE f[i - 1]]
    BY <1>0, UpToExists DEF IsUpTo
  <2> QED
    BY <2>1 DEF IsUpTo
<1>2. Calls(blocks) = F[Len(blocks)]
  BY DEF Calls
<1> HIDE DEF F
<1> QED
  BY <1>0, <1>1, <1>2, UpToCalls

-----------------------------------------------------------------------------
\* FlattenSeq.

\* F is the concatenation of the first n sequences of S: its place j holds the
\* element col[j] of the sequence row[j].
Flat(S, X, n, F, row, col) ==
  /\ F \in Seq(X) /\ Len(F) > 0
  /\ row \in [DOMAIN F -> 1..n] /\ col \in [DOMAIN F -> Nat]
  /\ \A j \in DOMAIN F : col[j] \in 1..Len(S[row[j]]) /\ F[j] = S[row[j]][col[j]]
  /\ \A j, k \in DOMAIN F : j < k => row[j] < row[k] \/ (row[j] = row[k] /\ col[j] < col[k])
  /\ \A j \in 1..(Len(F) - 1) :
       \/ col[j] < Len(S[row[j]]) /\ row[j + 1] = row[j] /\ col[j + 1] = col[j] + 1
       \/ col[j] = Len(S[row[j]]) /\ row[j + 1] = row[j] + 1 /\ col[j + 1] = 1
  /\ row[1] = 1 /\ col[1] = 1
  /\ row[Len(F)] = n /\ col[Len(F)] = Len(S[n])

IsFlatten(S, f, n) ==
  f = [i \in 1..n |-> IF i = 1 THEN S[i] ELSE f[i - 1] \o S[i]]

LEMMA FlattenValue ==
  ASSUME NEW S, NEW f, NEW n \in Nat, IsFlatten(S, f, n), NEW i \in 1..n
  PROVE  f[i] = IF i = 1 THEN S[i] ELSE f[i - 1] \o S[i]
<1> DEFINE V(j) == IF j = 1 THEN S[j] ELSE f[j - 1] \o S[j]
<1>1. f = [j \in 1..n |-> V(j)]
  BY Zenon DEF IsFlatten
<1> HIDE DEF V
<1>2. f[i] = V(i)
  BY <1>1
<1> QED
  BY <1>2 DEF V

LEMMA FlattenExists ==
  ASSUME NEW S
  PROVE  \A n \in Nat : \E f : IsFlatten(S, f, n)
<1> DEFINE T == {n \in Nat : \E f : IsFlatten(S, f, n)}
<1>1. 0 \in T
  <2> DEFINE f == [i \in 1..0 |-> <<>>]
  <2>1. f = [i \in 1..0 |-> IF i = 1 THEN S[i] ELSE f[i - 1] \o S[i]]
    OBVIOUS
  <2> QED
    BY <2>1 DEF IsFlatten
<1>2. ASSUME NEW n \in Nat, n \in T PROVE n + 1 \in T
  <2>1. PICK f : IsFlatten(S, f, n)
    BY <1>2
  <2> DEFINE g == [i \in 1..(n + 1) |->
                     IF i = n + 1 THEN IF n = 0 THEN S[1] ELSE f[n] \o S[n + 1] ELSE f[i]]
  <2>2. ASSUME NEW i \in 1..(n + 1)
        PROVE  g[i] = IF i = 1 THEN S[i] ELSE g[i - 1] \o S[i]
    <3>1. CASE i = n + 1
      <4>1. n # 0 => g[i - 1] = f[n] /\ i # 1
        BY <3>1
      <4> QED
        BY <3>1, <4>1
    <3>2. CASE i # n + 1
      <4>1. i \in 1..n /\ g[i] = f[i] /\ (i # 1 => g[i - 1] = f[i - 1])
        BY <3>2
      <4>2. f[i] = IF i = 1 THEN S[i] ELSE f[i - 1] \o S[i]
        BY <2>1, <4>1, FlattenValue
      <4> HIDE DEF g
      <4> QED
        BY <4>1, <4>2
    <3> QED
      BY <3>1, <3>2
  <2>3. g = [i \in 1..(n + 1) |-> g[i]]
    OBVIOUS
  <2> HIDE DEF g
  <2>4. IsFlatten(S, g, n + 1)
    BY <2>2, <2>3 DEF IsFlatten
  <2> QED
    BY <2>4
<1>3. Nat \subseteq T
  <2> HIDE DEF T
  <2> QED BY <1>1, <1>2, StepInduction
<1> QED
  BY <1>3

\* One more sequence.
LEMMA FlatNext ==
  ASSUME NEW X, NEW S \in Seq(Seq(X)), \A i \in DOMAIN S : Len(S[i]) > 0,
         NEW n \in Nat, n + 1 \in DOMAIN S, n > 0,
         NEW F, NEW row, NEW col, Flat(S, X, n, F, row, col)
  PROVE  \E r, c : Flat(S, X, n + 1, F \o S[n + 1], r, c)
<1> DEFINE G == S[n + 1]
           H == F \o G
           l == Len(F)
           r == [j \in DOMAIN H |-> IF j <= l THEN row[j] ELSE n + 1]
           c == [j \in DOMAIN H |-> IF j <= l THEN col[j] ELSE j - l]
<1>1. G \in Seq(X) /\ Len(G) \in Nat /\ Len(G) > 0 /\ DOMAIN G = 1..Len(G)
  OBVIOUS
<1>2. F \in Seq(X) /\ l \in Nat /\ l > 0 /\ DOMAIN F = 1..l
  BY DEF Flat
<1>3. H \in Seq(X) /\ Len(H) = l + Len(G) /\ DOMAIN H = 1..(l + Len(G))
  BY <1>1, <1>2
<1>4. \A j \in DOMAIN H : H[j] = IF j <= l THEN F[j] ELSE G[j - l]
  BY <1>1, <1>2, ConcatProperties
<1> HIDE DEF H, l
<1>5. /\ r \in [DOMAIN H -> 1..(n + 1)] /\ c \in [DOMAIN H -> Nat]
      /\ \A j \in DOMAIN H : c[j] \in 1..Len(S[r[j]]) /\ H[j] = S[r[j]][c[j]]
  <2>1. ASSUME NEW j \in DOMAIN H
        PROVE  r[j] \in 1..(n + 1) /\ c[j] \in Nat /\ c[j] \in 1..Len(S[r[j]]) /\ H[j] = S[r[j]][c[j]]
    <3>1. CASE j <= l
      <4>1. j \in DOMAIN F /\ r[j] = row[j] /\ c[j] = col[j] /\ H[j] = F[j]
        BY <1>2, <1>3, <1>4, <3>1
      <4>2. row[j] \in 1..n /\ col[j] \in Nat /\ col[j] \in 1..Len(S[row[j]]) /\ F[j] = S[row[j]][col[j]]
        BY <4>1 DEF Flat
      <4> QED
        BY <4>1, <4>2
    <3>2. CASE ~(j <= l)
      <4>1. j - l \in 1..Len(G) /\ r[j] = n + 1 /\ c[j] = j - l /\ H[j] = G[j - l]
        BY <1>1, <1>2, <1>3, <1>4, <3>2
      <4> QED
        BY <4>1
    <3> QED
      BY <3>1, <3>2
  <2> QED
    BY <2>1
<1>6. ASSUME NEW j \in DOMAIN H PROVE c[j] \in 1..Len(S[r[j]]) /\ H[j] = S[r[j]][c[j]]
  BY <1>5
<1>7. ASSUME NEW j \in DOMAIN H, NEW k \in DOMAIN H, j < k
      PROVE  r[j] < r[k] \/ (r[j] = r[k] /\ c[j] < c[k])
  BY <1>1, <1>2, <1>3, <1>7 DEF Flat
<1>8. ASSUME NEW j \in 1..(Len(H) - 1)
      PROVE  \/ c[j] < Len(S[r[j]]) /\ r[j + 1] = r[j] /\ c[j + 1] = c[j] + 1
             \/ c[j] = Len(S[r[j]]) /\ r[j + 1] = r[j] + 1 /\ c[j + 1] = 1
  <2>1. j \in DOMAIN H /\ j + 1 \in DOMAIN H
    BY <1>1, <1>2, <1>3
  <2>2. CASE j < l
    <3>1. r[j] = row[j] /\ c[j] = col[j] /\ r[j + 1] = row[j + 1] /\ c[j + 1] = col[j + 1]
      BY <1>2, <2>1, <2>2
    <3>2. j \in 1..(Len(F) - 1)
      BY <1>2, <2>2 DEF l
    <3>3. \/ col[j] < Len(S[row[j]]) /\ row[j + 1] = row[j] /\ col[j + 1] = col[j] + 1
          \/ col[j] = Len(S[row[j]]) /\ row[j + 1] = row[j] + 1 /\ col[j + 1] = 1
      BY <3>2 DEF Flat
    <3> HIDE DEF r, c
    <3> QED
      BY <3>1, <3>3
  <2>3. CASE j = l
    <3>1. r[j] = n /\ c[j] = Len(S[n]) /\ r[j + 1] = n + 1 /\ c[j + 1] = 1
      BY <1>2, <2>1, <2>3 DEF Flat, l
    <3> HIDE DEF r, c
    <3> QED
      BY <3>1
  <2>4. CASE j > l
    <3>1. r[j] = n + 1 /\ c[j] = j - l /\ r[j + 1] = n + 1 /\ c[j + 1] = j + 1 - l
      BY <1>2, <2>1, <2>4
    <3>2. j - l < Len(G)
      BY <1>1, <1>2, <1>3
    <3> HIDE DEF r, c
    <3> QED
      BY <1>2, <3>1, <3>2
  <2> QED
    BY <1>2, <2>2, <2>3, <2>4
<1>9. r[1] = 1 /\ c[1] = 1
  BY <1>1, <1>2, <1>3 DEF Flat
<1>10. r[Len(H)] = n + 1 /\ c[Len(H)] = Len(S[n + 1])
  BY <1>1, <1>2, <1>3
<1>11. Len(H) > 0
  BY <1>1, <1>2, <1>3
<1> HIDE DEF r, c
<1>12. Flat(S, X, n + 1, H, r, c)
  BY <1>3, <1>5, <1>6, <1>7, <1>8, <1>9, <1>10, <1>11 DEF Flat
<1> QED
  BY <1>12 DEF H

LEMMA FlattenFlat ==
  ASSUME NEW X, NEW S \in Seq(Seq(X)), \A i \in DOMAIN S : Len(S[i]) > 0, Len(S) > 0
  PROVE  \E row, col : Flat(S, X, Len(S), FlattenSeq(S), row, col)
<1> DEFINE f == CHOOSE g : g = [i \in 1..Len(S) |-> IF i = 1 THEN S[i] ELSE g[i - 1] \o S[i]]
<1>0. Len(S) \in Nat /\ DOMAIN S = 1..Len(S)
  OBVIOUS
<1>1. IsFlatten(S, f, Len(S))
  <2>1. \E g : g = [i \in 1..Len(S) |-> IF i = 1 THEN S[i] ELSE g[i - 1] \o S[i]]
    BY <1>0, FlattenExists DEF IsFlatten
  <2> QED
    BY <2>1 DEF IsFlatten
<1>2. FlattenSeq(S) = f[Len(S)]
  BY DEF FlattenSeq
<1> HIDE DEF f
<1> DEFINE T == {n \in Nat : n + 1 <= Len(S) => \E row, col : Flat(S, X, n + 1, f[n + 1], row, col)}
<1>3. 0 \in T
  <2> DEFINE row == [j \in DOMAIN S[1] |-> 1]
             col == [j \in DOMAIN S[1] |-> j]
  <2>1. f[1] = S[1]
    BY <1>0, <1>1, FlattenValue
  <2>2. S[1] \in Seq(X) /\ Len(S[1]) \in Nat /\ Len(S[1]) > 0 /\ DOMAIN S[1] = 1..Len(S[1])
    BY <1>0
  <2> DEFINE F == S[1]
  <2>3. F \in Seq(X) /\ Len(F) \in Nat /\ Len(F) > 0 /\ DOMAIN F = 1..Len(F)
    BY <2>2
  <2>4. /\ row \in [DOMAIN F -> 1..1] /\ col \in [DOMAIN F -> Nat]
        /\ \A j \in DOMAIN F : row[j] = 1 /\ col[j] = j
    BY <2>3
  <2>5. Len(S[1]) = Len(F) /\ \A j : F[j] = S[1][j]
    OBVIOUS
  <2> HIDE DEF F, row, col
  <2>6. \A j \in DOMAIN F : col[j] \in 1..Len(S[row[j]]) /\ F[j] = S[row[j]][col[j]]
    BY <2>3, <2>4, <2>5
  <2>7. \A j, k \in DOMAIN F : j < k => row[j] < row[k] \/ (row[j] = row[k] /\ col[j] < col[k])
    BY <2>4
  <2>8. ASSUME NEW j \in 1..(Len(F) - 1)
        PROVE  col[j] < Len(S[row[j]]) /\ row[j + 1] = row[j] /\ col[j + 1] = col[j] + 1
    <3>1. j \in DOMAIN F /\ j + 1 \in DOMAIN F /\ j < Len(F)
      BY <2>3
    <3> QED
      BY <2>4, <2>5, <3>1
  <2>9. row[1] = 1 /\ col[1] = 1 /\ row[Len(F)] = 1 /\ col[Len(F)] = Len(S[1])
    <3>1. PICK m \in Nat : m = Len(F)
      BY <2>3
    <3>2. m > 0 /\ m \in DOMAIN F /\ 1 \in DOMAIN F
      BY <2>3, <3>1
    <3>3. row[1] = 1 /\ col[1] = 1 /\ row[m] = 1 /\ col[m] = m
      BY <2>4, <3>2
    <3> QED
      BY <2>5, <3>1, <3>3
  <2>10. Flat(S, X, 1, F, row, col)
    BY <2>3, <2>4, <2>6, <2>7, <2>8, <2>9 DEF Flat
  <2> QED
    BY <2>1, <2>10 DEF F
<1>4. ASSUME NEW n \in Nat, n \in T PROVE n + 1 \in T
  <2> SUFFICES ASSUME n + 2 <= Len(S) PROVE \E row, col : Flat(S, X, n + 2, f[n + 2], row, col)
    OBVIOUS
  <2>1. PICK row, col : Flat(S, X, n + 1, f[n + 1], row, col)
    BY <1>4, <1>0
  <2>2. f[n + 2] = f[n + 1] \o S[n + 2]
    <3>1. f[n + 2] = IF n + 2 = 1 THEN S[n + 2] ELSE f[n + 2 - 1] \o S[n + 2]
      <4>1. n + 2 \in 1..Len(S) /\ Len(S) \in Nat
        BY <1>0
      <4> QED
        BY <1>1, <4>1, FlattenValue
    <3>2. n + 2 # 1 /\ n + 2 - 1 = n + 1
      OBVIOUS
    <3> QED
      BY <3>1, <3>2, Zenon
  <2> DEFINE m == n + 1
  <2>3. m \in Nat /\ m + 1 \in DOMAIN S /\ m > 0 /\ m + 1 = n + 2
    BY <1>0
  <2>4. Flat(S, X, m, f[m], row, col)
    BY <2>1
  <2> HIDE DEF m
  <2>5. \E r, c : Flat(S, X, m + 1, f[m] \o S[m + 1], r, c)
    BY <2>3, <2>4, FlatNext
  <2> QED
    BY <2>2, <2>3, <2>5 DEF m
<1>5. Nat \subseteq T
  <2> HIDE DEF T
  <2> QED BY <1>3, <1>4, StepInduction
<1> QED
  <2> DEFINE n == Len(S) - 1
  <2>1. n \in Nat /\ n + 1 = Len(S) /\ n + 1 <= Len(S)
    BY <1>0
  <2>2. \E row, col : Flat(S, X, n + 1, f[n + 1], row, col)
    <3> HIDE DEF n
    <3> QED BY <1>5, <2>1
  <2> HIDE DEF n
  <2> QED
    BY <1>2, <2>1, <2>2, Zenon

-----------------------------------------------------------------------------
\* The frames of a reply are legal, in order, and announce each call once.

LEMMA Pair ==
  ASSUME NEW a, NEW b
  PROVE  <<a>> \o <<b>> = <<a, b>>
<1> DEFINE X == {a, b}
           s == <<a>>
           t == <<b>>
           u == <<a, b>>
<1>1. s \in Seq(X) /\ Len(s) = 1 /\ s[1] = a
  OBVIOUS
<1>2. t \in Seq(X) /\ Len(t) = 1 /\ t[1] = b
  OBVIOUS
<1>3. u \in Seq(X) /\ Len(u) = 2 /\ u[1] = a /\ u[2] = b
  OBVIOUS
<1>4. s \o t \in Seq(X) /\ Len(s \o t) = 2
  BY <1>1, <1>2, ConcatProperties
<1>5. \A i \in 1..2 : (s \o t)[i] = IF i <= 1 THEN s[i] ELSE t[i - 1]
  BY <1>1, <1>2, ConcatProperties
<1>9. (s \o t)[1] = a /\ (s \o t)[2] = b
  BY <1>1, <1>2, <1>5
<1>6. \A i \in 1..2 : i = 1 \/ i = 2
  OBVIOUS
<1> HIDE DEF X, s, t, u
<1>7. \A i \in 1..2 : (s \o t)[i] = u[i]
  BY <1>3, <1>6, <1>9
<1>8. s \o t = u
  BY <1>3, <1>4, <1>7, SeqEqual
<1> QED
  BY <1>8 DEF s, t, u

LEMMA Triple ==
  ASSUME NEW a, NEW b, NEW c
  PROVE  <<a, b>> \o <<c>> = <<a, b, c>>
<1> DEFINE X == {a, b, c}
           s == <<a, b>>
           t == <<c>>
           u == <<a, b, c>>
<1>1. s \in Seq(X) /\ Len(s) = 2 /\ s[1] = a /\ s[2] = b
  OBVIOUS
<1>2. t \in Seq(X) /\ Len(t) = 1 /\ t[1] = c
  OBVIOUS
<1>3. u \in Seq(X) /\ Len(u) = 3 /\ u[1] = a /\ u[2] = b /\ u[3] = c
  OBVIOUS
<1>4. s \o t \in Seq(X) /\ Len(s \o t) = 3
  BY <1>1, <1>2, ConcatProperties
<1>5. \A i \in 1..3 : (s \o t)[i] = IF i <= 2 THEN s[i] ELSE t[i - 2]
  BY <1>1, <1>2, ConcatProperties
<1>9. (s \o t)[1] = a /\ (s \o t)[2] = b /\ (s \o t)[3] = c
  BY <1>1, <1>2, <1>5
<1>6. \A i \in 1..3 : i = 1 \/ i = 2 \/ i = 3
  OBVIOUS
<1> HIDE DEF X, s, t, u
<1>7. \A i \in 1..3 : (s \o t)[i] = u[i]
  BY <1>3, <1>6, <1>9
<1>8. s \o t = u
  BY <1>3, <1>4, <1>7, SeqEqual
<1> QED
  BY <1>8 DEF s, t, u

LEMMA OneAndTwo ==
  ASSUME NEW a, NEW b, NEW c
  PROVE  <<a>> \o <<b, c>> = <<a, b, c>>
<1> DEFINE X == {a, b, c}
           s == <<a>>
           t == <<b, c>>
           u == <<a, b, c>>
<1>1. s \in Seq(X) /\ Len(s) = 1 /\ s[1] = a
  OBVIOUS
<1>2. t \in Seq(X) /\ Len(t) = 2 /\ t[1] = b /\ t[2] = c
  OBVIOUS
<1>3. u \in Seq(X) /\ Len(u) = 3 /\ u[1] = a /\ u[2] = b /\ u[3] = c
  OBVIOUS
<1>4. s \o t \in Seq(X) /\ Len(s \o t) = 3
  BY <1>1, <1>2, ConcatProperties
<1>5. \A i \in 1..3 : (s \o t)[i] = IF i <= 1 THEN s[i] ELSE t[i - 1]
  BY <1>1, <1>2, ConcatProperties
<1>9. (s \o t)[1] = a /\ (s \o t)[2] = b /\ (s \o t)[3] = c
  BY <1>1, <1>2, <1>5
<1>6. \A i \in 1..3 : i = 1 \/ i = 2 \/ i = 3
  OBVIOUS
<1> HIDE DEF X, s, t, u
<1>7. \A i \in 1..3 : (s \o t)[i] = u[i]
  BY <1>3, <1>6, <1>9
<1>8. s \o t = u
  BY <1>3, <1>4, <1>7, SeqEqual
<1> QED
  BY <1>8 DEF s, t, u

LEMMA Quadruple ==
  ASSUME NEW a, NEW b, NEW c, NEW d
  PROVE  <<a, b, c>> \o <<d>> = <<a, b, c, d>>
<1> DEFINE X == {a, b, c, d}
           s == <<a, b, c>>
           t == <<d>>
           u == <<a, b, c, d>>
<1>1. s \in Seq(X) /\ Len(s) = 3 /\ s[1] = a /\ s[2] = b /\ s[3] = c
  OBVIOUS
<1>2. t \in Seq(X) /\ Len(t) = 1 /\ t[1] = d
  OBVIOUS
<1>3. u \in Seq(X) /\ Len(u) = 4 /\ u[1] = a /\ u[2] = b /\ u[3] = c /\ u[4] = d
  OBVIOUS
<1>4. s \o t \in Seq(X) /\ Len(s \o t) = 4
  BY <1>1, <1>2, ConcatProperties
<1>5. \A i \in 1..4 : (s \o t)[i] = IF i <= 3 THEN s[i] ELSE t[i - 3]
  BY <1>1, <1>2, ConcatProperties
<1>9. (s \o t)[1] = a /\ (s \o t)[2] = b /\ (s \o t)[3] = c /\ (s \o t)[4] = d
  BY <1>1, <1>2, <1>5
<1>6. \A i \in 1..4 : i = 1 \/ i = 2 \/ i = 3 \/ i = 4
  OBVIOUS
<1> HIDE DEF X, s, t, u
<1>7. \A i \in 1..4 : (s \o t)[i] = u[i]
  BY <1>3, <1>6, <1>9
<1>8. s \o t = u
  BY <1>3, <1>4, <1>7, SeqEqual
<1> QED
  BY <1>8 DEF s, t, u

\* What is known of the frames of the block at place i.
Row(format, blocks, i, r) ==
  /\ IsSequence(r) /\ Len(r) > 0
  /\ \A m \in 1..Len(r) : /\ Legal(format, r[m]) /\ r[m].block = blocks[i]
                          /\ r[m].type \notin Stopping
                          /\ Opens(r[m]) => m = 1
  /\ \A m \in 1..(Len(r) - 1) : Follows(format, r[m], r[m + 1])
  /\ format = "anthropic" =>
       /\ r[1].type = "content_block_start" /\ r[1].index = i - 1
       /\ r[Len(r)].type = "content_block_stop" /\ r[Len(r)].index = i - 1
  /\ format = "responses" =>
       r[1].type \in {"part", "item.added"} /\ r[Len(r)].type \in {"part", "item.done"}

LEMMA RowOne ==
  ASSUME NEW format, NEW blocks, NEW i, NEW f,
         Legal(format, f), f.block = blocks[i], f.type \notin Stopping, format # "anthropic",
         format = "responses" => f.type = "part"
  PROVE  Row(format, blocks, i, <<f>>)
<1> DEFINE r == <<f>>
<1>0. r \in Seq({f})
  OBVIOUS
<1>1. IsSequence(r) /\ Len(r) = 1 /\ r[1] = f
  BY <1>0, SeqOfRange DEF IsSequence
<1> HIDE DEF r
<1>2. \A m \in 1..1 : m = 1
  OBVIOUS
<1>3. 1..(1 - 1) = {}
  OBVIOUS
<1> QED
  BY <1>1, <1>2, <1>3 DEF Row, r

LEMMA RowTwo ==
  ASSUME NEW format, NEW blocks, NEW i, NEW f, NEW g,
         Legal(format, f), f.block = blocks[i], f.type \notin Stopping,
         Legal(format, g), g.block = blocks[i], g.type \notin Stopping, ~Opens(g),
         Follows(format, f, g),
         format = "anthropic" =>
           /\ f.type = "content_block_start" /\ f.index = i - 1
           /\ g.type = "content_block_stop" /\ g.index = i - 1,
         format = "responses" => f.type = "item.added" /\ g.type = "item.done"
  PROVE  Row(format, blocks, i, <<f, g>>)
<1> DEFINE r == <<f, g>>
<1>0. r \in Seq({f, g})
  OBVIOUS
<1>1. IsSequence(r) /\ Len(r) = 2 /\ r[1] = f /\ r[2] = g
  BY <1>0, SeqOfRange DEF IsSequence
<1> HIDE DEF r
<1>2. \A m \in 1..2 : m = 1 \/ m = 2
  OBVIOUS
<1>3. \A m \in 1..(2 - 1) : m = 1
  OBVIOUS
<1> QED
  BY <1>1, <1>2, <1>3 DEF Row, r

LEMMA RowThree ==
  ASSUME NEW format, NEW blocks, NEW i, NEW f, NEW g, NEW h,
         Legal(format, f), f.block = blocks[i], f.type \notin Stopping,
         Legal(format, g), g.block = blocks[i], g.type \notin Stopping, ~Opens(g),
         Legal(format, h), h.block = blocks[i], h.type \notin Stopping, ~Opens(h),
         Follows(format, f, g), Follows(format, g, h), format # "responses",
         format = "anthropic" =>
           /\ f.type = "content_block_start" /\ f.index = i - 1
           /\ h.type = "content_block_stop" /\ h.index = i - 1
  PROVE  Row(format, blocks, i, <<f, g, h>>)
<1> DEFINE r == <<f, g, h>>
<1>0. r \in Seq({f, g, h})
  OBVIOUS
<1>1. IsSequence(r) /\ Len(r) = 3 /\ r[1] = f /\ r[2] = g /\ r[3] = h
  BY <1>0, SeqOfRange DEF IsSequence
<1> HIDE DEF r
<1>2. \A m \in 1..3 : m = 1 \/ m = 2 \/ m = 3
  OBVIOUS
<1>3. \A m \in 1..(3 - 1) : m = 1 \/ m = 2
  OBVIOUS
<1>4. \A m \in 1..(3 - 1) : Follows(format, r[m], r[m + 1])
  BY <1>1, <1>3
<1> QED
  BY <1>1, <1>2, <1>4 DEF Row, r

LEMMA RowFour ==
  ASSUME NEW format, NEW blocks, NEW i, NEW f, NEW g, NEW h,
         NEW k,
         Legal(format, f), f.block = blocks[i], f.type \notin Stopping,
         Legal(format, g), g.block = blocks[i], g.type \notin Stopping, ~Opens(g),
         Legal(format, h), h.block = blocks[i], h.type \notin Stopping, ~Opens(h),
         Legal(format, k), k.block = blocks[i], k.type \notin Stopping, ~Opens(k),
         Follows(format, f, g), Follows(format, g, h), Follows(format, h, k), format = "responses",
         f.type = "item.added", k.type = "item.done"
  PROVE  Row(format, blocks, i, <<f, g, h, k>>)
<1> DEFINE r == <<f, g, h, k>>
<1>0. r \in Seq({f, g, h, k})
  OBVIOUS
<1>1. IsSequence(r) /\ Len(r) = 4 /\ r[1] = f /\ r[2] = g /\ r[3] = h /\ r[4] = k
  BY <1>0, SeqOfRange DEF IsSequence
<1> HIDE DEF r
<1>2. \A m \in 1..4 : m = 1 \/ m = 2 \/ m = 3 \/ m = 4
  OBVIOUS
<1>3. \A m \in 1..(4 - 1) : m = 1 \/ m = 2 \/ m = 3
  OBVIOUS
<1>4. \A m \in 1..(4 - 1) : Follows(format, r[m], r[m + 1])
  BY <1>1, <1>3
<1> QED
  BY <1>1, <1>2, <1>4 DEF Row, r

LEMMA RowOfBlock ==
  ASSUME NEW format \in Formats, NEW blocks, IsSequence(blocks), \A j \in DOMAIN blocks : IsBlock(blocks[j]),
         NEW i \in DOMAIN blocks
  PROVE  Row(format, blocks, i, BlockFrames(format, blocks, i))
<1> DEFINE b == blocks[i]
           nth == Len(Calls(SubSeq(blocks, 1, i))) - 1
<1>1. IsBlock(b) /\ i \in Nat /\ i - 1 \in Int
  BY DEF IsSequence
<1>2. nth \in Int
  <2>1. IsSequence(SubSeq(blocks, 1, i))
    <3>1. SubSeq(blocks, 1, i) \in Seq(Range(blocks))
      BY DEF IsSequence
    <3> QED
      BY <3>1, SeqOfRange DEF IsSequence
  <2>2. PICK place : CallsUpTo(SubSeq(blocks, 1, i), Len(SubSeq(blocks, 1, i)),
                               Calls(SubSeq(blocks, 1, i)), place)
    BY <2>1, CallsOf
  <2>3. Len(Calls(SubSeq(blocks, 1, i))) \in Nat
    BY <2>2 DEF CallsUpTo, IsSequence
  <2> QED
    BY <2>3
<1> HIDE DEF nth, b
<1>3. \A t, n : Frame(t, n, b).type = t /\ Frame(t, n, b).index = n /\ Frame(t, n, b).block = b
  BY DEF Frame
<1>4. b.args \in {"none", "some"}
  BY <1>1 DEF IsBlock
<1>5. CASE format = "anthropic"
  <2> DEFINE f == Frame("content_block_start", i - 1, b)
             g == Frame("content_block_delta", i - 1, b)
             h == Frame("content_block_stop", i - 1, b)
  <2>1. /\ f.type = "content_block_start" /\ f.index = i - 1 /\ f.block = b
        /\ g.type = "content_block_delta" /\ g.index = i - 1 /\ g.block = b
        /\ h.type = "content_block_stop" /\ h.index = i - 1 /\ h.block = b
    BY <1>1, <1>3
  <2>2. BlockFrames(format, blocks, i) =
          <<f>> \o (IF IsCall(b) /\ b.args # "some" THEN <<>> ELSE <<g>>) \o <<h>>
    BY <1>5 DEF BlockFrames, WithArgs, b
  <2> HIDE DEF f, g, h
  <2>3. /\ Legal(format, f) /\ Legal(format, g) /\ Legal(format, h)
        /\ f.type \notin Stopping /\ g.type \notin Stopping /\ h.type \notin Stopping
        /\ ~Opens(g) /\ ~Opens(h)
    BY <1>1, <1>5, <2>1 DEF Legal, Stopping, Opens, Opening
  <2>4. CASE IsCall(b) /\ b.args # "some"
    <3>1. BlockFrames(format, blocks, i) = <<f, h>>
      BY <2>2, <2>4, Pair
    <3>2. Follows(format, f, h)
      BY <1>5, <2>1, <2>4 DEF Follows, Stopping
    <3>3. Row(format, blocks, i, <<f, h>>)
      BY <1>5, <2>1, <2>3, <3>2, RowTwo DEF b
    <3> QED
      BY <3>1, <3>3
  <2>5. CASE ~(IsCall(b) /\ b.args # "some")
    <3>1. BlockFrames(format, blocks, i) = <<f>> \o <<g>> \o <<h>>
      BY <2>2, <2>5
    <3>2. <<f>> \o <<g>> = <<f, g>> /\ <<f, g>> \o <<h>> = <<f, g, h>>
      BY Pair, Triple
    <3>3. BlockFrames(format, blocks, i) = <<f, g, h>>
      BY <3>1, <3>2
    <3>4. Follows(format, f, g) /\ Follows(format, g, h)
      BY <1>5, <2>1, <2>5 DEF Follows, Stopping
    <3>5. Row(format, blocks, i, <<f, g, h>>)
      BY <1>5, <2>1, <2>3, <3>4, RowThree DEF b
    <3> QED
      BY <3>3, <3>5
  <2> QED
    BY <2>4, <2>5
<1> DEFINE part == Frame("part", 0, b)
<1>6. /\ part.type = "part" /\ part.block = b /\ part.index = 0
      /\ part.type \notin Stopping
  BY <1>3 DEF Stopping
<1>7. CASE format = "openai" /\ IsCall(b)
  <2> DEFINE f == Frame("tool_call", nth, b)
             g == Frame("arguments", nth, b)
  <2>1. /\ f.type = "tool_call" /\ f.index = nth /\ f.block = b
        /\ g.type = "arguments" /\ g.index = nth /\ g.block = b
    BY <1>2, <1>3
  <2>2. BlockFrames(format, blocks, i) = <<f>> \o (IF b.args = "some" THEN <<g>> ELSE <<>>)
    BY <1>7 DEF BlockFrames, WithArgs, b, nth
  <2> HIDE DEF f, g
  <2>3. /\ Legal(format, f) /\ Legal(format, g) /\ ~Opens(g)
        /\ f.type \notin Stopping /\ g.type \notin Stopping
        /\ Follows(format, f, g)
    BY <1>1, <1>2, <1>7, <2>1 DEF Legal, Stopping, Opens, Opening, Follows
  <2>4. Row(format, blocks, i, <<f>>) /\ Row(format, blocks, i, <<f, g>>)
    BY <1>7, <2>1, <2>3, RowOne, RowTwo DEF b
  <2>5. <<f>> \o <<g>> = <<f, g>> /\ <<f>> \o <<>> = <<f>>
    BY Pair
  <2> QED
    BY <2>2, <2>4, <2>5
<1>8. CASE format = "responses" /\ IsCall(b)
  <2> DEFINE f == Frame("item.added", 0, b)
             g == Frame("arguments.delta", 0, b)
             h == Frame("arguments.done", 0, b)
             k == Frame("item.done", 0, b)
  <2>1. /\ f.type = "item.added" /\ f.index = 0 /\ f.block = b
        /\ g.type = "arguments.delta" /\ g.index = 0 /\ g.block = b
        /\ h.type = "arguments.done" /\ h.index = 0 /\ h.block = b
        /\ k.type = "item.done" /\ k.index = 0 /\ k.block = b
    BY <1>3
  <2>2. BlockFrames(format, blocks, i) =
          <<f>> \o (IF b.args = "some" THEN <<g, h>> ELSE <<>>) \o <<k>>
    BY <1>8 DEF BlockFrames, WithArgs, b
  <2> HIDE DEF f, g, h, k
  <2>3. /\ Legal(format, f) /\ Legal(format, g) /\ Legal(format, h) /\ Legal(format, k)
        /\ f.type \notin Stopping /\ g.type \notin Stopping
        /\ h.type \notin Stopping /\ k.type \notin Stopping
        /\ ~Opens(g) /\ ~Opens(h) /\ ~Opens(k)
    BY <1>1, <1>8, <2>1 DEF Legal, Stopping, Opens, Opening
  <2>4. CASE b.args = "some"
    <3>1. BlockFrames(format, blocks, i) = <<f, g, h, k>>
      <4>1. <<f>> \o <<g, h>> = <<f, g, h>> /\ <<f, g, h>> \o <<k>> = <<f, g, h, k>>
        BY OneAndTwo, Quadruple
      <4> QED
        BY <2>2, <2>4, <4>1
    <3>2. Follows(format, f, g) /\ Follows(format, g, h) /\ Follows(format, h, k)
      BY <1>8, <2>1, <2>4 DEF Follows, Stopping
    <3>3. Row(format, blocks, i, <<f, g, h, k>>)
      BY <1>8, <2>1, <2>3, <3>2, RowFour DEF b
    <3> QED
      BY <3>1, <3>3
  <2>5. CASE b.args # "some"
    <3>1. BlockFrames(format, blocks, i) = <<f, k>>
      BY <2>2, <2>5, Pair
    <3>2. Follows(format, f, k)
      BY <1>8, <2>1, <2>5 DEF Follows, Stopping
    <3>3. Row(format, blocks, i, <<f, k>>)
      BY <1>8, <2>1, <2>3, <3>2, RowTwo DEF b
    <3> QED
      BY <3>1, <3>3
  <2> QED
    BY <2>4, <2>5
<1>9. CASE format = "gemini" \/ (format \in {"openai", "responses"} /\ ~IsCall(b))
  <2>1. BlockFrames(format, blocks, i) = <<part>>
    BY <1>9 DEF BlockFrames, b
  <2>2. Legal(format, part)
    BY <1>1, <1>6, <1>9 DEF Legal
  <2> HIDE DEF part
  <2>3. Row(format, blocks, i, <<part>>)
    BY <1>6, <1>9, <2>2, RowOne DEF b
  <2> QED
    BY <2>1, <2>3
<1> QED
  BY <1>5, <1>7, <1>8, <1>9 DEF Formats

LEMMA FramesWired ==
  ASSUME NEW format \in Formats, NEW reply, IsReply(reply),
         \A i, j \in DOMAIN reply.blocks :
           IsCall(reply.blocks[i]) /\ IsCall(reply.blocks[j]) /\ reply.blocks[i].id = reply.blocks[j].id
           => i = j
  PROVE  /\ Wired(format, reply.blocks, Frames(format, reply))
         /\ Frames(format, reply) # <<>>
         /\ Expects(format, NoParse, Head(Frames(format, reply)))
<1> DEFINE B == reply.blocks
           S == [i \in DOMAIN B |-> BlockFrames(format, B, i)]
           G == FlattenSeq(S)
           z == Frame(reply.stop, 0, Text)
           F == Frames(format, reply)
           n == Len(B)
<1>1. /\ IsSequence(B) /\ n \in Nat /\ DOMAIN B = 1..n
      /\ \A i \in DOMAIN B : IsBlock(B[i])
  BY DEF IsReply, IsSequence
<1>2. F = G \o <<z>>
  BY DEF Frames
<1>3. z.type \in Stopping /\ Legal(format, z) /\ ~Opens(z) /\ z.index = 0
  BY DEF Frame, Legal, Stopping, IsBlock, Text, IsReply, Opens, Opening
<1>4. \A i \in DOMAIN B : Row(format, B, i, S[i])
  BY <1>1, RowOfBlock
<1>5. Len(NoParse.blocks) = 0 /\ NoParse.blocks = <<>>
  BY DEF NoParse
<1> HIDE DEF z
<1>6. CASE n = 0
  <2>1. S = <<>>
    BY <1>1, <1>6
  <2>2. G = <<>>
    BY <2>1 DEF FlattenSeq
  <2>3. F = <<z>>
    BY <1>2, <2>2
  <2>4. IsSequence(F) /\ Len(F) = 1 /\ F[1] = z /\ DOMAIN F = {1} /\ Head(F) = z /\ F # <<>>
    <3>1. <<z>> \in Seq({z}) /\ Len(<<z>>) = 1 /\ <<z>>[1] = z /\ DOMAIN <<z>> = {1} /\ <<z>> # <<>>
          /\ Head(<<z>>) = z
      OBVIOUS
    <3> QED
      BY <2>3, <3>1, SeqOfRange DEF IsSequence
  <2> HIDE DEF F
  <2>5. Wired(format, B, F)
    BY <1>3, <2>4 DEF Wired
  <2>6. Expects(format, NoParse, z)
    BY <1>3, <1>5 DEF Expects, Stopping
  <2> QED
    BY <2>4, <2>5, <2>6 DEF F
<1>7. CASE n # 0
  <2> DEFINE X == UNION {Range(S[i]) : i \in DOMAIN B}
  <2>1. S \in Seq(Seq(X)) /\ Len(S) = n /\ DOMAIN S = 1..n
    <3>1. ASSUME NEW i \in DOMAIN B PROVE S[i] \in Seq(X)
      <4>1. S[i] \in Seq(Range(S[i]))
        BY <1>4 DEF Row, IsSequence
      <4>2. Range(S[i]) \subseteq X
        OBVIOUS
      <4> HIDE DEF X, S
      <4> QED
        BY <4>1, <4>2, SeqMonotonic
    <3>2. S \in [1..n -> Seq(X)]
      BY <1>1, <3>1
    <3> QED
      BY <1>1, <3>2
  <2>2. \A i \in DOMAIN S : Len(S[i]) > 0
    BY <1>1, <1>4, <2>1 DEF Row
  <2> HIDE DEF X, S
  <2>3. PICK row, col : Flat(S, X, n, G, row, col)
    <3>1. Len(S) > 0
      BY <1>1, <1>7, <2>1
    <3>2. \E row, col : Flat(S, X, Len(S), FlattenSeq(S), row, col)
      BY <2>1, <2>2, <3>1, FlattenFlat
    <3> QED
      BY <2>1, <3>2
  <2> DEFINE l == Len(G)
  <2> HIDE DEF G, n
  <2>4. G \in Seq(X) /\ l \in Nat /\ l > 0 /\ DOMAIN G = 1..l
    BY <2>3 DEF Flat
  <2>5. /\ F \in Seq(X \cup {z}) /\ Len(F) = l + 1 /\ DOMAIN F = 1..(l + 1)
        /\ F[l + 1] = z /\ \A j \in 1..l : F[j] = G[j]
    <3>1. G \in Seq(X \cup {z}) /\ <<z>> \in Seq(X \cup {z}) /\ Len(<<z>>) = 1 /\ <<z>>[1] = z
      BY <2>4, SeqMonotonic
    <3>2. G \o <<z>> \in Seq(X \cup {z}) /\ Len(G \o <<z>>) = l + 1
      BY <2>4, <3>1, ConcatProperties
    <3>3. \A j \in 1..(l + 1) : (G \o <<z>>)[j] = IF j <= l THEN G[j] ELSE <<z>>[j - l]
      BY <2>4, <3>1, ConcatProperties
    <3>4. (G \o <<z>>)[l + 1] = z /\ \A j \in 1..l : (G \o <<z>>)[j] = G[j]
      BY <2>4, <3>1, <3>3
    <3>5. DOMAIN (G \o <<z>>) = 1..(l + 1)
      BY <3>2
    <3> HIDE DEF F, l
    <3> QED
      BY <1>2, <3>2, <3>4, <3>5
  <2> HIDE DEF F, l, B
  <2>6. IsSequence(F) /\ F # <<>> /\ Head(F) = F[1]
    BY <2>4, <2>5, SeqOfRange DEF IsSequence
  <2>7. \A j \in 1..l : /\ row[j] \in 1..n /\ col[j] \in 1..Len(S[row[j]]) /\ F[j] = S[row[j]][col[j]]
                        /\ Row(format, B, row[j], S[row[j]])
    BY <1>1, <1>4, <2>3, <2>4, <2>5 DEF Flat
  <2>8. \A j \in 1..l : /\ Legal(format, F[j]) /\ F[j].block = B[row[j]] /\ F[j].type \notin Stopping
                        /\ Opens(F[j]) => col[j] = 1
    BY <2>7 DEF Row
  <2>9. ASSUME NEW j \in DOMAIN F
        PROVE  Legal(format, F[j]) /\ (F[j].type \notin Stopping => F[j].block \in Range(B))
    <3>1. j \in 1..l \/ j = l + 1
      BY <2>4, <2>5
    <3>2. \A i \in 1..n : B[i] \in Range(B)
      BY <1>1 DEF Range
    <3> QED
      BY <1>3, <2>5, <2>7, <2>8, <3>1, <3>2
  <2>10. ASSUME NEW j \in DOMAIN F, NEW k \in DOMAIN F,
                Opens(F[j]), Opens(F[k]), F[j].block.id = F[k].block.id, j < k
         PROVE  FALSE
    <3>1. j \in 1..l /\ k \in 1..l
      BY <1>3, <2>4, <2>5, <2>10
    <3>2. IsCall(B[row[j]]) /\ IsCall(B[row[k]]) /\ B[row[j]].id = B[row[k]].id
      BY <2>8, <2>10, <3>1 DEF Opens
    <3>3. row[j] \in DOMAIN B /\ row[k] \in DOMAIN B
      BY <1>1, <2>7, <3>1
    <3>4. row[j] = row[k]
      BY <3>2, <3>3 DEF B
    <3>5. col[j] = 1 /\ col[k] = 1
      BY <2>8, <2>10, <3>1
    <3>6. row[j] < row[k] \/ (row[j] = row[k] /\ col[j] < col[k])
      BY <2>3, <2>4, <2>10, <3>1 DEF Flat
    <3>7. row[j] \in Nat
      BY <2>7, <3>1
    <3> QED
      BY <3>4, <3>5, <3>6, <3>7
  <2>11. ASSUME NEW j \in 1..(Len(F) - 1)
         PROVE  Follows(format, F[j], F[j + 1])
    <3> DEFINE r == S[row[j]]
               m == col[j]
    <3>1. j \in 1..l
      BY <2>4, <2>5
    <3>2. Row(format, B, row[j], r) /\ m \in 1..Len(r) /\ F[j] = r[m] /\ Len(r) \in Nat
      BY <2>7, <3>1 DEF Row, IsSequence
    <3>8. Len(G) = l
      BY DEF l
    <3>6. j # l => j \in 1..(Len(G) - 1) /\ j + 1 \in 1..l
      <4>1. j # l => j \in 1..(l - 1) /\ j + 1 \in 1..l
        BY <2>4, <3>1
      <4> QED
        BY <3>8, <4>1
    <3>7. j # l => \/ m < Len(r) /\ row[j + 1] = row[j] /\ col[j + 1] = m + 1
                   \/ m = Len(r) /\ row[j + 1] = row[j] + 1 /\ col[j + 1] = 1
      BY <2>3, <3>6 DEF Flat
    <3>3. CASE j = l
      <4>1. row[j] = n /\ m = Len(r) /\ F[j + 1] = z
        BY <2>3, <2>5, <3>3 DEF Flat, l
      <4>2. F[j].type \notin Stopping
        BY <2>8, <3>1
      <4>3. format = "anthropic" => F[j].type = "content_block_stop"
        BY <3>2, <4>1 DEF Row
      <4>4. format = "responses" => F[j].type \in {"part", "item.done"}
        BY <3>2, <4>1 DEF Row
      <4> HIDE DEF r, m
      <4> QED
        BY <1>3, <4>1, <4>2, <4>3, <4>4 DEF Follows
    <3>4. CASE j # l /\ m < Len(r)
      <4>1. row[j + 1] = row[j] /\ col[j + 1] = m + 1 /\ j + 1 \in 1..l
        BY <3>2, <3>4, <3>6, <3>7
      <4>2. F[j + 1] = r[m + 1] /\ m \in 1..(Len(r) - 1)
        BY <2>7, <3>2, <3>4, <4>1
      <4> HIDE DEF r, m
      <4> QED
        BY <3>2, <4>2 DEF Row
    <3>5. CASE j # l /\ ~(m < Len(r))
      <4>1. m = Len(r) /\ row[j + 1] = row[j] + 1 /\ col[j + 1] = 1 /\ j + 1 \in 1..l
        BY <3>2, <3>5, <3>6, <3>7
      <4> DEFINE q == S[row[j + 1]]
      <4>2. Row(format, B, row[j + 1], q) /\ F[j + 1] = q[1]
        BY <2>7, <4>1
      <4>3. F[j].type \notin Stopping /\ row[j] \in Nat
        BY <2>7, <2>8, <3>1
      <4>4. format = "anthropic" => /\ F[j].type = "content_block_stop" /\ F[j].index = row[j] - 1
                                    /\ F[j + 1].type = "content_block_start"
                                    /\ F[j + 1].index = row[j + 1] - 1
        BY <3>2, <4>1, <4>2 DEF Row
      <4>5. format = "responses" => /\ F[j].type \in {"part", "item.done"}
                                    /\ F[j + 1].type \in {"part", "item.added"}
        BY <3>2, <4>1, <4>2 DEF Row
      <4> HIDE DEF r, m, q
      <4> QED
        BY <4>1, <4>3, <4>4, <4>5 DEF Follows
    <3> QED
      BY <3>3, <3>4, <3>5
  <2>12. Wired(format, B, F)
    <3>1. \A j, k \in DOMAIN F :
            Opens(F[j]) /\ Opens(F[k]) /\ F[j].block.id = F[k].block.id => j = k
      BY <2>4, <2>5, <2>10
    <3>2. F[Len(F)].type \in Stopping
      BY <1>3, <2>5
    <3> QED
      BY <2>6, <2>9, <2>11, <3>1, <3>2 DEF Wired
  <2>13. Expects(format, NoParse, F[1])
    <3>1. row[1] = 1 /\ col[1] = 1 /\ 1 \in 1..l
      BY <2>3, <2>4 DEF Flat
    <3>2. Row(format, B, 1, S[1]) /\ F[1] = S[1][1]
      BY <2>7, <3>1
    <3>3. format = "anthropic" => F[1].type = "content_block_start" /\ F[1].index = 0
      BY <3>2 DEF Row
    <3>4. format = "responses" => F[1].type \in {"part", "item.added"}
      BY <3>2 DEF Row
    <3> QED
      BY <1>5, <3>3, <3>4 DEF Expects
  <2> QED
    BY <2>6, <2>12, <2>13 DEF B, F
<1> QED
  BY <1>6, <1>7

-----------------------------------------------------------------------------
\* An event is received.

LEMMA TailOf ==
  ASSUME NEW ch, IsSequence(ch), ch # <<>>
  PROVE  /\ IsSequence(Tail(ch)) /\ Len(ch) \in Nat /\ Len(ch) > 0 /\ DOMAIN ch = 1..Len(ch)
         /\ Len(Tail(ch)) = Len(ch) - 1 /\ DOMAIN Tail(ch) = 1..(Len(ch) - 1)
         /\ \A x \in DOMAIN Tail(ch) : Tail(ch)[x] = ch[x + 1] /\ x + 1 \in DOMAIN ch
         /\ Head(ch) = ch[1] /\ 1 \in DOMAIN ch
<1>1. ch \in Seq(Range(ch)) /\ Tail(ch) \in Seq(Range(ch))
  BY DEF IsSequence
<1>2. IsSequence(Tail(ch))
  BY <1>1, SeqOfRange DEF IsSequence
<1>3. Len(ch) \in Nat /\ Len(ch) > 0 /\ DOMAIN ch = 1..Len(ch)
  BY <1>1
<1>4. Len(Tail(ch)) = Len(ch) - 1 /\ DOMAIN Tail(ch) = 1..(Len(ch) - 1)
  BY <1>1, <1>3
<1>5. \A x \in DOMAIN Tail(ch) : Tail(ch)[x] = ch[x + 1] /\ x + 1 \in DOMAIN ch
  BY <1>1, <1>3, <1>4
<1>6. Head(ch) = ch[1] /\ 1 \in DOMAIN ch
  BY <1>1, <1>3
<1> QED
  BY <1>2, <1>3, <1>4, <1>5, <1>6

LEMMA HasTail ==
  ASSUME NEW ch, IsSequence(ch), ch # <<>>, NEW type, NEW i
  PROVE  /\ Has(Tail(ch), type, i) => Has(ch, type, i)
         /\ Has(ch, type, i) => Has(Tail(ch), type, i) \/ (Head(ch).type = type /\ Head(ch).index = i)
<1>1. ASSUME NEW x \in DOMAIN ch, ch[x].type = type, ch[x].index = i
      PROVE  Has(Tail(ch), type, i) \/ (Head(ch).type = type /\ Head(ch).index = i)
  <2>1. CASE x = 1
    BY <1>1, <2>1, TailOf
  <2>2. CASE x # 1
    <3>1. x - 1 \in DOMAIN Tail(ch) /\ Tail(ch)[x - 1] = ch[x]
      BY <2>2, TailOf
    <3> QED
      BY <1>1, <3>1 DEF Has
  <2> QED
    BY <2>1, <2>2
<1> QED
  BY <1>1, TailOf DEF Has

\* What holds of the events that remain.
LEMMA TailKeeps ==
  ASSUME NEW ch, IsSequence(ch), ch # <<>>, NEW s, NEW blocks
  PROVE  /\ PlacesOK(s, blocks, ch) => PlacesOK(s, blocks, Tail(ch))
         /\ DeltasOK(s, blocks, ch) => DeltasOK(s, blocks, Tail(ch))
         /\ InOrder(ch) => InOrder(Tail(ch))
<1>1. PlacesOK(s, blocks, ch) => PlacesOK(s, blocks, Tail(ch))
  BY TailOf DEF PlacesOK
<1>2. DeltasOK(s, blocks, ch) => DeltasOK(s, blocks, Tail(ch))
  BY TailOf DEF DeltasOK
<1>3. ASSUME InOrder(ch), NEW x \in DOMAIN Tail(ch), NEW y \in DOMAIN Tail(ch), x < y,
             Tail(ch)[x].type \in Tooling, Tail(ch)[y].type \in Tooling,
             Tail(ch)[x].index = Tail(ch)[y].index
      PROVE  /\ Tail(ch)[x].type # "content_block_stop" /\ Tail(ch)[y].type # "tool_use_start"
             /\ ~(Tail(ch)[x].type = "input_delta" /\ Tail(ch)[y].type = "input_delta")
  <2>1. /\ x + 1 \in DOMAIN ch /\ y + 1 \in DOMAIN ch /\ x + 1 < y + 1
        /\ Tail(ch)[x] = ch[x + 1] /\ Tail(ch)[y] = ch[y + 1]
    BY <1>3, TailOf
  <2> QED
    BY <1>3, <2>1 DEF InOrder
<1>4. InOrder(ch) => InOrder(Tail(ch))
  BY <1>3 DEF InOrder
<1> QED
  BY <1>1, <1>2, <1>4

\* An event that tells nothing of the pending calls.
LEMMA FeedOther ==
  ASSUME NEW s, NEW blocks, NEW reply, NEW ch, NEW pend, NEW eag, NEW tl,
         IsSequence(ch), ch # <<>>, Head(ch).type \notin {"tool_use_start", "input_delta"},
         Feed(s, blocks, reply, ch, pend, eag, tl)
  PROVE  /\ Feed(s, blocks, reply, Tail(ch), pend, eag, tl)
         /\ Fed(s, blocks, ch, pend, eag) => Fed(s, blocks, Tail(ch), pend, eag)
<1>1. \A t \in {"tool_use_start", "input_delta"} : \A i : Has(ch, t, i) <=> Has(Tail(ch), t, i)
  BY HasTail
<1>2. \A b, i : Told(b, i, ch, pend) <=> Told(b, i, Tail(ch), pend)
  BY <1>1 DEF Told
<1>3. StartsOK(s, blocks, Tail(ch), pend, eag)
  BY TailOf DEF Feed, StartsOK
<1>4. StopsOK(s, blocks, reply, Tail(ch), pend, eag)
  BY <1>2, TailOf DEF Feed, StopsOK
<1>5. Fed(s, blocks, ch, pend, eag) => Fed(s, blocks, Tail(ch), pend, eag)
  BY <1>2 DEF Fed
<1> QED
  BY <1>3, <1>4, <1>5, TailKeeps DEF Feed

LEMMA UnsealedTail ==
  ASSUME NEW s, NEW blocks, NEW ch, IsSequence(ch), ch # <<>>, NEW eag, Unsealed(s, blocks, ch, eag)
  PROVE  Unsealed(s, blocks, Tail(ch), eag)
  BY HasTail DEF Unsealed

\* What an event that is first says of those behind it.
LEMMA Behind ==
  ASSUME NEW ch, IsSequence(ch), ch # <<>>, InOrder(ch), Head(ch).type \in Tooling,
         NEW x \in DOMAIN Tail(ch), Tail(ch)[x].index = Head(ch).index, Tail(ch)[x].type \in Tooling
  PROVE  /\ Tail(ch)[x].type # "tool_use_start" /\ Head(ch).type # "content_block_stop"
         /\ ~(Head(ch).type = "input_delta" /\ Tail(ch)[x].type = "input_delta")
<1>1. 1 \in DOMAIN ch /\ x + 1 \in DOMAIN ch /\ 1 < x + 1 /\ Head(ch) = ch[1] /\ Tail(ch)[x] = ch[x + 1]
  BY TailOf
<1> QED
  BY <1>1 DEF InOrder

LEMMA FeedStart ==
  ASSUME NEW s \in Nat, NEW blocks, NEW reply, NEW ch, NEW pend, NEW eag, NEW tl,
         IsSequence(ch), ch # <<>>, Head(ch).type = "tool_use_start", IsEvent(Head(ch)),
         Feed(s, blocks, reply, ch, pend, eag, tl),
         NEW new, new = [i \in DOMAIN pend \cup {Head(ch).index} |->
                           IF i = Head(ch).index THEN Call(Head(ch).id, Head(ch).name, "none") ELSE pend[i]]
  PROVE  /\ Feed(s, blocks, reply, Tail(ch), new, eag, tl)
         /\ Fed(s, blocks, ch, pend, eag) => Fed(s, blocks, Tail(ch), new, eag)
<1> DEFINE e == Head(ch)
           b == blocks[e.index + s]
<1>1. /\ 1 \in DOMAIN ch /\ e = ch[1] /\ e.type \in Tooling /\ e.index \in Int
  BY TailOf DEF Tooling, IsEvent
<1>2. /\ e.index + s \in DOMAIN blocks /\ IsCall(b) /\ b.id = e.id /\ b.name = e.name
      /\ e.index \notin DOMAIN pend /\ b.id \notin DOMAIN eag
  BY <1>1 DEF Feed, PlacesOK, StartsOK
<1>3. /\ DOMAIN new = DOMAIN pend \cup {e.index}
      /\ new[e.index] = Call(b.id, b.name, "none")
      /\ \A i \in DOMAIN pend : new[i] = pend[i]
  BY <1>2
<1> HIDE DEF b, e
<1>4. Call(b.id, b.name, "none").args = "none"
  BY DEF Call
<1>5. \A c, i : Told(c, i, ch, pend) => Told(c, i, Tail(ch), new)
  <2> SUFFICES ASSUME NEW c, NEW i, Told(c, i, ch, pend) PROVE Told(c, i, Tail(ch), new)
    OBVIOUS
  <2>1. Has(ch, "tool_use_start", i) => Has(Tail(ch), "tool_use_start", i) \/ i = e.index
    BY HasTail DEF e
  <2>2. Has(ch, "input_delta", i) => Has(Tail(ch), "input_delta", i)
    BY HasTail
  <2> QED
    BY <1>3, <2>1, <2>2 DEF Told
<1>6. StartsOK(s, blocks, Tail(ch), new, eag)
  <2> SUFFICES ASSUME NEW x \in DOMAIN Tail(ch), Tail(ch)[x].type = "tool_use_start"
               PROVE  LET c == blocks[Tail(ch)[x].index + s] IN
                      /\ IsCall(c) /\ c.id = Tail(ch)[x].id /\ c.name = Tail(ch)[x].name
                      /\ Tail(ch)[x].index \notin DOMAIN new /\ c.id \notin DOMAIN eag
    BY DEF StartsOK
  <2>1. Tail(ch)[x] = ch[x + 1] /\ x + 1 \in DOMAIN ch
    BY TailOf
  <2>2. Tail(ch)[x].index # e.index
    BY <1>1, Behind DEF Feed, Tooling, e
  <2> QED
    BY <1>3, <2>1, <2>2 DEF Feed, StartsOK
<1>7. StopsOK(s, blocks, reply, Tail(ch), new, eag)
  <2> SUFFICES ASSUME NEW x \in DOMAIN Tail(ch), Tail(ch)[x].type = "content_block_stop",
                      IsCall(blocks[Tail(ch)[x].index + s])
               PROVE  LET c == blocks[Tail(ch)[x].index + s] IN
                      /\ c.id \notin DOMAIN eag /\ c \in Range(reply)
                      /\ Told(c, Tail(ch)[x].index, Tail(ch), new)
    BY DEF StopsOK
  <2>1. Tail(ch)[x] = ch[x + 1] /\ x + 1 \in DOMAIN ch
    BY TailOf
  <2> QED
    BY <1>5, <2>1 DEF Feed, StopsOK
<1>8. PendingOK(s, blocks, new, eag)
  <2> SUFFICES ASSUME NEW i \in DOMAIN new
               PROVE  LET c == blocks[i + s] IN
                      /\ i \in Int /\ i + s \in DOMAIN blocks /\ IsCall(c) /\ c.id \notin DOMAIN eag
                      /\ new[i] = Call(c.id, c.name, new[i].args) /\ new[i].args \in {"none", "some"}
                      /\ new[i].args = "some" => c.args = "some"
    BY DEF PendingOK
  <2>1. CASE i = e.index
    BY <1>1, <1>2, <1>3, <1>4, <2>1 DEF b
  <2>2. CASE i # e.index
    BY <1>3, <2>2 DEF Feed, PendingOK
  <2> QED
    BY <2>1, <2>2
<1>9. Fed(s, blocks, ch, pend, eag) => Fed(s, blocks, Tail(ch), new, eag)
  BY <1>5 DEF Fed
<1> QED
  BY <1>6, <1>7, <1>8, <1>9, TailKeeps DEF Feed

LEMMA FeedDelta ==
  ASSUME NEW s \in Nat, NEW blocks, NEW reply, NEW ch, NEW pend, NEW eag, NEW tl,
         IsSequence(ch), ch # <<>>, Head(ch).type = "input_delta",
         Feed(s, blocks, reply, ch, pend, eag, tl),
         NEW new, new = [i \in DOMAIN pend |->
                           IF i = Head(ch).index THEN [pend[i] EXCEPT !.args = "some"] ELSE pend[i]]
  PROVE  /\ Feed(s, blocks, reply, Tail(ch), new, eag, tl)
         /\ Fed(s, blocks, ch, pend, eag) => Fed(s, blocks, Tail(ch), new, eag)
<1> DEFINE e == Head(ch)
           b == blocks[e.index + s]
<1>1. 1 \in DOMAIN ch /\ e = ch[1] /\ e.type \in Tooling
  BY TailOf DEF Tooling
<1>2. e.index + s \in DOMAIN blocks /\ IsCall(b) /\ b.args = "some"
  BY <1>1 DEF Feed, PlacesOK, DeltasOK
<1>3. DOMAIN new = DOMAIN pend /\ \A i \in DOMAIN pend : i # e.index => new[i] = pend[i]
  OBVIOUS
<1>4. e.index \in DOMAIN pend =>
        new[e.index] = Call(b.id, b.name, "some") /\ new[e.index].args = "some"
  <2> SUFFICES ASSUME e.index \in DOMAIN pend
               PROVE  new[e.index] = Call(b.id, b.name, "some") /\ new[e.index].args = "some"
    OBVIOUS
  <2>1. pend[e.index] = Call(b.id, b.name, pend[e.index].args)
    BY DEF Feed, PendingOK
  <2>2. new[e.index] = [pend[e.index] EXCEPT !.args = "some"]
    OBVIOUS
  <2> HIDE DEF e, b
  <2>3. [Call(b.id, b.name, pend[e.index].args) EXCEPT !.args = "some"] = Call(b.id, b.name, "some")
    BY DEF Call
  <2>4. Call(b.id, b.name, "some").args = "some"
    BY DEF Call
  <2> QED
    BY <2>1, <2>2, <2>3, <2>4
<1> HIDE DEF b, e
<1>5. \A i : e.index = i => ~Has(Tail(ch), "tool_use_start", i)
  BY <1>1, Behind DEF Has, Feed, Tooling, e
<1>6. \A c, i : Told(c, i, ch, pend) => Told(c, i, Tail(ch), new)
  <2> SUFFICES ASSUME NEW c, NEW i, Told(c, i, ch, pend) PROVE Told(c, i, Tail(ch), new)
    OBVIOUS
  <2>1. Has(ch, "tool_use_start", i) => Has(Tail(ch), "tool_use_start", i)
    BY HasTail
  <2>2. Has(ch, "input_delta", i) => Has(Tail(ch), "input_delta", i) \/ i = e.index
    BY HasTail DEF e
  <2>3. i = e.index => i \in DOMAIN pend
    BY <1>5, <2>1 DEF Told
  <2> QED
    BY <1>3, <1>4, <2>1, <2>2, <2>3 DEF Told
<1>7. StartsOK(s, blocks, Tail(ch), new, eag)
  BY <1>3, TailOf DEF Feed, StartsOK
<1>8. StopsOK(s, blocks, reply, Tail(ch), new, eag)
  BY <1>6, TailOf DEF Feed, StopsOK
<1>9. PendingOK(s, blocks, new, eag)
  <2> SUFFICES ASSUME NEW i \in DOMAIN new
               PROVE  LET c == blocks[i + s] IN
                      /\ i \in Int /\ i + s \in DOMAIN blocks /\ IsCall(c) /\ c.id \notin DOMAIN eag
                      /\ new[i] = Call(c.id, c.name, new[i].args) /\ new[i].args \in {"none", "some"}
                      /\ new[i].args = "some" => c.args = "some"
    BY DEF PendingOK
  <2>0. i \in DOMAIN pend
    BY <1>3
  <2>1. CASE i = e.index
    BY <1>2, <1>4, <2>0, <2>1 DEF b, Feed, PendingOK
  <2>2. CASE i # e.index
    BY <1>3, <2>0, <2>2 DEF Feed, PendingOK
  <2> QED
    BY <2>1, <2>2
<1>10. Fed(s, blocks, ch, pend, eag) => Fed(s, blocks, Tail(ch), new, eag)
  BY <1>6 DEF Fed
<1> QED
  BY <1>7, <1>8, <1>9, <1>10, TailKeeps DEF Feed

\* Block Head(ch).index stops, and its call is tool k.
StopsCall(ch, pend, eag, tl, call, new, k, more, started) ==
  /\ Head(ch).type = "content_block_stop" /\ Head(ch).index \in DOMAIN pend
  /\ call = pend[Head(ch).index]
  /\ new = [i \in DOMAIN pend \ {Head(ch).index} |-> pend[i]]
  /\ \A j \in DOMAIN tl : j \in DOMAIN more /\ more[j].call = tl[j].call
  /\ k \in DOMAIN more /\ more[k].call = call
  /\ started = [d \in DOMAIN eag \cup {call.id} |-> IF d = call.id THEN k ELSE eag[d]]

\* The call of a block that stops is whole, and goes from the pending to the started.
LEMMA FeedStop ==
  ASSUME NEW s \in Nat, NEW blocks, NEW reply, NEW ch, NEW pend, NEW eag, NEW tl,
         IsSequence(ch), ch # <<>>, \A x \in DOMAIN ch : IsEvent(ch[x]),
         Feed(s, blocks, reply, ch, pend, eag, tl),
         NEW call, NEW new, NEW k, NEW more, NEW started,
         StopsCall(ch, pend, eag, tl, call, new, k, more, started)
  PROVE  /\ call.id \notin DOMAIN eag /\ call \in Range(reply)
         /\ Feed(s, blocks, reply, Tail(ch), new, started, more)
         /\ Fed(s, blocks, ch, pend, eag) => Fed(s, blocks, Tail(ch), new, started)
         /\ Unsealed(s, blocks, ch, eag) => Unsealed(s, blocks, Tail(ch), started)
<1> USE DEF StopsCall
<1> DEFINE e == Head(ch)
           b == blocks[e.index + s]
<1>1. 1 \in DOMAIN ch /\ e = ch[1] /\ e.type \in Tooling
  BY TailOf DEF Tooling
<1>2. /\ e.index \in Int /\ e.index + s \in DOMAIN blocks /\ IsCall(b) /\ b.id \notin DOMAIN eag
      /\ call = Call(b.id, b.name, call.args) /\ call.args \in {"none", "some"}
      /\ call.args = "some" => b.args = "some"
  BY DEF Feed, PendingOK
<1>3. b \in Range(reply) /\ Told(b, e.index, ch, pend)
  BY <1>1, <1>2 DEF Feed, StopsOK
<1>4. ~Has(ch, "input_delta", e.index)
  <2>1. ~Has(Tail(ch), "input_delta", e.index)
    BY <1>1, Behind DEF Has, Feed, Tooling
  <2> QED
    BY <2>1, HasTail
<1>5. b.args = "some" => call.args = "some"
  BY <1>3, <1>4 DEF Told
<1>6. call = b
  <2>1. IsBlock(b)
    BY <1>2 DEF Feed, BlocksOK
  <2>2. b.kind = "call"
    BY <1>2 DEF IsCall
  <2>3. b.args = call.args
    BY <1>2, <1>5, <2>1 DEF IsBlock
  <2> HIDE DEF b
  <2> QED
    BY <1>2, <2>1, <2>2, <2>3 DEF IsBlock, Call
<1>7. \A q \in DOMAIN blocks : IsCall(blocks[q]) /\ blocks[q].id = b.id => q = e.index + s
  BY <1>2 DEF Feed, BlocksOK, Apart
<1>8. /\ DOMAIN new = DOMAIN pend \ {e.index} /\ \A i \in DOMAIN new : new[i] = pend[i]
      /\ DOMAIN started = DOMAIN eag \cup {b.id} /\ started[b.id] = k
      /\ \A d \in DOMAIN eag : started[d] = eag[d]
  BY <1>2, <1>6
<1> HIDE DEF b, e
<1>9. \A c, i : i # e.index /\ Told(c, i, ch, pend) => Told(c, i, Tail(ch), new)
  <2> SUFFICES ASSUME NEW c, NEW i, i # e.index, Told(c, i, ch, pend)
               PROVE  Told(c, i, Tail(ch), new)
    OBVIOUS
  <2>1. Has(ch, "tool_use_start", i) => Has(Tail(ch), "tool_use_start", i)
    BY HasTail
  <2>2. Has(ch, "input_delta", i) => Has(Tail(ch), "input_delta", i)
    BY HasTail
  <2>3. i \in DOMAIN pend => i \in DOMAIN new /\ new[i] = pend[i]
    BY <1>8
  <2> QED
    BY <2>1, <2>2, <2>3 DEF Told
<1>10. \A x \in DOMAIN Tail(ch) : /\ Tail(ch)[x] = ch[x + 1] /\ x + 1 \in DOMAIN ch
                                  /\ Tail(ch)[x].index \in Int
                                  /\ Tail(ch)[x].type \in Tooling => Tail(ch)[x].index # e.index
                                       /\ Tail(ch)[x].index + s \in DOMAIN blocks
  <2> SUFFICES ASSUME NEW x \in DOMAIN Tail(ch)
               PROVE  /\ Tail(ch)[x] = ch[x + 1] /\ x + 1 \in DOMAIN ch
                      /\ Tail(ch)[x].index \in Int
                      /\ Tail(ch)[x].type \in Tooling => Tail(ch)[x].index # e.index
                           /\ Tail(ch)[x].index + s \in DOMAIN blocks
    OBVIOUS
  <2>1. Tail(ch)[x] = ch[x + 1] /\ x + 1 \in DOMAIN ch
    BY TailOf
  <2>2. ch[x + 1].index \in Int
    BY <2>1 DEF IsEvent
  <2>3. Tail(ch)[x].type \in Tooling => Tail(ch)[x].index # e.index
    BY <1>1, Behind DEF Feed, e
  <2>4. Tail(ch)[x].type \in Tooling => Tail(ch)[x].index + s \in DOMAIN blocks
    BY <2>1 DEF Feed, PlacesOK
  <2> QED
    BY <2>1, <2>2, <2>3, <2>4
<1>11. \A x \in DOMAIN Tail(ch) : Tail(ch)[x].type \in Tooling /\ IsCall(blocks[Tail(ch)[x].index + s])
                                 => blocks[Tail(ch)[x].index + s].id # b.id
  BY <1>2, <1>7, <1>10
<1>12. StartsOK(s, blocks, Tail(ch), new, started)
  <2> SUFFICES ASSUME NEW x \in DOMAIN Tail(ch), Tail(ch)[x].type = "tool_use_start"
               PROVE  LET c == blocks[Tail(ch)[x].index + s] IN
                      /\ IsCall(c) /\ c.id = Tail(ch)[x].id /\ c.name = Tail(ch)[x].name
                      /\ Tail(ch)[x].index \notin DOMAIN new /\ c.id \notin DOMAIN started
    BY DEF StartsOK
  <2>1. Tail(ch)[x].type \in Tooling
    BY DEF Tooling
  <2> QED
    BY <1>8, <1>10, <1>11, <2>1 DEF Feed, StartsOK
<1>13. StopsOK(s, blocks, reply, Tail(ch), new, started)
  <2> SUFFICES ASSUME NEW x \in DOMAIN Tail(ch), Tail(ch)[x].type = "content_block_stop",
                      IsCall(blocks[Tail(ch)[x].index + s])
               PROVE  LET c == blocks[Tail(ch)[x].index + s] IN
                      /\ c.id \notin DOMAIN started /\ c \in Range(reply)
                      /\ Told(c, Tail(ch)[x].index, Tail(ch), new)
    BY DEF StopsOK
  <2>1. Tail(ch)[x].type \in Tooling
    BY DEF Tooling
  <2>2. LET c == blocks[Tail(ch)[x].index + s] IN
          c.id \notin DOMAIN eag /\ c \in Range(reply) /\ Told(c, Tail(ch)[x].index, ch, pend)
    BY <1>10 DEF Feed, StopsOK
  <2> QED
    BY <1>8, <1>9, <1>10, <1>11, <2>1, <2>2
<1>14. PendingOK(s, blocks, new, started)
  <2> SUFFICES ASSUME NEW i \in DOMAIN new
               PROVE  LET c == blocks[i + s] IN
                      /\ i \in Int /\ i + s \in DOMAIN blocks /\ IsCall(c) /\ c.id \notin DOMAIN started
                      /\ new[i] = Call(c.id, c.name, new[i].args) /\ new[i].args \in {"none", "some"}
                      /\ new[i].args = "some" => c.args = "some"
    BY DEF PendingOK
  <2>1. i \in DOMAIN pend /\ i # e.index /\ new[i] = pend[i]
    BY <1>8
  <2>2. LET c == blocks[i + s] IN
          /\ i \in Int /\ i + s \in DOMAIN blocks /\ IsCall(c) /\ c.id \notin DOMAIN eag
          /\ pend[i] = Call(c.id, c.name, pend[i].args) /\ pend[i].args \in {"none", "some"}
          /\ pend[i].args = "some" => c.args = "some"
    BY <2>1 DEF Feed, PendingOK
  <2>3. blocks[i + s].id # b.id
    BY <1>2, <1>7, <2>1, <2>2
  <2> QED
    BY <1>8, <2>1, <2>2, <2>3
<1>15. EagerOK(blocks, started, more)
  <2> SUFFICES ASSUME NEW d \in DOMAIN started
               PROVE  /\ started[d] \in DOMAIN more
                      /\ \E q \in DOMAIN blocks : /\ IsCall(blocks[q]) /\ blocks[q].id = d
                                                 /\ more[started[d]].call = blocks[q]
    BY DEF EagerOK
  <2>1. CASE d = b.id
    BY <1>2, <1>6, <1>8, <2>1 DEF b
  <2>2. CASE d # b.id
    BY <1>8, <2>2 DEF Feed, EagerOK
  <2> QED
    BY <2>1, <2>2
<1>16. Fed(s, blocks, ch, pend, eag) => Fed(s, blocks, Tail(ch), new, started)
  <2> SUFFICES ASSUME Fed(s, blocks, ch, pend, eag), NEW q \in DOMAIN blocks, IsCall(blocks[q]),
                      blocks[q].id \notin DOMAIN started
               PROVE  Told(blocks[q], q - s, Tail(ch), new)
    BY DEF Fed
  <2>1. Told(blocks[q], q - s, ch, pend) /\ blocks[q].id # b.id
    BY <1>8 DEF Fed
  <2>2. q \in Nat
    BY DEF Feed, BlocksOK, IsSequence
  <2>3. q # e.index + s
    BY <2>1 DEF b
  <2>4. q - s # e.index
    BY <1>2, <2>2, <2>3
  <2> QED
    BY <1>9, <2>1, <2>4
<1>17. Unsealed(s, blocks, ch, eag) => Unsealed(s, blocks, Tail(ch), started)
  <2> SUFFICES ASSUME Unsealed(s, blocks, ch, eag) PROVE Unsealed(s, blocks, Tail(ch), started)
    OBVIOUS
  <2>1. ~Has(Tail(ch), "content_block_stop", Len(blocks) - s)
    BY HasTail DEF Unsealed
  <2>2. e.index # Len(blocks) - s
    BY <1>1 DEF Unsealed, Has, e
  <2>3. IsSequence(blocks) /\ Len(blocks) \in Nat
    BY DEF Feed, BlocksOK, IsSequence
  <2>4. e.index + s # Len(blocks)
    BY <1>2, <2>2, <2>3
  <2>5. IsCall(blocks[Len(blocks)]) => blocks[Len(blocks)].id # b.id
    <3>1. CASE Len(blocks) \in DOMAIN blocks
      BY <1>7, <2>4, <3>1
    <3>2. CASE Len(blocks) \notin DOMAIN blocks
      <4>1. DOMAIN blocks = {}
        BY <2>3, <3>2 DEF IsSequence
      <4> QED
        BY <1>2, <4>1
    <3> QED
      BY <3>1, <3>2
  <2> QED
    BY <1>8, <2>1, <2>5 DEF Unsealed
<1> QED
  <2>1. Feed(s, blocks, reply, Tail(ch), new, started, more)
    BY <1>12, <1>13, <1>14, <1>15, TailKeeps DEF Feed
  <2> QED
    BY <1>2, <1>3, <1>6, <1>16, <1>17, <2>1 DEF b, e

-----------------------------------------------------------------------------
\* An event is sent.

LEMMA OneMore ==
  ASSUME NEW ch, IsSequence(ch), NEW e
  PROVE  /\ IsSequence(ch \o <<e>>) /\ Len(ch) \in Nat /\ DOMAIN ch = 1..Len(ch)
         /\ Len(ch \o <<e>>) = Len(ch) + 1 /\ DOMAIN (ch \o <<e>>) = 1..(Len(ch) + 1)
         /\ \A x \in 1..Len(ch) : (ch \o <<e>>)[x] = ch[x]
         /\ (ch \o <<e>>)[Len(ch) + 1] = e
<1> DEFINE X == Range(ch) \cup {e}
<1>1. ch \in Seq(X) /\ <<e>> \in Seq(X) /\ Len(<<e>>) = 1 /\ <<e>>[1] = e
  BY SeqMonotonic DEF IsSequence
<1> HIDE DEF X
<1>2. ch \o <<e>> \in Seq(X) /\ Len(ch \o <<e>>) = Len(ch) + 1
  BY <1>1, ConcatProperties
<1>3. \A x \in 1..(Len(ch) + 1) : (ch \o <<e>>)[x] = IF x <= Len(ch) THEN ch[x] ELSE <<e>>[x - Len(ch)]
  BY <1>1, ConcatProperties
<1>4. Len(ch) \in Nat /\ DOMAIN ch = 1..Len(ch) /\ DOMAIN (ch \o <<e>>) = 1..(Len(ch) + 1)
  BY <1>1, <1>2
<1>5. (ch \o <<e>>)[Len(ch) + 1] = e
  BY <1>1, <1>3, <1>4
<1>6. \A x \in 1..Len(ch) : (ch \o <<e>>)[x] = ch[x]
  BY <1>3, <1>4
<1>7. IsSequence(ch \o <<e>>)
  BY <1>2, SeqOfRange DEF IsSequence
<1> QED
  BY <1>2, <1>4, <1>5, <1>6, <1>7

LEMMA MoreEvents ==
  ASSUME NEW ch, IsSequence(ch), NEW e
  PROVE  \A x \in DOMAIN (ch \o <<e>>) :
           \/ x \in DOMAIN ch /\ (ch \o <<e>>)[x] = ch[x]
           \/ x = Len(ch) + 1 /\ (ch \o <<e>>)[x] = e
  BY OneMore

LEMMA HasMore ==
  ASSUME NEW ch, IsSequence(ch), NEW e, NEW type, NEW i
  PROVE  Has(ch \o <<e>>, type, i) <=> Has(ch, type, i) \/ (e.type = type /\ e.index = i)
<1> DEFINE c == ch \o <<e>>
<1>1. Has(c, type, i) => Has(ch, type, i) \/ (e.type = type /\ e.index = i)
  BY MoreEvents DEF Has
<1>2. \A x \in DOMAIN ch : x \in DOMAIN c /\ c[x] = ch[x]
  BY OneMore
<1>3. Len(ch) + 1 \in DOMAIN c /\ c[Len(ch) + 1] = e
  BY OneMore
<1> HIDE DEF c
<1>4. Has(ch, type, i) => Has(c, type, i)
  BY <1>2 DEF Has
<1>5. e.type = type /\ e.index = i => Has(c, type, i)
  BY <1>3 DEF Has
<1> QED
  BY <1>1, <1>4, <1>5 DEF c

LEMMA ToldMore ==
  ASSUME NEW ch, IsSequence(ch), NEW e, NEW pend
  PROVE  \A b, i : Told(b, i, ch, pend) => Told(b, i, ch \o <<e>>, pend)
<1>1. \A t, i : Has(ch, t, i) => Has(ch \o <<e>>, t, i)
  BY HasMore
<1> HIDE DEF Has
<1> QED
  BY <1>1 DEF Told

\* What holds of the events sent before holds with one more, if it holds of that.
LEMMA SendOne ==
  ASSUME NEW s \in Nat, NEW blocks, NEW reply, NEW ch, NEW pend, NEW eag, NEW tl, NEW e,
         IsSequence(ch), Feed(s, blocks, reply, ch, pend, eag, tl),
         e.type \in Tooling => e.index + s \in DOMAIN blocks,
         e.type = "tool_use_start" =>
           /\ IsCall(blocks[e.index + s]) /\ blocks[e.index + s].id = e.id
           /\ blocks[e.index + s].name = e.name
           /\ e.index \notin DOMAIN pend /\ blocks[e.index + s].id \notin DOMAIN eag,
         e.type = "input_delta" =>
           IsCall(blocks[e.index + s]) /\ blocks[e.index + s].args = "some",
         e.type = "content_block_stop" /\ IsCall(blocks[e.index + s]) =>
           /\ blocks[e.index + s].id \notin DOMAIN eag /\ blocks[e.index + s] \in Range(reply)
           /\ Told(blocks[e.index + s], e.index, ch, pend),
         \A x \in DOMAIN ch :
           ch[x].type \in Tooling /\ e.type \in Tooling /\ ch[x].index = e.index
           => /\ ch[x].type # "content_block_stop" /\ e.type # "tool_use_start"
              /\ ~(ch[x].type = "input_delta" /\ e.type = "input_delta")
  PROVE  Feed(s, blocks, reply, ch \o <<e>>, pend, eag, tl)
<1> DEFINE c == ch \o <<e>>
<1>1. PlacesOK(s, blocks, c)
  BY MoreEvents DEF Feed, PlacesOK
<1>2. StartsOK(s, blocks, c, pend, eag)
  BY MoreEvents DEF Feed, StartsOK
<1>3. DeltasOK(s, blocks, c)
  BY MoreEvents DEF Feed, DeltasOK
<1>4. StopsOK(s, blocks, reply, c, pend, eag)
  <2> SUFFICES ASSUME NEW x \in DOMAIN c, c[x].type = "content_block_stop", IsCall(blocks[c[x].index + s])
               PROVE  LET b == blocks[c[x].index + s] IN
                      b.id \notin DOMAIN eag /\ b \in Range(reply) /\ Told(b, c[x].index, c, pend)
    BY DEF StopsOK
  <2>1. CASE x \in DOMAIN ch /\ c[x] = ch[x]
    <3>1. LET b == blocks[ch[x].index + s] IN
          b.id \notin DOMAIN eag /\ b \in Range(reply) /\ Told(b, ch[x].index, ch, pend)
      BY <2>1 DEF Feed, StopsOK
    <3> QED
      BY <2>1, <3>1, ToldMore
  <2>2. CASE c[x] = e
    BY <2>2, ToldMore
  <2> QED
    BY <2>1, <2>2, MoreEvents
<1>5. InOrder(c)
  <2> SUFFICES ASSUME NEW x \in DOMAIN c, NEW y \in DOMAIN c, x < y,
                      c[x].type \in Tooling, c[y].type \in Tooling, c[x].index = c[y].index
               PROVE  /\ c[x].type # "content_block_stop" /\ c[y].type # "tool_use_start"
                      /\ ~(c[x].type = "input_delta" /\ c[y].type = "input_delta")
    BY DEF InOrder
  <2>1. x \in DOMAIN ch /\ c[x] = ch[x]
    BY OneMore
  <2>2. CASE y \in DOMAIN ch /\ c[y] = ch[y]
    <3> HIDE DEF c
    <3> QED BY <2>1, <2>2 DEF Feed, InOrder
  <2>3. CASE c[y] = e
    <3> HIDE DEF c
    <3> QED BY <2>1, <2>3
  <2> QED
    BY <2>2, <2>3, MoreEvents
<1> QED
  BY <1>1, <1>2, <1>3, <1>4, <1>5 DEF Feed

-----------------------------------------------------------------------------
\* The parser takes a block.

IsNew(blocks, b) ==
  /\ DOMAIN b = Fields /\ (IsCall(b) => IsBlock(b))
  /\ \A q \in DOMAIN blocks : IsCall(b) /\ IsCall(blocks[q]) => blocks[q].id # b.id

\* A new one.
LEMMA NewBlock ==
  ASSUME NEW s \in Nat, NEW blocks, NEW reply, NEW ch, NEW pend, NEW eag, NEW tl, NEW b,
         Feed(s, blocks, reply, ch, pend, eag, tl),
         IsNew(blocks, b)
  PROVE  /\ Feed(s, Append(blocks, b), reply, ch, pend, eag, tl)
         /\ IsCall(b) => b.id \notin DOMAIN eag
         /\ Len(Append(blocks, b)) = Len(blocks) + 1 /\ Append(blocks, b)[Len(blocks) + 1] = b
         /\ DOMAIN blocks = 1..Len(blocks) /\ Len(blocks) \in Nat
         /\ DOMAIN Append(blocks, b) = 1..(Len(blocks) + 1)
         /\ \A q \in DOMAIN blocks : Append(blocks, b)[q] = blocks[q]
<1> DEFINE n == Len(blocks)
           more == Append(blocks, b)
<1>1. /\ blocks \in Seq(Range(blocks)) /\ n \in Nat /\ DOMAIN blocks = 1..n
      /\ blocks \in Seq(Range(blocks) \cup {b})
  BY SeqMonotonic DEF Feed, BlocksOK, IsSequence
<1>2. /\ more \in Seq(Range(blocks) \cup {b}) /\ Len(more) = n + 1 /\ DOMAIN more = 1..(n + 1)
      /\ more[n + 1] = b /\ \A q \in DOMAIN blocks : more[q] = blocks[q]
  BY <1>1, AppendProperties
<1>3. IsSequence(more)
  BY <1>2, SeqOfRange DEF IsSequence
<1> HIDE DEF more, n
<1>4. \A q \in DOMAIN more : q = n + 1 \/ (q \in DOMAIN blocks /\ more[q] = blocks[q])
  BY <1>1, <1>2
<1>5. \A q \in DOMAIN blocks : q \in DOMAIN more
  BY <1>1, <1>2
<1>6. BlocksOK(more)
  <2>1. Apart(more)
    BY <1>2, <1>4 DEF Feed, BlocksOK, Apart, IsNew
  <2> QED
    BY <1>2, <1>3, <1>4, <2>1 DEF Feed, BlocksOK, IsNew
<1>7. PlacesOK(s, more, ch)
  BY <1>5 DEF Feed, PlacesOK
<1>8. \A x \in DOMAIN ch : ch[x].type \in Tooling => more[ch[x].index + s] = blocks[ch[x].index + s]
  BY <1>2 DEF Feed, PlacesOK
<1>9. StartsOK(s, more, ch, pend, eag)
  BY <1>8 DEF Feed, StartsOK, Tooling
<1>10. DeltasOK(s, more, ch)
  BY <1>8 DEF Feed, DeltasOK, Tooling
<1>11. StopsOK(s, more, reply, ch, pend, eag)
  BY <1>8 DEF Feed, StopsOK, Tooling
<1>12. PendingOK(s, more, pend, eag)
  BY <1>2, <1>5 DEF Feed, PendingOK
<1>13. EagerOK(more, eag, tl)
  BY <1>2, <1>5 DEF Feed, EagerOK
<1>14. IsCall(b) => b.id \notin DOMAIN eag
  BY DEF Feed, EagerOK, IsNew
<1>15. Feed(s, more, reply, ch, pend, eag, tl)
  BY <1>6, <1>7, <1>9, <1>10, <1>11, <1>12, <1>13 DEF Feed
<1> QED
  BY <1>1, <1>2, <1>14, <1>15 DEF more, n

\* One that is not stopped is filled, or its text counted.
LEMMA SameCalls ==
  ASSUME NEW s \in Nat, NEW blocks, NEW reply, NEW ch, NEW pend, NEW eag, NEW tl, NEW new,
         Feed(s, blocks, reply, ch, pend, eag, tl), \A x \in DOMAIN ch : IsEvent(ch[x]),
         NEW n \in DOMAIN blocks, NEW v,
         new = [blocks EXCEPT ![n] = v], DOMAIN v = Fields, IsCall(v) <=> IsCall(blocks[n]),
         IsCall(v) => /\ IsBlock(v) /\ v.id = blocks[n].id /\ v.name = blocks[n].name
                      /\ v.args = "some" /\ v.id \notin DOMAIN eag
                      /\ ~Has(ch, "content_block_stop", n - s)
  PROVE  /\ Feed(s, new, reply, ch, pend, eag, tl)
         /\ Len(new) = Len(blocks) /\ DOMAIN new = DOMAIN blocks /\ new[n] = v
         /\ \A q \in DOMAIN blocks \ {n} : new[q] = blocks[q]
         /\ DOMAIN blocks = 1..Len(blocks) /\ Len(blocks) \in Nat
<1>1. /\ blocks \in Seq(Range(blocks)) /\ Len(blocks) \in Nat /\ DOMAIN blocks = 1..Len(blocks)
      /\ blocks \in Seq(Range(blocks) \cup {v})
  BY SeqMonotonic DEF Feed, BlocksOK, IsSequence
<1>2. /\ new \in Seq(Range(blocks) \cup {v}) /\ Len(new) = Len(blocks) /\ DOMAIN new = DOMAIN blocks
      /\ new[n] = v /\ \A q \in DOMAIN blocks \ {n} : new[q] = blocks[q]
  BY <1>1, ExceptSeq
<1>3. IsSequence(new)
  BY <1>2, SeqOfRange DEF IsSequence
<1>4. \A q \in DOMAIN blocks : /\ IsCall(new[q]) <=> IsCall(blocks[q])
                               /\ IsCall(new[q]) => /\ new[q].id = blocks[q].id
                                                    /\ new[q].name = blocks[q].name
                                                    /\ q # n => new[q] = blocks[q]
  BY <1>2
<1>5. BlocksOK(new)
  <2>1. Apart(new)
    BY <1>2, <1>4 DEF Feed, BlocksOK, Apart
  <2> QED
    BY <1>2, <1>3, <2>1 DEF Feed, BlocksOK
<1>6. PlacesOK(s, new, ch)
  BY <1>2 DEF Feed, PlacesOK
<1>7. \A x \in DOMAIN ch : ch[x].type \in Tooling => ch[x].index + s \in DOMAIN blocks
  BY DEF Feed, PlacesOK
<1>8. StartsOK(s, new, ch, pend, eag)
  BY <1>4, <1>7 DEF Feed, StartsOK, Tooling
<1>9. DeltasOK(s, new, ch)
  <2> SUFFICES ASSUME NEW x \in DOMAIN ch, ch[x].type = "input_delta"
               PROVE  IsCall(new[ch[x].index + s]) /\ new[ch[x].index + s].args = "some"
    BY DEF DeltasOK
  <2>1. /\ ch[x].index + s \in DOMAIN blocks /\ IsCall(blocks[ch[x].index + s])
        /\ blocks[ch[x].index + s].args = "some"
    BY <1>7 DEF Feed, DeltasOK, Tooling
  <2> QED
    BY <1>2, <1>4, <2>1
<1>10. StopsOK(s, new, reply, ch, pend, eag)
  <2> SUFFICES ASSUME NEW x \in DOMAIN ch, ch[x].type = "content_block_stop",
                      IsCall(new[ch[x].index + s])
               PROVE  LET b == new[ch[x].index + s] IN
                      b.id \notin DOMAIN eag /\ b \in Range(reply) /\ Told(b, ch[x].index, ch, pend)
    BY DEF StopsOK
  <2> DEFINE q == ch[x].index + s
  <2>1. q \in DOMAIN blocks
    BY <1>7 DEF Tooling
  <2>2. IsCall(blocks[q])
    BY <1>4, <2>1
  <2>3. blocks[q].id \notin DOMAIN eag /\ blocks[q] \in Range(reply) /\ Told(blocks[q], ch[x].index, ch, pend)
    BY <2>2 DEF Feed, StopsOK
  <2>4. CASE q # n
    BY <1>4, <2>1, <2>3, <2>4
  <2>5. CASE q = n
    <3>1. Has(ch, "content_block_stop", ch[x].index) /\ ch[x].index \in Int
      BY DEF Has, IsEvent
    <3>2. IsCall(v)
      BY <1>2, <2>5
    <3>3. ~Has(ch, "content_block_stop", q - s)
      BY <2>5, <3>2
    <3>4. ch[x].index \in Int => q - s = ch[x].index
      OBVIOUS
    <3> QED
      BY <3>1, <3>3, <3>4
  <2> QED
    BY <2>4, <2>5
<1>11. PendingOK(s, new, pend, eag)
  <2> SUFFICES ASSUME NEW i \in DOMAIN pend
               PROVE  LET b == new[i + s] IN
                      /\ i \in Int /\ i + s \in DOMAIN new /\ IsCall(b) /\ b.id \notin DOMAIN eag
                      /\ pend[i] = Call(b.id, b.name, pend[i].args) /\ pend[i].args \in {"none", "some"}
                      /\ pend[i].args = "some" => b.args = "some"
    BY DEF PendingOK
  <2>1. LET b == blocks[i + s] IN
                      /\ i \in Int /\ i + s \in DOMAIN blocks /\ IsCall(b) /\ b.id \notin DOMAIN eag
                      /\ pend[i] = Call(b.id, b.name, pend[i].args) /\ pend[i].args \in {"none", "some"}
                      /\ pend[i].args = "some" => b.args = "some"
    BY DEF Feed, PendingOK
  <2>2. CASE i + s = n
    BY <1>2, <1>4, <2>1, <2>2
  <2>3. CASE i + s # n
    BY <1>2, <1>4, <2>1, <2>3
  <2> QED
    BY <2>2, <2>3
<1>12. EagerOK(new, eag, tl)
  <2> SUFFICES ASSUME NEW d \in DOMAIN eag
               PROVE  /\ eag[d] \in DOMAIN tl
                      /\ \E q \in DOMAIN new : /\ IsCall(new[q]) /\ new[q].id = d
                                               /\ tl[eag[d]].call = new[q]
    BY DEF EagerOK
  <2>1. eag[d] \in DOMAIN tl
    BY DEF Feed, EagerOK
  <2>2. PICK q \in DOMAIN blocks : IsCall(blocks[q]) /\ blocks[q].id = d /\ tl[eag[d]].call = blocks[q]
    BY DEF Feed, EagerOK
  <2>3. q # n
    BY <1>2, <1>4, <2>2
  <2>4. new[q] = blocks[q] /\ q \in DOMAIN new
    BY <1>2, <2>3
  <2> QED
    BY <2>1, <2>2, <2>4
<1>13. Feed(s, new, reply, ch, pend, eag, tl)
  BY <1>5, <1>6, <1>8, <1>9, <1>10, <1>11, <1>12 DEF Feed
<1> QED
  BY <1>1, <1>2, <1>13

-----------------------------------------------------------------------------
\* A frame is read.

LEMMA WiredTail ==
  ASSUME NEW format, NEW reply, NEW w, Wired(format, reply, w), w # <<>>
  PROVE  /\ Wired(format, reply, Tail(w))
         /\ Legal(format, Head(w)) /\ (Head(w).type \notin Stopping => Head(w).block \in Range(reply))
         /\ Head(w).type \notin Stopping => Tail(w) # <<>>
         /\ Tail(w) # <<>> => /\ Legal(format, Head(Tail(w))) /\ Follows(format, Head(w), Head(Tail(w)))
                              /\ Head(Tail(w)).type \notin Stopping =>
                                   Head(Tail(w)).block \in Range(reply)
         /\ \A j \in DOMAIN Tail(w) :
              Opens(Head(w)) /\ Opens(Tail(w)[j]) => Tail(w)[j].block.id # Head(w).block.id
<1> DEFINE t == Tail(w)
<1>1. IsSequence(w)
  BY DEF Wired
<1>2. /\ IsSequence(t) /\ Len(w) \in Nat /\ Len(w) > 0 /\ DOMAIN w = 1..Len(w)
      /\ Len(t) = Len(w) - 1 /\ DOMAIN t = 1..(Len(w) - 1)
      /\ \A x \in DOMAIN t : t[x] = w[x + 1] /\ x + 1 \in DOMAIN w
      /\ Head(w) = w[1] /\ 1 \in DOMAIN w
  BY <1>1, TailOf
<1>3. t # <<>> => Len(t) > 0 /\ Head(t) = w[2] /\ 1 \in 1..(Len(w) - 1) /\ 2 \in DOMAIN w
  <2>1. SUFFICES ASSUME t # <<>>
                 PROVE  Len(t) > 0 /\ Head(t) = w[2] /\ 1 \in 1..(Len(w) - 1) /\ 2 \in DOMAIN w
    OBVIOUS
  <2>2. Len(t) > 0 /\ Head(t) = t[1] /\ 1 \in DOMAIN t
    BY <1>2, <2>1, TailOf
  <2> HIDE DEF t
  <2> QED
    BY <1>2, <2>2
<1>4. t = <<>> => Len(w) = 1
  <2>1. t = <<>> => Len(t) = 0
    OBVIOUS
  <2>2. Len(w) \in Nat /\ Len(t) = Len(w) - 1
    BY <1>2
  <2> HIDE DEF t
  <2> QED
    BY <2>1, <2>2
<1> HIDE DEF t
<1>5. Wired(format, reply, t)
  <2>1. \A j \in DOMAIN t : Legal(format, t[j]) /\ (t[j].type \notin Stopping => t[j].block \in Range(reply))
    BY <1>2 DEF Wired
  <2>2. t # <<>> => t[Len(t)].type \in Stopping
    <3>1. t # <<>> => t[Len(t)] = w[Len(w)]
      <4>1. t # <<>> => Len(t) \in DOMAIN t
        BY <1>2, <1>3
      <4> QED
        BY <1>2, <4>1
    <3> QED
      BY <3>1 DEF Wired
  <2>3. ASSUME NEW j \in 1..(Len(t) - 1) PROVE Follows(format, t[j], t[j + 1])
    <3>1. /\ j \in DOMAIN t /\ j + 1 \in DOMAIN t /\ j + 1 \in 1..(Len(w) - 1) /\ (j + 1) + 1 \in DOMAIN w
          /\ t[j] = w[j + 1] /\ t[j + 1] = w[(j + 1) + 1]
      BY <1>2
    <3> QED
      BY <3>1 DEF Wired
  <2>4. ASSUME NEW j \in DOMAIN t, NEW k \in DOMAIN t,
               Opens(t[j]), Opens(t[k]), t[j].block.id = t[k].block.id
        PROVE  j = k
    <3>1. j + 1 = k + 1
      BY <1>2, <2>4 DEF Wired
    <3> QED
      BY <1>2, <3>1
  <2> QED
    BY <1>2, <2>1, <2>2, <2>3, <2>4 DEF Wired
<1>6. ASSUME NEW j \in DOMAIN t, Opens(Head(w)), Opens(t[j])
      PROVE  t[j].block.id # Head(w).block.id
  <2>1. t[j] = w[j + 1] /\ j + 1 \in DOMAIN w /\ j + 1 # 1
    BY <1>2
  <2> QED
    BY <1>2, <1>6, <2>1 DEF Wired
<1>7. t # <<>> => Follows(format, Head(w), Head(t))
  <2>1. SUFFICES ASSUME t # <<>> PROVE Follows(format, w[1], w[2])
    BY <1>2, <1>3
  <2>2. 1 \in 1..(Len(w) - 1) /\ 1 + 1 = 2
    BY <1>3, <2>1
  <2> QED
    BY <2>2 DEF Wired
<1>8. t # <<>> => Legal(format, Head(t)) /\ (Head(t).type \notin Stopping => Head(t).block \in Range(reply))
  BY <1>3 DEF Wired
<1>9. Head(w).type \notin Stopping => t # <<>>
  BY <1>2, <1>4 DEF Wired
<1>10. Legal(format, Head(w)) /\ (Head(w).type \notin Stopping => Head(w).block \in Range(reply))
  BY <1>2 DEF Wired
<1> QED
  BY <1>5, <1>6, <1>7, <1>8, <1>9, <1>10 DEF t

\* The frames left stay in order when the parser has taken the first.
LEMMA ParsingNext ==
  ASSUME NEW format, NEW reply, NEW p, NEW q, NEW w, Parsing(format, reply, p, w), w # <<>>,
         \A k \in DOMAIN q.blocks : IsCall(q.blocks[k]) =>
            \/ \E m \in DOMAIN p.blocks : IsCall(p.blocks[m]) /\ p.blocks[m].id = q.blocks[k].id
            \/ Opens(Head(w)) /\ q.blocks[k].id = Head(w).block.id,
         \A g : Legal(format, g) /\ Follows(format, Head(w), g) =>
            Expects(format, q, g) /\ WholeBut(q.blocks, reply, IF g.type \in Deltas THEN Len(q.blocks) ELSE 0),
         Head(w).type \in Stopping => WholeBut(q.blocks, reply, 0)
  PROVE  Parsing(format, reply, q, Tail(w))
<1> DEFINE t == Tail(w)
<1>1. Wired(format, reply, w)
  BY DEF Parsing
<1>2. /\ Wired(format, reply, t)
      /\ Head(w).type \notin Stopping => t # <<>>
      /\ t # <<>> => Legal(format, Head(t)) /\ Follows(format, Head(w), Head(t))
      /\ \A j \in DOMAIN t : Opens(Head(w)) /\ Opens(t[j]) => t[j].block.id # Head(w).block.id
  BY <1>1, WiredTail
<1>3. \A j \in DOMAIN t : t[j] = w[j + 1] /\ j + 1 \in DOMAIN w
  BY <1>1, TailOf DEF Wired
<1> HIDE DEF t
<1>4. WholeBut(q.blocks, reply, BeingRead(q, t))
  <2>1. CASE t # <<>>
    BY <1>2, <2>1 DEF BeingRead
  <2>2. CASE t = <<>>
    BY <1>2, <2>2 DEF BeingRead
  <2> QED
    BY <2>1, <2>2
<1>5. ASSUME NEW j \in DOMAIN t, Opens(t[j]), NEW k \in DOMAIN q.blocks, IsCall(q.blocks[k])
      PROVE  q.blocks[k].id # t[j].block.id
  <2>1. CASE \E m \in DOMAIN p.blocks : IsCall(p.blocks[m]) /\ p.blocks[m].id = q.blocks[k].id
    BY <1>3, <1>5, <2>1 DEF Parsing
  <2>2. CASE Opens(Head(w)) /\ q.blocks[k].id = Head(w).block.id
    BY <1>2, <1>5, <2>2
  <2> QED
    BY <1>5, <2>1, <2>2
<1> QED
  BY <1>2, <1>4, <1>5 DEF Parsing, t
-----------------------------------------------------------------------------
\* What the consumer is told of a block.

LEMMA NoMore ==
  ASSUME NEW ch, IsSequence(ch)
  PROVE  ch \o <<>> = ch
<1>1. ch \in Seq(Range(ch))
  BY DEF IsSequence
<1> QED
  BY <1>1, ConcatEmptySeq

LEMMA FedMore ==
  ASSUME NEW s, NEW blocks, NEW ch, IsSequence(ch), NEW pend, NEW eag, NEW e, Fed(s, blocks, ch, pend, eag)
  PROVE  Fed(s, blocks, ch \o <<e>>, pend, eag)
<1>1. \A b, i : Told(b, i, ch, pend) => Told(b, i, ch \o <<e>>, pend)
  BY ToldMore
<1> QED
  BY <1>1 DEF Fed

LEMMA UnsealedMore ==
  ASSUME NEW s, NEW blocks, NEW ch, IsSequence(ch), NEW eag, NEW e, Unsealed(s, blocks, ch, eag),
         e.type # "content_block_stop"
  PROVE  Unsealed(s, blocks, ch \o <<e>>, eag)
  BY HasMore DEF Unsealed

\* A fragment of text.
LEMMA TextPasses ==
  ASSUME NEW s \in Nat, NEW blocks, NEW reply, NEW ch, NEW pend, NEW eag, NEW tl, NEW e,
         IsSequence(ch), Feed(s, blocks, reply, ch, pend, eag, tl), e.type \notin Tooling
  PROVE  Feed(s, blocks, reply, ch \o <<e>>, pend, eag, tl)
<1>1. e.type # "tool_use_start" /\ e.type # "input_delta" /\ e.type # "content_block_stop"
  BY DEF Tooling
<1> QED
  BY <1>1, SendOne

\* A block begins.
LEMMA BlockBegins ==
  ASSUME NEW s \in Nat, NEW blocks, NEW reply, NEW ch, NEW pend, NEW eag, NEW tl, NEW b,
         IsSequence(ch), \A x \in DOMAIN ch : IsEvent(ch[x]),
         Feed(s, blocks, reply, ch, pend, eag, tl), Fed(s, blocks, ch, pend, eag),
         IsNew(blocks, b)
  PROVE  /\ Feed(s, Append(blocks, b), reply, ch, pend, eag, tl)
         /\ Unsealed(s, Append(blocks, b), ch, eag)
         /\ ~IsCall(b) => Fed(s, Append(blocks, b), ch, pend, eag)
         /\ \A i : i + s = Len(blocks) + 1 /\ i \in Int =>
              /\ i \notin DOMAIN pend
              /\ \A x \in DOMAIN ch : ch[x].type \in Tooling => ch[x].index # i
<1> DEFINE n == Len(blocks)
           more == Append(blocks, b)
<1>0. ASSUME IsCall(b) PROVE b.id \notin DOMAIN eag
  BY <1>0, NewBlock
<1>1. /\ Feed(s, more, reply, ch, pend, eag, tl)
      /\ Len(more) = n + 1 /\ more[n + 1] = b
      /\ DOMAIN blocks = 1..n /\ n \in Nat
      /\ DOMAIN more = 1..(n + 1)
      /\ \A q \in DOMAIN blocks : more[q] = blocks[q]
  BY NewBlock
<1> HIDE DEF more, n
<1>2. ASSUME NEW i \in Int, i + s = n + 1
      PROVE  /\ i \notin DOMAIN pend
             /\ \A x \in DOMAIN ch : ch[x].type \in Tooling => ch[x].index # i
  <2>1. i + s \notin DOMAIN blocks
    BY <1>1, <1>2
  <2> QED
    BY <2>1 DEF Feed, PendingOK, PlacesOK
<1>3. ~Has(ch, "content_block_stop", n + 1 - s)
  <2>1. n + 1 - s \in Int /\ (n + 1 - s) + s = n + 1
    BY <1>1
  <2>2. \A x \in DOMAIN ch : ch[x].type \in Tooling => ch[x].index # n + 1 - s
    BY <1>2, <2>1
  <2> QED
    BY <2>2 DEF Has, Tooling
<1>4. Unsealed(s, more, ch, eag)
  BY <1>0, <1>1, <1>3 DEF Unsealed
<1>5. ~IsCall(b) => Fed(s, more, ch, pend, eag)
  <2> SUFFICES ASSUME ~IsCall(b), NEW q \in DOMAIN more, IsCall(more[q])
               PROVE  more[q].id \in DOMAIN eag \/ Told(more[q], q - s, ch, pend)
    BY DEF Fed
  <2>1. q \in DOMAIN blocks /\ more[q] = blocks[q]
    BY <1>1
  <2> QED
    BY <2>1 DEF Fed
<1> QED
  BY <1>1, <1>2, <1>4, <1>5 DEF n, more

\* The consumer hears that a call begins.
LEMMA CallBegins ==
  ASSUME NEW s \in Nat, NEW blocks, NEW reply, NEW ch, NEW pend, NEW eag, NEW tl, NEW b,
         IsSequence(ch), \A x \in DOMAIN ch : IsEvent(ch[x]),
         Feed(s, blocks, reply, ch, pend, eag, tl), Fed(s, blocks, ch, pend, eag),
         IsBlock(b), IsCall(b),
         \A q \in DOMAIN blocks : IsCall(blocks[q]) => blocks[q].id # b.id,
         NEW i \in Int, i + s = Len(blocks) + 1,
         NEW e, e = Event("tool_use_start", i, b.id, b.name)
  PROVE  /\ Feed(s, Append(blocks, b), reply, ch, pend, eag, tl)
         /\ Feed(s, Append(blocks, b), reply, ch \o <<e>>, pend, eag, tl)
         /\ Unsealed(s, Append(blocks, b), ch \o <<e>>, eag)
         /\ ~Has(ch \o <<e>>, "input_delta", i) /\ Has(ch \o <<e>>, "tool_use_start", i)
         /\ b.args = "none" => Fed(s, Append(blocks, b), ch \o <<e>>, pend, eag)
         /\ Len(Append(blocks, b)) = Len(blocks) + 1 /\ Append(blocks, b)[Len(blocks) + 1] = b
         /\ \A q \in DOMAIN blocks : Append(blocks, b)[q] = blocks[q]
         /\ DOMAIN Append(blocks, b) = DOMAIN blocks \cup {Len(blocks) + 1}
<1> DEFINE n == Len(blocks)
           more == Append(blocks, b)
<1>0. IsNew(blocks, b)
  BY DEF IsBlock, Fields, IsNew
<1>1. /\ Feed(s, more, reply, ch, pend, eag, tl)
      /\ b.id \notin DOMAIN eag
      /\ Len(more) = n + 1 /\ more[n + 1] = b
      /\ DOMAIN blocks = 1..n /\ n \in Nat
      /\ DOMAIN more = 1..(n + 1)
      /\ \A q \in DOMAIN blocks : more[q] = blocks[q]
  BY <1>0, NewBlock
<1>2. /\ Unsealed(s, more, ch, eag) /\ i \notin DOMAIN pend
      /\ \A x \in DOMAIN ch : ch[x].type \in Tooling => ch[x].index # i
  BY <1>0, BlockBegins
<1>3. e.type = "tool_use_start" /\ e.index = i /\ e.id = b.id /\ e.name = b.name
  BY DEF Event
<1>9. i + s \in DOMAIN more /\ more[i + s] = b
  BY <1>1
<1> HIDE DEF more
<1>4. Feed(s, more, reply, ch \o <<e>>, pend, eag, tl)
  BY <1>1, <1>2, <1>3, <1>9, SendOne
<1>5. Unsealed(s, more, ch \o <<e>>, eag)
  BY <1>2, <1>3, UnsealedMore
<1>6. ~Has(ch, "input_delta", i)
  BY <1>2 DEF Has, Tooling
<1>7. ~Has(ch \o <<e>>, "input_delta", i) /\ Has(ch \o <<e>>, "tool_use_start", i)
  BY <1>3, <1>6, HasMore
<1>8. b.args = "none" => Fed(s, more, ch \o <<e>>, pend, eag)
  <2> SUFFICES ASSUME b.args = "none", NEW q \in DOMAIN more, IsCall(more[q]), more[q].id \notin DOMAIN eag
               PROVE  Told(more[q], q - s, ch \o <<e>>, pend)
    BY DEF Fed
  <2>1. CASE q \in DOMAIN blocks
    BY <1>1, <2>1, ToldMore DEF Fed
  <2>2. CASE q \notin DOMAIN blocks
    <3>1. q = n + 1 /\ q - s = i /\ more[q] = b
      BY <1>1, <2>2
    <3> QED
      BY <1>7, <3>1 DEF Told
  <2> QED
    BY <2>1, <2>2
<1>10. DOMAIN more = DOMAIN blocks \cup {n + 1}
  BY <1>1
<1> QED
  BY <1>1, <1>4, <1>5, <1>7, <1>8, <1>10 DEF more

\* Its arguments arrive.
LEMMA CallFilled ==
  ASSUME NEW s \in Nat, NEW blocks, NEW reply, NEW ch, NEW pend, NEW eag, NEW tl,
         IsSequence(ch), Feed(s, blocks, reply, ch, pend, eag, tl), Unsealed(s, blocks, ch, eag),
         NEW i \in Int, i + s = Len(blocks), i + s \in DOMAIN blocks,
         IsCall(blocks[i + s]), blocks[i + s].args = "some", ~Has(ch, "input_delta", i),
         NEW e, e = Event("input_delta", i, NoId, "none")
  PROVE  /\ Feed(s, blocks, reply, ch \o <<e>>, pend, eag, tl)
         /\ Unsealed(s, blocks, ch \o <<e>>, eag)
         /\ Has(ch \o <<e>>, "input_delta", i)
<1>1. e.type = "input_delta" /\ e.index = i
  BY DEF Event
<1>2. Len(blocks) - s = i
  BY DEF Feed, BlocksOK, IsSequence
<1>3. ~Has(ch, "content_block_stop", i)
  BY <1>2 DEF Unsealed
<1>4. Feed(s, blocks, reply, ch \o <<e>>, pend, eag, tl)
  BY <1>1, <1>3, SendOne DEF Has
<1> QED
  BY <1>1, <1>4, UnsealedMore, HasMore

\* Its block stops.
LEMMA BlockEnds ==
  ASSUME NEW s \in Nat, NEW blocks, NEW reply, NEW ch, NEW pend, NEW eag, NEW tl,
         IsSequence(ch), Feed(s, blocks, reply, ch, pend, eag, tl), Unsealed(s, blocks, ch, eag),
         NEW i \in Int, i + s = Len(blocks), i + s \in DOMAIN blocks,
         IsCall(blocks[i + s]) => blocks[i + s] \in Range(reply) /\ Told(blocks[i + s], i, ch, pend),
         NEW e, e = Event("content_block_stop", i, NoId, "none")
  PROVE  Feed(s, blocks, reply, ch \o <<e>>, pend, eag, tl)
<1>1. e.type = "content_block_stop" /\ e.index = i
  BY DEF Event
<1>2. Len(blocks) - s = i
  BY DEF Feed, BlocksOK, IsSequence
<1>3. ~Has(ch, "content_block_stop", i) /\ (IsCall(blocks[i + s]) => blocks[i + s].id \notin DOMAIN eag)
  BY <1>2 DEF Unsealed
<1> QED
  BY <1>1, <1>3, SendOne DEF Has
-----------------------------------------------------------------------------
\* The parsers, frame by frame.

\* The parser has a frame to read.
Ready(format, reply, p, w, ch, pend, eag, tl) ==
  /\ Reading(format, reply, p, w, ch, pend, eag, tl) /\ w # <<>> /\ ParserOK(p) /\ ~p.closed
  /\ IsSequence(ch) /\ \A x \in DOMAIN ch : IsEvent(ch[x])

\* It has become q, and t is left.
Took(format, reply, q, t, ch, pend, eag, tl) ==
  /\ ParserOK(q)
  /\ Feed(Shift(format), q.blocks, reply, ch, pend, eag, tl)
  /\ Feed(Shift(format), q.blocks, reply, ch \o q.events, pend, eag, tl)
  /\ q.closed => WholeBut(q.blocks, reply, 0)
  /\ ~q.closed => Reading(format, reply, q, t, ch \o q.events, pend, eag, tl)

\* The parser with other blocks.
Holding(p, B, S, E) ==
  [blocks |-> B, text |-> p.text, thinking |-> p.thinking, stop |-> p.stop, stopped |-> S,
   saw |-> p.saw, closed |-> p.closed, events |-> E]

LEMMA Holds ==
  ASSUME NEW p, ParserOK(p), NEW B, NEW E
  PROVE  /\ Sends([p EXCEPT !.blocks = B], E) = Holding(p, B, p.stopped, E)
         /\ Sends(p, E) = Holding(p, p.blocks, p.stopped, E)
<1> DEFINE a == p.blocks
           b == p.text
           c == p.thinking
           d == p.stop
           e == p.stopped
           f == p.saw
           g == p.closed
           h == p.events
<1>1. p = [blocks |-> a, text |-> b, thinking |-> c, stop |-> d, stopped |-> e, saw |-> f,
           closed |-> g, events |-> h]
  BY DEF ParserOK, Shaped
<1>2. \A B1, S1, E1 : Holding(p, B1, S1, E1) =
        [blocks |-> B1, text |-> b, thinking |-> c, stop |-> d, stopped |-> S1, saw |-> f,
         closed |-> g, events |-> E1]
  BY DEF Holding
<1> HIDE DEF a, b, c, d, e, f, g, h
<1> DEFINE r == [p EXCEPT !.blocks = B]
<1>3. r = [blocks |-> B, text |-> b, thinking |-> c, stop |-> d, stopped |-> e,
           saw |-> f, closed |-> g, events |-> h]
  BY <1>1
<1> HIDE DEF r
<1>4. Sends(p, E) = [blocks |-> a, text |-> b, thinking |-> c, stop |-> d, stopped |-> e,
                     saw |-> f, closed |-> g, events |-> E]
  BY <1>1 DEF Sends
<1>5. Sends(r, E) =
        [blocks |-> B, text |-> b, thinking |-> c, stop |-> d, stopped |-> e, saw |-> f,
         closed |-> g, events |-> E]
  BY <1>3 DEF Sends
<1> QED
  BY <1>2, <1>4, <1>5 DEF a, e, r

LEMMA HoldingOK ==
  ASSUME NEW p, ParserOK(p), NEW B, NEW S, NEW E, S \subseteq 0..Len(B)
  PROVE  /\ ParserOK(Holding(p, B, S, E)) /\ Holding(p, B, S, E).blocks = B
         /\ Holding(p, B, S, E).stopped = S
         /\ Holding(p, B, S, E).events = E /\ Holding(p, B, S, E).closed = p.closed
<1> DEFINE q == Holding(p, B, S, E)
<1>1. /\ q.blocks = B /\ q.text = p.text /\ q.thinking = p.thinking /\ q.stop = p.stop
      /\ q.stopped = S /\ q.saw = p.saw /\ q.closed = p.closed /\ q.events = E
      /\ q = [blocks |-> q.blocks, text |-> q.text, thinking |-> q.thinking, stop |-> q.stop,
              stopped |-> q.stopped, saw |-> q.saw, closed |-> q.closed, events |-> q.events]
  BY DEF Holding
<1> HIDE DEF q
<1>2. ParserOK(q)
  BY <1>1 DEF ParserOK, Shaped
<1> QED
  BY <1>1, <1>2 DEF q

LEMMA SmallerStopped ==
  ASSUME NEW p, ParserOK(p), NEW m \in Nat, Len(p.blocks) \in Nat, Len(p.blocks) <= m
  PROVE  p.stopped \subseteq 0..m
<1>1. p.stopped \subseteq 0..Len(p.blocks)
  BY DEF ParserOK
<1>2. 0..Len(p.blocks) \subseteq 0..m
  OBVIOUS
<1> QED
  BY <1>1, <1>2

\* What the parser knows of the frame it reads.
LEMMA FrameFacts ==
  ASSUME NEW format, NEW reply, NEW p, NEW w, NEW ch, NEW pend, NEW eag, NEW tl,
         Ready(format, reply, p, w, ch, pend, eag, tl)
  PROVE  LET f == Head(w) IN
         /\ Legal(format, f) /\ IsBlock(f.block) /\ f.index \in Int
         /\ f.type \notin Stopping => f.block \in Range(reply)
         /\ Expects(format, p, f)
         /\ Parsing(format, reply, p, w) /\ w # <<>>
         /\ WholeBut(p.blocks, reply, IF f.type \in Deltas THEN Len(p.blocks) ELSE 0)
         /\ Opens(f) => \A q \in DOMAIN p.blocks : IsCall(p.blocks[q]) => p.blocks[q].id # f.block.id
         /\ IsSequence(p.blocks) /\ Len(p.blocks) \in Nat /\ DOMAIN p.blocks = 1..Len(p.blocks)
         /\ \A q \in DOMAIN p.blocks : DOMAIN p.blocks[q] = Fields /\ (IsCall(p.blocks[q]) => IsBlock(p.blocks[q]))
<1>1. Wired(format, reply, w) /\ w # <<>> /\ Parsing(format, reply, p, w)
  BY DEF Ready, Reading, Parsing
<1>2. Legal(format, Head(w)) /\ (Head(w).type \notin Stopping => Head(w).block \in Range(reply))
  BY <1>1, WiredTail
<1>3. 1 \in DOMAIN w /\ w[1] = Head(w)
  BY <1>1, TailOf DEF Wired
<1>4. BlocksOK(p.blocks)
  BY DEF Ready, Reading, Feed
<1>5. /\ IsSequence(p.blocks) /\ Len(p.blocks) \in Nat /\ DOMAIN p.blocks = 1..Len(p.blocks)
      /\ \A q \in DOMAIN p.blocks : DOMAIN p.blocks[q] = Fields /\ (IsCall(p.blocks[q]) => IsBlock(p.blocks[q]))
  BY <1>4 DEF BlocksOK, IsSequence
<1>6. Opens(Head(w)) => \A q \in DOMAIN p.blocks : IsCall(p.blocks[q]) => p.blocks[q].id # Head(w).block.id
  BY <1>1, <1>3 DEF Parsing
<1>7. Expects(format, p, Head(w))
  BY <1>1 DEF Parsing
<1>8. WholeBut(p.blocks, reply, IF Head(w).type \in Deltas THEN Len(p.blocks) ELSE 0)
  BY <1>1 DEF Parsing, BeingRead
<1>9. IsBlock(Head(w).block) /\ Head(w).index \in Int
  BY <1>2 DEF Legal
<1> QED
  BY <1>1, <1>2, <1>5, <1>6, <1>7, <1>8, <1>9

\* What Bare gives.
LEMMA BareCall ==
  ASSUME NEW b, IsBlock(b)
  PROVE  /\ IsBlock(Bare(b)) /\ (IsCall(Bare(b)) <=> IsCall(b)) /\ Bare(b).id = b.id
         /\ Bare(b).name = b.name /\ Bare(b).args = "none"
         /\ b.args # "some" => Bare(b) = b
         /\ b.args = "some" => [Bare(b) EXCEPT !.args = "some"] = b
         /\ DOMAIN b = Fields
<1> DEFINE k == b.kind
           i == b.id
           n == b.name
           a == b.args
<1>1. /\ b = [kind |-> k, id |-> i, name |-> n, args |-> a] /\ k \in {"text", "thinking", "call"}
      /\ a \in {"none", "some"}
  BY DEF IsBlock
<1> HIDE DEF k, i, n, a
<1>2. Bare(b) = [kind |-> k, id |-> i, name |-> n, args |-> "none"]
  BY <1>1 DEF Bare
<1>3. DOMAIN b = Fields
  BY <1>1 DEF Fields
<1>4. IsCall(b) <=> k = "call"
  BY DEF IsCall, k
<1> DEFINE c == Bare(b)
<1>5. c.kind = k /\ c.id = i /\ c.name = n /\ c.args = "none" /\ c = [kind |-> c.kind, id |-> c.id, name |-> c.name, args |-> c.args]
  BY <1>2
<1> HIDE DEF c
<1>6. IsBlock(c) /\ (IsCall(c) <=> k = "call")
  BY <1>1, <1>5 DEF IsBlock, IsCall
<1>7. a # "some" => c = b
  BY <1>1, <1>2 DEF c
<1>8. a = "some" => [c EXCEPT !.args = "some"] = b
  BY <1>1, <1>2 DEF c
<1> QED
  BY <1>3, <1>4, <1>5, <1>6, <1>7, <1>8 DEF c, i, n, a, k
-----------------------------------------------------------------------------
\* Anthropic.

\* The calls are those it had, and the one that frame f opens.
Known(p, q, f) ==
  \A k \in DOMAIN q.blocks : IsCall(q.blocks[k]) =>
    \/ \E m \in DOMAIN p.blocks : IsCall(p.blocks[m]) /\ p.blocks[m].id = q.blocks[k].id
    \/ Opens(f) /\ q.blocks[k].id = f.block.id

\* It is ready for whatever may come after f.
Continues(format, reply, q, f, more, eag) ==
  /\ \A g : Legal(format, g) /\ Follows(format, f, g) =>
       /\ Expects(format, q, g)
       /\ WholeBut(q.blocks, reply, IF g.type \in Deltas THEN Len(q.blocks) ELSE 0)
       /\ Unstopped(q, g) => Unsealed(Shift(format), q.blocks, more, eag)
  /\ f.type \in Stopping => WholeBut(q.blocks, reply, 0)

\* What the parser has made of a frame holds of what it keeps afterwards.
LEMMA Reads ==
  ASSUME NEW format, NEW reply, NEW p, NEW q, NEW w, NEW ch, NEW pend, NEW eag, NEW tl,
         Ready(format, reply, p, w, ch, pend, eag, tl), NEW more,
         Feed(Shift(format), q.blocks, reply, more, pend, eag, tl),
         Fed(Shift(format), q.blocks, more, pend, eag),
         Known(p, q, Head(w)), Continues(format, reply, q, Head(w), more, eag)
  PROVE  Reading(format, reply, q, Tail(w), more, pend, eag, tl)
<1>1. Parsing(format, reply, p, w) /\ Wired(format, reply, w) /\ w # <<>>
  BY DEF Ready, Reading, Parsing
<1>2. Parsing(format, reply, q, Tail(w))
  BY <1>1, ParsingNext DEF Known, Continues
<1>3. Tail(w) # <<>> => Legal(format, Head(Tail(w))) /\ Follows(format, Head(w), Head(Tail(w)))
  BY <1>1, WiredTail
<1>4. Tail(w) # <<>> /\ Unstopped(q, Head(Tail(w))) => Unsealed(Shift(format), q.blocks, more, eag)
  BY <1>3 DEF Continues
<1> QED
  BY <1>2, <1>4 DEF Reading

LEMMA AnthropicStarts ==
  ASSUME NEW reply, NEW p, NEW w, NEW ch, NEW pend, NEW eag, NEW tl,
         Ready("anthropic", reply, p, w, ch, pend, eag, tl), Head(w).type = "content_block_start",
         NEW q, q = ParseAnthropic(p, Head(w))
  PROVE  Took("anthropic", reply, q, Tail(w), ch, pend, eag, tl) /\ ~q.closed
<1> DEFINE f == Head(w)
           b == f.block
           n == Len(p.blocks)
           c == [b EXCEPT !.args = IF IsCall(b) THEN "none" ELSE 0]
           B == Append(p.blocks, c)
           E == IF IsCall(b) THEN <<Event("tool_use_start", f.index, b.id, b.name)>> ELSE <<>>
<1>1. /\ IsBlock(b) /\ f.index \in Int /\ f.type \notin Stopping /\ b \in Range(reply)
      /\ Expects("anthropic", p, f) /\ WholeBut(p.blocks, reply, 0)
      /\ \A k \in DOMAIN p.blocks : IsCall(b) /\ IsCall(p.blocks[k]) => p.blocks[k].id # b.id
      /\ n \in Nat /\ DOMAIN p.blocks = 1..n
  BY FrameFacts DEF Stopping, Deltas, Opens, Opening
<1>2. q = Sends([p EXCEPT !.blocks = B], E)
  BY DEF ParseAnthropic
<1>3. /\ ParserOK(p) /\ ~p.closed /\ IsSequence(ch) /\ \A x \in DOMAIN ch : IsEvent(ch[x])
      /\ Feed(1, p.blocks, reply, ch, pend, eag, tl) /\ Fed(1, p.blocks, ch, pend, eag)
  BY DEF Ready, Reading, Shift
<1>4. f.index + 1 = n + 1 /\ f.index + 1 = Len(p.blocks) + 1
  BY <1>1 DEF Expects
<1>5. DOMAIN c = Fields /\ (IsCall(b) => c = Bare(b)) /\ (IsCall(c) <=> IsCall(b))
  <2>1. DOMAIN b = Fields
    BY <1>1, BareCall
  <2>2. c.kind = b.kind
    BY <2>1 DEF Fields
  <2> QED
    BY <2>1, <2>2 DEF Bare, IsCall
<1> HIDE DEF c, E, B
<1>6. IsBlock(Bare(b)) /\ Bare(b).id = b.id /\ Bare(b).name = b.name /\ Bare(b).args = "none"
      /\ (b.args # "some" => Bare(b) = b)
  BY <1>1, BareCall
<1>7. IsNew(p.blocks, c)
  BY <1>1, <1>5, <1>6 DEF IsNew
<1>8. /\ Feed(1, B, reply, ch, pend, eag, tl)
      /\ Len(B) = n + 1 /\ B[n + 1] = c /\ DOMAIN B = 1..(n + 1)
      /\ \A k \in DOMAIN p.blocks : B[k] = p.blocks[k]
  BY <1>3, <1>7, NewBlock DEF B
<1>9. ParserOK(q) /\ q.blocks = B /\ q.events = E /\ q.closed = p.closed
  <2>1. p.stopped \subseteq 0..Len(B)
    BY <1>1, <1>3, <1>8, SmallerStopped
  <2> QED
    BY <1>2, <1>3, <2>1, Holds, HoldingOK
<1>10. /\ Feed(1, B, reply, ch \o E, pend, eag, tl)
       /\ Fed(1, B, ch \o E, pend, eag)
       /\ Unsealed(1, B, ch \o E, eag)
  <2>1. CASE IsCall(b)
    <3> DEFINE e == Event("tool_use_start", f.index, Bare(b).id, Bare(b).name)
    <3>1. E = <<e>>
      BY <1>6, <2>1 DEF E
    <3>2. IsBlock(Bare(b)) /\ IsCall(Bare(b)) /\ B = Append(p.blocks, Bare(b))
          /\ \A k \in DOMAIN p.blocks : IsCall(p.blocks[k]) => p.blocks[k].id # Bare(b).id
      BY <1>1, <1>5, <1>6, <2>1 DEF B
    <3> QED
      BY <1>1, <1>3, <1>4, <1>6, <3>1, <3>2, CallBegins
  <2>2. CASE ~IsCall(b)
    <3>1. E = <<>>
      BY <2>2 DEF E
    <3>2. ch \o E = ch
      BY <1>3, <3>1, NoMore
    <3>3. ~IsCall(c)
      BY <1>5, <2>2
    <3> QED
      BY <1>3, <1>7, <1>8, <3>2, <3>3, BlockBegins DEF B
  <2> QED
    BY <2>1, <2>2
<1>11. Reading("anthropic", reply, q, Tail(w), ch \o E, pend, eag, tl)
  <2>1. ASSUME NEW k \in DOMAIN q.blocks, IsCall(q.blocks[k])
        PROVE  \/ \E m \in DOMAIN p.blocks : IsCall(p.blocks[m]) /\ p.blocks[m].id = q.blocks[k].id
               \/ Opens(f) /\ q.blocks[k].id = b.id
    <3>1. CASE k \in DOMAIN p.blocks
      BY <1>8, <1>9, <2>1, <3>1
    <3>2. CASE k \notin DOMAIN p.blocks
      <4>1. k = n + 1 /\ q.blocks[k] = c
        BY <1>1, <1>8, <1>9, <3>2
      <4> QED
        BY <1>5, <1>6, <2>1, <4>1 DEF Opens, Opening
    <3> QED
      BY <3>1, <3>2
  <2>2. ASSUME NEW g, Legal("anthropic", g), Follows("anthropic", f, g)
        PROVE  /\ Expects("anthropic", q, g)
               /\ WholeBut(q.blocks, reply, IF g.type \in Deltas THEN Len(q.blocks) ELSE 0)
    <3>1. /\ g.block = b /\ g.index = f.index
          /\ \/ g.type = "content_block_delta" /\ (IsCall(b) => b.args = "some")
             \/ g.type = "content_block_stop" /\ IsCall(b) /\ b.args # "some"
      BY <2>2 DEF Follows, Stopping
    <3>2. Expects("anthropic", q, g)
      <4>1. n + 1 > 0 /\ g.index + 1 = n + 1
        BY <1>1, <1>4, <3>1
      <4>2. Len(q.blocks) = n + 1 /\ q.blocks[n + 1] = c
        BY <1>8, <1>9
      <4> HIDE DEF f, b, n
      <4> QED
        BY <1>5, <1>6, <3>1, <4>1, <4>2 DEF Expects
    <3>3. \A k \in DOMAIN B : k = n + 1 \/ (k \in DOMAIN p.blocks /\ B[k] = p.blocks[k] /\ k # 0)
      BY <1>1, <1>8
    <3>4. g.type \in Deltas => WholeBut(q.blocks, reply, n + 1)
      BY <1>1, <1>9, <3>3 DEF WholeBut
    <3>5. g.type \notin Deltas => WholeBut(q.blocks, reply, 0)
      <4>1. g.type \notin Deltas => c = b
        BY <1>5, <1>6, <3>1 DEF Deltas
      <4> QED
        BY <1>1, <1>8, <1>9, <3>3, <4>1 DEF WholeBut
    <3> QED
      BY <1>8, <1>9, <3>2, <3>4, <3>5
  <2>3. Shift("anthropic") = 1
    BY DEF Shift
  <2>4. Known(p, q, f)
    BY <2>1 DEF Known
  <2>5. Continues("anthropic", reply, q, f, ch \o E, eag)
    BY <1>1, <1>9, <1>10, <2>2, <2>3 DEF Continues
  <2> QED
    BY <1>9, <1>10, <2>3, <2>4, <2>5, Reads
<1>12. ~q.closed
  BY <1>3, <1>9
<1> QED
  BY <1>8, <1>9, <1>10, <1>11, <1>12 DEF Took, Shift

LEMMA AnthropicFills ==
  ASSUME NEW reply, NEW p, NEW w, NEW ch, NEW pend, NEW eag, NEW tl,
         Ready("anthropic", reply, p, w, ch, pend, eag, tl), Head(w).type = "content_block_delta",
         NEW q, q = ParseAnthropic(p, Head(w))
  PROVE  Took("anthropic", reply, q, Tail(w), ch, pend, eag, tl) /\ ~q.closed
<1> DEFINE f == Head(w)
           b == f.block
           n == Len(p.blocks)
           v == IF IsCall(b) THEN [p.blocks[n] EXCEPT !.args = "some"]
                             ELSE [p.blocks[n] EXCEPT !.args = p.blocks[n].args + 1]
           B == [p.blocks EXCEPT ![n] = v]
           e == IF IsCall(b) THEN Event("input_delta", f.index, NoId, "none")
                ELSE Event(IF b.kind = "text" THEN "text" ELSE "thinking", f.index, NoId, "none")
<1>1. /\ IsBlock(b) /\ f.index \in Int /\ f.type \notin Stopping /\ b \in Range(reply)
      /\ Expects("anthropic", p, f) /\ WholeBut(p.blocks, reply, n)
      /\ n \in Nat /\ DOMAIN p.blocks = 1..n
      /\ \A k \in DOMAIN p.blocks : DOMAIN p.blocks[k] = Fields
  BY FrameFacts DEF Stopping, Deltas
<1>2. /\ n > 0 /\ f.index + 1 = n /\ n \in DOMAIN p.blocks /\ (IsCall(p.blocks[n]) <=> IsCall(b))
      /\ IsCall(b) => p.blocks[n] = Bare(b) /\ b.args = "some"
  BY <1>1 DEF Expects
<1>3. /\ ParserOK(p) /\ ~p.closed /\ IsSequence(ch) /\ \A x \in DOMAIN ch : IsEvent(ch[x])
      /\ Feed(1, p.blocks, reply, ch, pend, eag, tl) /\ Fed(1, p.blocks, ch, pend, eag)
      /\ Unsealed(1, p.blocks, ch, eag)
  BY DEF Ready, Reading, Shift, Unstopped
<1>4. q = Sends([p EXCEPT !.blocks = B], <<e>>)
  <2>1. CASE IsCall(b)
    <3>1. q = Sends([p EXCEPT !.blocks[n].args = "some"], <<e>>)
      BY <1>2, <2>1 DEF ParseAnthropic
    <3> QED
      BY <2>1, <3>1
  <2>2. CASE ~IsCall(b)
    <3>1. q = Sends([p EXCEPT !.blocks[n].args = @ + 1], <<e>>)
      BY <1>2, <2>2 DEF ParseAnthropic, DeltaEvent
    <3> QED
      BY <2>2, <3>1
  <2> QED
    BY <2>1, <2>2
<1>5. IsBlock(Bare(b)) /\ Bare(b).id = b.id /\ Bare(b).name = b.name /\ Bare(b).args = "none"
      /\ (b.args = "some" => [Bare(b) EXCEPT !.args = "some"] = b) /\ DOMAIN b = Fields
  BY <1>1, BareCall
<1>6. /\ DOMAIN v = Fields /\ (IsCall(v) <=> IsCall(b)) /\ (IsCall(b) => v = b)
  <2>1. DOMAIN p.blocks[n] = Fields
    BY <1>1, <1>2
  <2>2. IsCall(b) => v = b
    BY <1>2, <1>5
  <2>3. ~IsCall(b) => DOMAIN v = Fields /\ v.kind = p.blocks[n].kind
    BY <2>1 DEF Fields
  <2> HIDE DEF v
  <2> QED
    BY <1>2, <1>5, <2>2, <2>3 DEF IsCall
<1> HIDE DEF v, B, e
<1>7. IsCall(b) => p.blocks[n].id = b.id /\ p.blocks[n].name = b.name /\ p.blocks[n].args = "none"
  BY <1>2, <1>5
<1>8. n - 1 = f.index /\ ~Has(ch, "content_block_stop", f.index)
      /\ (IsCall(b) => b.id \notin DOMAIN eag)
  BY <1>1, <1>2, <1>3, <1>7 DEF Unsealed
<1>9. /\ Feed(1, B, reply, ch, pend, eag, tl)
      /\ Len(B) = n /\ DOMAIN B = DOMAIN p.blocks /\ B[n] = v
      /\ \A k \in DOMAIN p.blocks \ {n} : B[k] = p.blocks[k]
  <2>1. IsCall(v) => /\ IsBlock(v) /\ v.id = p.blocks[n].id /\ v.name = p.blocks[n].name
                     /\ v.args = "some" /\ v.id \notin DOMAIN eag
                     /\ ~Has(ch, "content_block_stop", n - 1)
    BY <1>1, <1>2, <1>6, <1>7, <1>8
  <2>2. PICK s \in Nat : s = 1
    OBVIOUS
  <2>3. PICK new : new = [p.blocks EXCEPT ![n] = v]
    OBVIOUS
  <2>4. /\ Feed(s, p.blocks, reply, ch, pend, eag, tl) /\ \A x \in DOMAIN ch : IsEvent(ch[x])
        /\ DOMAIN v = Fields /\ (IsCall(v) <=> IsCall(p.blocks[n]))
        /\ IsCall(v) => ~Has(ch, "content_block_stop", n - s)
    BY <1>2, <1>3, <1>6, <2>1, <2>2
  <2> HIDE DEF f, n
  <2>5. n \in DOMAIN p.blocks
    BY <1>2
  <2>6. /\ Feed(s, new, reply, ch, pend, eag, tl)
        /\ Len(new) = Len(p.blocks) /\ DOMAIN new = DOMAIN p.blocks /\ new[n] = v
        /\ \A k \in DOMAIN p.blocks \ {n} : new[k] = p.blocks[k]
    BY <2>1, <2>3, <2>4, <2>5, SameCalls
  <2> QED
    BY <2>2, <2>3, <2>6 DEF B, n
<1>10. ParserOK(q) /\ q.blocks = B /\ q.events = <<e>> /\ q.closed = p.closed
  <2>1. p.stopped \subseteq 0..Len(B)
    BY <1>1, <1>3, <1>9, SmallerStopped
  <2> QED
    BY <1>3, <1>4, <2>1, Holds, HoldingOK
<1>11. Unsealed(1, B, ch, eag)
  BY <1>3, <1>6, <1>7, <1>8, <1>9 DEF Unsealed
<1>12. /\ Feed(1, B, reply, ch \o <<e>>, pend, eag, tl)
       /\ Fed(1, B, ch \o <<e>>, pend, eag)
       /\ Unsealed(1, B, ch \o <<e>>, eag)
  <2>1. CASE IsCall(b)
    <3>1. e = Event("input_delta", f.index, NoId, "none")
      BY <2>1 DEF e
    <3>2. ~Has(ch, "input_delta", f.index)
      <4>1. ~ (f.index + 1 \in DOMAIN p.blocks /\ p.blocks[f.index + 1].args = "some")
        BY <1>2, <1>7, <2>1
      <4> QED
        BY <1>2, <1>3, <4>1 DEF Has, Feed, DeltasOK
    <3>3. B[n] = b /\ b.args = "some" /\ f.index + 1 = Len(B) /\ f.index + 1 \in DOMAIN B
      BY <1>2, <1>6, <1>9, <2>1
    <3>4. IsCall(B[f.index + 1]) /\ B[f.index + 1].args = "some"
      BY <1>2, <2>1, <3>3
    <3>5. /\ Feed(1, B, reply, ch \o <<e>>, pend, eag, tl)
          /\ Unsealed(1, B, ch \o <<e>>, eag)
          /\ Has(ch \o <<e>>, "input_delta", f.index)
      BY <1>1, <1>3, <1>9, <1>11, <3>1, <3>2, <3>3, <3>4, CallFilled
    <3>6. Fed(1, B, ch \o <<e>>, pend, eag)
      <4> SUFFICES ASSUME NEW k \in DOMAIN B, IsCall(B[k]), B[k].id \notin DOMAIN eag
                   PROVE  Told(B[k], k - 1, ch \o <<e>>, pend)
        BY DEF Fed
      <4>1. CASE k # n
        <5>1. k \in DOMAIN p.blocks /\ B[k] = p.blocks[k]
          BY <1>9, <4>1
        <5>2. Told(B[k], k - 1, ch, pend)
          BY <1>3, <5>1 DEF Fed
        <5> QED
          BY <1>3, <5>2, ToldMore
      <4>2. CASE k = n
        <5>1. p.blocks[n].id \notin DOMAIN eag /\ IsCall(p.blocks[n])
          BY <1>2, <1>7, <1>8, <2>1
        <5>2. Told(p.blocks[n], n - 1, ch, pend)
          BY <1>2, <1>3, <5>1 DEF Fed
        <5>3. Told(p.blocks[n], n - 1, ch \o <<e>>, pend)
          BY <1>3, <5>2, ToldMore
        <5> QED
          BY <1>8, <3>5, <4>2, <5>3 DEF Told
      <4> QED
        BY <4>1, <4>2
    <3> QED
      BY <3>5, <3>6
  <2>2. CASE ~IsCall(b)
    <3>1. e.type \in {"text", "thinking"}
      BY <2>2 DEF e, Event
    <3>2. e.type \notin Tooling /\ e.type # "content_block_stop"
      BY <3>1 DEF Tooling
    <3>3. Fed(1, B, ch, pend, eag)
      <4> SUFFICES ASSUME NEW k \in DOMAIN B, IsCall(B[k])
                   PROVE  B[k].id \in DOMAIN eag \/ Told(B[k], k - 1, ch, pend)
        BY DEF Fed
      <4>1. k # n
        BY <1>6, <1>9, <2>2
      <4>2. k \in DOMAIN p.blocks /\ B[k] = p.blocks[k]
        BY <1>9, <4>1
      <4> QED
        BY <1>3, <4>2 DEF Fed
    <3> QED
      BY <1>3, <1>9, <1>11, <3>2, <3>3, TextPasses, FedMore, UnsealedMore
  <2> QED
    BY <2>1, <2>2
<1>13. Known(p, q, f)
  <2> SUFFICES ASSUME NEW k \in DOMAIN B, IsCall(B[k])
               PROVE  \E m \in DOMAIN p.blocks : IsCall(p.blocks[m]) /\ p.blocks[m].id = B[k].id
    BY <1>10 DEF Known
  <2>1. k \in DOMAIN p.blocks /\ IsCall(p.blocks[k]) /\ p.blocks[k].id = B[k].id
    BY <1>2, <1>6, <1>7, <1>9
  <2> QED
    BY <2>1
<1>14. WholeBut(B, reply, 0)
  <2> SUFFICES ASSUME NEW k \in DOMAIN B, IsCall(B[k]) PROVE B[k] \in Range(reply)
    BY DEF WholeBut
  <2>1. CASE k = n
    BY <1>1, <1>6, <1>9, <2>1
  <2>2. CASE k # n
    BY <1>1, <1>9, <2>2 DEF WholeBut
  <2> QED
    BY <2>1, <2>2
<1>15. Continues("anthropic", reply, q, f, ch \o <<e>>, eag)
  <2> SUFFICES ASSUME NEW g, Legal("anthropic", g), Follows("anthropic", f, g)
               PROVE  /\ Expects("anthropic", q, g)
                      /\ WholeBut(B, reply, IF g.type \in Deltas THEN Len(B) ELSE 0)
                      /\ Unstopped(q, g) => Unsealed(Shift("anthropic"), B, ch \o <<e>>, eag)
    BY <1>10, <1>14 DEF Continues
  <2>1. g.block = b /\ g.index = f.index /\ g.type = "content_block_stop"
    BY DEF Follows, Stopping
  <2>2. Expects("anthropic", q, g)
    <3>1. Len(q.blocks) = n /\ q.blocks[n] = v
      BY <1>9, <1>10
    <3> HIDE DEF f, b, n
    <3> QED
      BY <1>2, <1>6, <2>1, <3>1 DEF Expects
  <2>3. Shift("anthropic") = 1 /\ g.type \notin Deltas
    BY <2>1 DEF Shift, Deltas
  <2> QED
    BY <1>12, <1>14, <2>2, <2>3
<1>16. Shift("anthropic") = 1 /\ ~q.closed
  BY <1>3, <1>10 DEF Shift
<1>17. Reading("anthropic", reply, q, Tail(w), ch \o <<e>>, pend, eag, tl)
  BY <1>10, <1>12, <1>13, <1>15, <1>16, Reads
<1> QED
  BY <1>9, <1>10, <1>12, <1>16, <1>17 DEF Took

LEMMA AnthropicStops ==
  ASSUME NEW reply, NEW p, NEW w, NEW ch, NEW pend, NEW eag, NEW tl,
         Ready("anthropic", reply, p, w, ch, pend, eag, tl), Head(w).type = "content_block_stop",
         NEW q, q = ParseAnthropic(p, Head(w))
  PROVE  Took("anthropic", reply, q, Tail(w), ch, pend, eag, tl) /\ ~q.closed
<1> DEFINE f == Head(w)
           b == f.block
           n == Len(p.blocks)
           e == Event("content_block_stop", f.index, NoId, "none")
<1>1. /\ IsBlock(b) /\ f.index \in Int /\ f.type \notin Stopping /\ b \in Range(reply)
      /\ Expects("anthropic", p, f) /\ WholeBut(p.blocks, reply, 0)
      /\ n \in Nat /\ DOMAIN p.blocks = 1..n
  BY FrameFacts DEF Stopping, Deltas
<1>2. /\ n > 0 /\ f.index + 1 = n /\ n \in DOMAIN p.blocks /\ (IsCall(p.blocks[n]) <=> IsCall(b))
      /\ IsCall(b) => p.blocks[n] = b
  BY <1>1 DEF Expects
<1>3. /\ ParserOK(p) /\ ~p.closed /\ IsSequence(ch) /\ \A x \in DOMAIN ch : IsEvent(ch[x])
      /\ Feed(1, p.blocks, reply, ch, pend, eag, tl) /\ Fed(1, p.blocks, ch, pend, eag)
      /\ Unsealed(1, p.blocks, ch, eag)
  BY DEF Ready, Reading, Shift, Unstopped
<1>4. q = Sends(p, <<e>>)
  BY DEF ParseAnthropic
<1> HIDE DEF e
<1>5. ParserOK(q) /\ q.blocks = p.blocks /\ q.events = <<e>> /\ q.closed = p.closed
  <2>1. p.stopped \subseteq 0..n
    BY <1>3 DEF ParserOK
  <2>2. q = Holding(p, p.blocks, p.stopped, <<e>>)
    BY <1>3, <1>4, Holds
  <2> QED
    BY <1>3, <2>1, <2>2, HoldingOK
<1>6. n - 1 = f.index /\ (IsCall(b) => p.blocks[n].id \notin DOMAIN eag)
  BY <1>1, <1>2, <1>3 DEF Unsealed
<1>7. Feed(1, p.blocks, reply, ch \o <<e>>, pend, eag, tl)
  <2>1. IsCall(p.blocks[f.index + 1]) =>
          p.blocks[f.index + 1] \in Range(reply) /\ Told(p.blocks[f.index + 1], f.index, ch, pend)
    <3> SUFFICES ASSUME IsCall(p.blocks[n])
                 PROVE  p.blocks[n] \in Range(reply) /\ Told(p.blocks[n], n - 1, ch, pend)
      BY <1>2, <1>6
    <3> QED
      BY <1>1, <1>2, <1>3, <1>6 DEF Fed
  <2>2. f.index + 1 = Len(p.blocks) /\ f.index + 1 \in DOMAIN p.blocks
    BY <1>2
  <2> QED
    BY <1>1, <1>3, <2>1, <2>2, BlockEnds DEF e
<1>8. Fed(1, p.blocks, ch \o <<e>>, pend, eag)
  BY <1>3, FedMore
<1>9. Known(p, q, f)
  BY <1>5 DEF Known
<1>10. Continues("anthropic", reply, q, f, ch \o <<e>>, eag)
  <2> SUFFICES ASSUME NEW g, Legal("anthropic", g), Follows("anthropic", f, g)
               PROVE  /\ Expects("anthropic", q, g) /\ g.type \notin Deltas
                      /\ ~Unstopped(q, g)
    BY <1>1, <1>5 DEF Continues
  <2>1. (g.type = "content_block_start" /\ g.index = f.index + 1) \/ g.type \in Stopping
    BY DEF Follows, Stopping
  <2> QED
    BY <1>2, <1>5, <2>1 DEF Expects, Deltas, Unstopped, Stopping
<1>11. Shift("anthropic") = 1 /\ ~q.closed
  BY <1>3, <1>5 DEF Shift
<1>12. Reading("anthropic", reply, q, Tail(w), ch \o <<e>>, pend, eag, tl)
  BY <1>5, <1>7, <1>8, <1>9, <1>10, <1>11, Reads
<1> QED
  BY <1>3, <1>5, <1>7, <1>11, <1>12 DEF Took

\* The parser closes.
Shut(q) == q.closed = TRUE

LEMMA StopsShape ==
  ASSUME NEW p, ParserOK(p), NEW B, NEW t, NEW q, q = Stops(p, Answer(B, t))
  PROVE  /\ q.blocks = B /\ q.text = p.text /\ q.thinking = p.thinking /\ q.stop = t /\ q.stopped = p.stopped
         /\ Shut(q) /\ q.events = <<Event("message_stop", 0, NoId, t)>>
         /\ Shaped(q)
<1> DEFINE b == p.text
           c == p.thinking
           e == p.stopped
           f == p.saw
           E == <<Event("message_stop", 0, NoId, t)>>
           x == p.blocks
           d == p.stop
           g == p.closed
           h == p.events
           r0 == [p EXCEPT !.blocks = B]
           r == [r0 EXCEPT !.stop = t]
           r1 == [r EXCEPT !.events = E]
           y == TRUE
           r2 == [r1 EXCEPT !.closed = y]
<1>1. p = [blocks |-> x, text |-> b, thinking |-> c, stop |-> d, stopped |-> e, saw |-> f,
           closed |-> g, events |-> h]
  BY DEF ParserOK, Shaped
<1>2. q = r2
  BY DEF Stops, Answer, Ends
<1> HIDE DEF b, c, e, f, E, x, d, g, h
<1>3. r0 = [blocks |-> B, text |-> b, thinking |-> c, stop |-> d, stopped |-> e, saw |-> f,
            closed |-> g, events |-> h]
  BY <1>1
<1> HIDE DEF r0
<1>4. r = [blocks |-> B, text |-> b, thinking |-> c, stop |-> t, stopped |-> e, saw |-> f,
           closed |-> g, events |-> h]
  BY <1>3
<1> HIDE DEF r
<1>5. r1 = [blocks |-> B, text |-> b, thinking |-> c, stop |-> t, stopped |-> e, saw |-> f,
            closed |-> g, events |-> E]
  BY <1>4
<1> HIDE DEF r1
<1>8. r2 = [r1 EXCEPT !.closed = y]
  OBVIOUS
<1> HIDE DEF y, r2
<1>6. r2 = [blocks |-> B, text |-> b, thinking |-> c, stop |-> t, stopped |-> e, saw |-> f,
            closed |-> y, events |-> E]
  BY <1>5, <1>8
<1> HIDE DEF r2
<1>7. /\ r2.blocks = B /\ r2.text = b /\ r2.thinking = c /\ r2.stop = t /\ r2.stopped = e
      /\ r2.closed = y /\ r2.events = E
      /\ r2 = [blocks |-> r2.blocks, text |-> r2.text, thinking |-> r2.thinking, stop |-> r2.stop,
               stopped |-> r2.stopped, saw |-> r2.saw, closed |-> r2.closed, events |-> r2.events]
  BY <1>6
<1> QED
  BY <1>2, <1>7, Zenon DEF b, c, e, E, y, Shaped, Shut

LEMMA Closes ==
  ASSUME NEW p, ParserOK(p), NEW B, NEW t, t \in Reasons,
         p.stopped \subseteq 0..Len(B), NEW q, q = Stops(p, Answer(B, t))
  PROVE  /\ ParserOK(q) /\ q.blocks = B /\ Shut(q) /\ q.stop = t
         /\ q.events = <<Event("message_stop", 0, NoId, t)>>
<1>2. /\ q.blocks = B /\ q.text = p.text /\ q.thinking = p.thinking /\ q.stop = t /\ q.stopped = p.stopped
      /\ Shut(q) /\ q.events = <<Event("message_stop", 0, NoId, t)>> /\ Shaped(q)
  BY StopsShape
<1>3. ParserOK(q)
  BY <1>2 DEF ParserOK, Shut
<1> QED
  BY <1>2, <1>3

LEMMA EndsFields ==
  ASSUME NEW p, ParserOK(p), NEW E
  PROVE  /\ ParserOK(Ends(p, E)) /\ Ends(p, E).blocks = p.blocks /\ Shut(Ends(p, E))
         /\ Ends(p, E).events = E /\ Ends(p, E).stop = p.stop
<1> DEFINE a == p.blocks
           b == p.text
           c == p.thinking
           d == p.stop
           e == p.stopped
           f == p.saw
           g == p.closed
           h == p.events
           q == Ends(p, E)
           r == [p EXCEPT !.events = E]
<1>1. p = [blocks |-> a, text |-> b, thinking |-> c, stop |-> d, stopped |-> e, saw |-> f,
           closed |-> g, events |-> h]
  BY DEF ParserOK, Shaped
<1>2. b \in Nat /\ c \in Nat /\ d \in Reasons /\ e \subseteq 0..Len(a)
  BY DEF ParserOK
<1> HIDE DEF a, b, c, d, e, f, g, h
<1>6. r = [blocks |-> a, text |-> b, thinking |-> c, stop |-> d, stopped |-> e, saw |-> f,
           closed |-> g, events |-> E]
  BY <1>1
<1>7. q = [r EXCEPT !.closed = TRUE]
  BY DEF Ends
<1> HIDE DEF r
<1>3. q = [blocks |-> a, text |-> b, thinking |-> c, stop |-> d, stopped |-> e, saw |-> f,
           closed |-> TRUE, events |-> E]
  BY <1>6, <1>7
<1> HIDE DEF q
<1>4. /\ q.blocks = a /\ q.text = b /\ q.thinking = c /\ q.stop = d /\ q.stopped = e
      /\ q.closed = TRUE /\ q.events = E
      /\ q = [blocks |-> q.blocks, text |-> q.text, thinking |-> q.thinking, stop |-> q.stop,
              stopped |-> q.stopped, saw |-> q.saw, closed |-> q.closed, events |-> q.events]
  BY <1>3
<1>5. ParserOK(q)
  BY <1>2, <1>4 DEF ParserOK, Shaped
<1> QED
  BY <1>4, <1>5 DEF q, a, d, Shut

LEMMA AnthropicEnds ==
  ASSUME NEW reply, NEW p, NEW w, NEW ch, NEW pend, NEW eag, NEW tl,
         Ready("anthropic", reply, p, w, ch, pend, eag, tl), Head(w).type \in Stopping,
         NEW q, q = ParseAnthropic(p, Head(w))
  PROVE  /\ Took("anthropic", reply, q, Tail(w), ch, pend, eag, tl) /\ Shut(q)
         /\ \E t : q.events = <<Event("message_stop", 0, NoId, t)>>
<1> DEFINE f == Head(w)
<1>1. WholeBut(p.blocks, reply, 0)
  BY FrameFacts DEF Stopping, Deltas
<1>2. /\ ParserOK(p) /\ IsSequence(ch) /\ Feed(1, p.blocks, reply, ch, pend, eag, tl)
  BY DEF Ready, Reading, Shift
<1> DEFINE t == f.type
<1>3. q = Stops(p, Answer(p.blocks, t)) /\ t \in Reasons
  BY DEF ParseAnthropic, Stopping, Reasons
<1> HIDE DEF t
<1>4. p.stopped \subseteq 0..Len(p.blocks)
  BY <1>2 DEF ParserOK
<1>5. ParserOK(q) /\ q.blocks = p.blocks /\ Shut(q)
      /\ q.events = <<Event("message_stop", 0, NoId, t)>>
  BY <1>2, <1>3, <1>4, Closes
<1>6. Event("message_stop", 0, NoId, t).type \notin Tooling
  BY DEF Event, Tooling
<1>7. Feed(1, p.blocks, reply, ch \o q.events, pend, eag, tl)
  BY <1>2, <1>5, <1>6, TextPasses
<1>8. Shift("anthropic") = 1
  BY DEF Shift
<1>9. Took("anthropic", reply, q, Tail(w), ch, pend, eag, tl)
  BY <1>1, <1>2, <1>5, <1>7, <1>8 DEF Took, Shut
<1> QED
  BY <1>5, <1>9

-----------------------------------------------------------------------------
\* A frame that is no call.

Beside(p, q, E) ==
  /\ ParserOK(q) /\ q.blocks = p.blocks /\ q.stopped = p.stopped /\ q.events = E
  /\ q.closed = p.closed

LEMMA BesideText ==
  ASSUME NEW p, ParserOK(p), NEW E
  PROVE  /\ Beside(p, Sends(p, E), E)
         /\ Beside(p, Sends([p EXCEPT !.text = @ + 1], E), E)
         /\ Beside(p, Sends([p EXCEPT !.thinking = @ + 1], E), E)
<1> DEFINE a == p.blocks
           b == p.text
           c == p.thinking
           d == p.stop
           e == p.stopped
           f == p.saw
           g == p.closed
           h == p.events
           r == [p EXCEPT !.text = b + 1]
           s == [p EXCEPT !.thinking = c + 1]
           x == b + 1
           y == c + 1
<1>1. p = [blocks |-> a, text |-> b, thinking |-> c, stop |-> d, stopped |-> e, saw |-> f,
           closed |-> g, events |-> h]
  BY DEF ParserOK, Shaped
<1>2. b \in Nat /\ c \in Nat /\ x \in Nat /\ y \in Nat /\ g \in BOOLEAN /\ d \in Reasons /\ e \subseteq 0..Len(a)
  BY DEF ParserOK
<1>3. /\ Sends([p EXCEPT !.text = @ + 1], E) = [r EXCEPT !.events = E]
      /\ Sends([p EXCEPT !.thinking = @ + 1], E) = [s EXCEPT !.events = E]
      /\ Sends(p, E) = [p EXCEPT !.events = E]
  BY DEF Sends
<1> HIDE DEF a, b, c, d, e, f, g, h, x, y
<1>4. r = [blocks |-> a, text |-> x, thinking |-> c, stop |-> d, stopped |-> e, saw |-> f,
           closed |-> g, events |-> h]
  BY <1>1 DEF x
<1>5. s = [blocks |-> a, text |-> b, thinking |-> y, stop |-> d, stopped |-> e, saw |-> f,
           closed |-> g, events |-> h]
  BY <1>1 DEF y
<1> HIDE DEF r, s
<1>6. ASSUME NEW q, NEW t \in Nat, NEW k \in Nat,
             q = [blocks |-> a, text |-> t, thinking |-> k, stop |-> d, stopped |-> e, saw |-> f,
                  closed |-> g, events |-> h]
      PROVE  Beside(p, [q EXCEPT !.events = E], E)
  <2> DEFINE u == [q EXCEPT !.events = E]
  <2>1. u = [blocks |-> a, text |-> t, thinking |-> k, stop |-> d, stopped |-> e, saw |-> f,
             closed |-> g, events |-> E]
    BY <1>6
  <2> HIDE DEF u
  <2>2. /\ u.blocks = a /\ u.text = t /\ u.thinking = k /\ u.stop = d /\ u.stopped = e
        /\ u.closed = g /\ u.events = E /\ Shaped(u)
    BY <2>1 DEF Shaped
  <2>3. ParserOK(u)
    BY <1>2, <1>6, <2>2 DEF ParserOK
  <2> QED
    BY <2>2, <2>3 DEF Beside, u, a, e, g
<1>7. Beside(p, [p EXCEPT !.events = E], E)
  BY <1>1, <1>2, <1>6
<1>8. Beside(p, [r EXCEPT !.events = E], E)
  BY <1>2, <1>4, <1>6
<1>9. Beside(p, [s EXCEPT !.events = E], E)
  BY <1>2, <1>5, <1>6
<1> QED
  BY <1>3, <1>7, <1>8, <1>9

LEMMA BesideStop ==
  ASSUME NEW p, ParserOK(p), NEW t, t \in Reasons
  PROVE  /\ Beside(p, Sends([p EXCEPT !.stop = t], <<>>), <<>>)
         /\ Beside(p, Sends([p EXCEPT !.saw = TRUE, !.stop = t], <<>>), <<>>)
<1> DEFINE a == p.blocks
           b == p.text
           c == p.thinking
           d == p.stop
           e == p.stopped
           f == p.saw
           g == p.closed
           h == p.events
           E == <<>>
           y == TRUE
           r == [p EXCEPT !.stop = t]
           v == [p EXCEPT !.saw = y]
           s == [v EXCEPT !.stop = t]
<1>1. p = [blocks |-> a, text |-> b, thinking |-> c, stop |-> d, stopped |-> e, saw |-> f,
           closed |-> g, events |-> h]
  BY DEF ParserOK, Shaped
<1>2. b \in Nat /\ c \in Nat /\ g \in BOOLEAN /\ e \subseteq 0..Len(a)
  BY DEF ParserOK
<1>3. /\ Sends([p EXCEPT !.stop = t], E) = [r EXCEPT !.events = E]
      /\ Sends([p EXCEPT !.saw = TRUE, !.stop = t], E) = [s EXCEPT !.events = E]
  BY DEF Sends
<1> HIDE DEF a, b, c, d, e, f, g, h, E, y
<1>4. r = [blocks |-> a, text |-> b, thinking |-> c, stop |-> t, stopped |-> e, saw |-> f,
           closed |-> g, events |-> h]
  BY <1>1
<1>10. v = [blocks |-> a, text |-> b, thinking |-> c, stop |-> d, stopped |-> e, saw |-> y,
           closed |-> g, events |-> h]
  BY <1>1
<1> HIDE DEF v
<1>5. s = [blocks |-> a, text |-> b, thinking |-> c, stop |-> t, stopped |-> e, saw |-> y,
           closed |-> g, events |-> h]
  BY <1>10
<1> HIDE DEF r, s
<1>6. ASSUME NEW q, NEW k,
             q = [blocks |-> a, text |-> b, thinking |-> c, stop |-> t, stopped |-> e, saw |-> k,
                  closed |-> g, events |-> h]
      PROVE  Beside(p, [q EXCEPT !.events = E], E)
  <2> DEFINE u == [q EXCEPT !.events = E]
  <2>1. u = [blocks |-> a, text |-> b, thinking |-> c, stop |-> t, stopped |-> e, saw |-> k,
             closed |-> g, events |-> E]
    BY <1>6
  <2> HIDE DEF u
  <2>2. /\ u.blocks = a /\ u.text = b /\ u.thinking = c /\ u.stop = t /\ u.stopped = e
        /\ u.closed = g /\ u.events = E /\ Shaped(u)
    BY <2>1 DEF Shaped
  <2>3. ParserOK(u)
    BY <1>2, <1>6, <2>2 DEF ParserOK
  <2> QED
    BY <2>2, <2>3 DEF Beside, u, a, e, g
<1>7. Beside(p, [r EXCEPT !.events = E], E)
  BY <1>4, <1>6
<1>8. Beside(p, [s EXCEPT !.events = E], E)
  BY <1>5, <1>6
<1> QED
  BY <1>3, <1>7, <1>8 DEF E

LEMMA Passed ==
  ASSUME NEW format, format \in {"responses", "gemini"}, NEW reply, NEW p, NEW w, NEW ch, NEW pend,
         NEW eag, NEW tl, Ready(format, reply, p, w, ch, pend, eag, tl),
         Head(w).type \in {"part"} \cup Stopping,
         NEW q, NEW E, Beside(p, q, E), NEW e, E = <<>> \/ (E = <<e>> /\ e.type \notin Tooling)
  PROVE  Took(format, reply, q, Tail(w), ch, pend, eag, tl) /\ ~q.closed
<1> DEFINE f == Head(w)
<1>1. WholeBut(p.blocks, reply, 0)
  BY FrameFacts DEF Stopping, Deltas
<1>2. Shift(format) = 0
  BY DEF Shift
<1>3. /\ ParserOK(p) /\ ~p.closed /\ IsSequence(ch)
      /\ Feed(0, p.blocks, reply, ch, pend, eag, tl) /\ Fed(0, p.blocks, ch, pend, eag)
  BY <1>2 DEF Ready, Reading
<1>4. ParserOK(q) /\ q.blocks = p.blocks /\ q.events = E /\ ~q.closed
  BY <1>3 DEF Beside
<1>5. Feed(0, p.blocks, reply, ch \o E, pend, eag, tl) /\ Fed(0, p.blocks, ch \o E, pend, eag)
  <2>1. CASE E = <<>>
    BY <1>3, <2>1, NoMore
  <2>2. CASE E = <<e>> /\ e.type \notin Tooling
    BY <1>3, <2>2, TextPasses, FedMore
  <2> QED
    BY <2>1, <2>2
<1>6. Known(p, q, f)
  BY <1>4 DEF Known
<1>7. Continues(format, reply, q, f, ch \o E, eag)
  <2> SUFFICES ASSUME NEW g, Legal(format, g), Follows(format, f, g)
               PROVE  /\ Expects(format, q, g) /\ g.type \notin Deltas
                      /\ ~Unstopped(q, g)
    BY <1>1, <1>4 DEF Continues
  <2>1. g.type \in {"part", "item.added"} \cup Stopping
    <3>1. CASE format = "responses"
      BY <3>1 DEF Follows, Stopping
    <3>2. CASE format = "gemini"
      BY <3>2 DEF Legal
    <3> QED
      BY <3>1, <3>2
  <2> QED
    BY <2>1 DEF Expects, Deltas, Unstopped, Stopping
<1>8. Reading(format, reply, q, Tail(w), ch \o E, pend, eag, tl)
  BY <1>2, <1>4, <1>5, <1>6, <1>7, Reads
<1> QED
  BY <1>2, <1>3, <1>4, <1>5, <1>8 DEF Took

-----------------------------------------------------------------------------
\* The Responses API.

LEMMA ResponsesAdds ==
  ASSUME NEW reply, NEW p, NEW w, NEW ch, NEW pend, NEW eag, NEW tl,
         Ready("responses", reply, p, w, ch, pend, eag, tl), Head(w).type = "item.added",
         NEW q, q = ParseResponses(p, Head(w))
  PROVE  Took("responses", reply, q, Tail(w), ch, pend, eag, tl) /\ ~q.closed
<1> DEFINE f == Head(w)
           b == f.block
           n == Len(p.blocks)
           c == Bare(b)
           B == Append(p.blocks, c)
           i == n + 1
           e == Event("tool_use_start", i, c.id, c.name)
<1>1. /\ IsBlock(b) /\ f.type \notin Stopping /\ b \in Range(reply)
      /\ WholeBut(p.blocks, reply, 0) /\ Legal("responses", f)
      /\ Opens(f) => \A k \in DOMAIN p.blocks : IsCall(p.blocks[k]) => p.blocks[k].id # b.id
      /\ n \in Nat /\ DOMAIN p.blocks = 1..n
  BY FrameFacts DEF Stopping, Deltas
<1>2. IsCall(b) /\ Opens(f)
  BY <1>1 DEF Legal, Stopping, Opens, Opening
<1>3. /\ ParserOK(p) /\ ~p.closed /\ IsSequence(ch) /\ \A x \in DOMAIN ch : IsEvent(ch[x])
      /\ Feed(0, p.blocks, reply, ch, pend, eag, tl) /\ Fed(0, p.blocks, ch, pend, eag)
  BY DEF Ready, Reading, Shift
<1>4. /\ IsBlock(c) /\ IsCall(c) /\ c.id = b.id /\ c.name = b.name /\ c.args = "none"
      /\ (b.args # "some" => c = b)
  BY <1>1, <1>2, BareCall
<1>5. q = Sends([p EXCEPT !.blocks = B], <<e>>)
  BY <1>4 DEF ParseResponses, Bare
<1>6. \A k \in DOMAIN p.blocks : IsCall(p.blocks[k]) => p.blocks[k].id # c.id
  BY <1>1, <1>2, <1>4
<1>7. i \in Int /\ i + 0 = Len(p.blocks) + 1 /\ i = n + 1
  BY <1>1
<1> HIDE DEF c, B, e, i
<1>15. B = Append(p.blocks, c) /\ e = Event("tool_use_start", i, c.id, c.name)
  BY DEF B, e
<1>8. /\ Feed(0, B, reply, ch, pend, eag, tl)
      /\ Feed(0, B, reply, ch \o <<e>>, pend, eag, tl)
      /\ Unsealed(0, B, ch \o <<e>>, eag)
      /\ Fed(0, B, ch \o <<e>>, pend, eag)
      /\ Len(B) = n + 1 /\ B[n + 1] = c
      /\ \A k \in DOMAIN p.blocks : B[k] = p.blocks[k]
      /\ DOMAIN B = DOMAIN p.blocks \cup {n + 1}
  <2>1. /\ Feed(0, B, reply, ch, pend, eag, tl)
        /\ Feed(0, B, reply, ch \o <<e>>, pend, eag, tl)
    <3>1. PICK z \in Nat : z = 0
      OBVIOUS
    <3>2. PICK o : o = p.blocks
      OBVIOUS
    <3>3. /\ Feed(z, o, reply, ch, pend, eag, tl) /\ Fed(z, o, ch, pend, eag)
          /\ i + z = Len(o) + 1
          /\ \A k \in DOMAIN o : IsCall(o[k]) => o[k].id # c.id
      BY <1>3, <1>6, <1>7, <3>1, <3>2
    <3>4. Feed(z, Append(o, c), reply, ch, pend, eag, tl)
      <4>1. DOMAIN c = Fields
        BY <1>4, BareCall
      <4>2. IsNew(o, c)
        BY <1>4, <3>3, <4>1 DEF IsNew
      <4> QED
        BY <3>3, <4>2, NewBlock
    <3>5. Feed(z, Append(o, c), reply, ch \o <<e>>, pend, eag, tl)
      BY <1>3, <1>4, <1>7, <1>15, <3>3, CallBegins
    <3> QED
      BY <1>15, <3>1, <3>2, <3>4, <3>5
  <2>2. Unsealed(0, B, ch \o <<e>>, eag)
    BY <1>3, <1>4, <1>6, <1>7, <1>15, CallBegins
  <2>3. Fed(0, B, ch \o <<e>>, pend, eag)
    BY <1>3, <1>4, <1>6, <1>7, <1>15, CallBegins
  <2>4. Len(B) = n + 1 /\ B[n + 1] = c
    BY <1>3, <1>4, <1>6, <1>7, <1>15, CallBegins
  <2>5. /\ \A k \in DOMAIN p.blocks : B[k] = p.blocks[k]
        /\ DOMAIN B = DOMAIN p.blocks \cup {n + 1}
    BY <1>3, <1>4, <1>6, <1>7, <1>15, CallBegins
  <2> QED
    BY <2>1, <2>2, <2>3, <2>4, <2>5
<1>9. ParserOK(q) /\ q.blocks = B /\ q.events = <<e>> /\ q.closed = p.closed /\ q.stopped = p.stopped
  <2>1. p.stopped \subseteq 0..Len(B)
    BY <1>1, <1>3, <1>8, SmallerStopped
  <2>2. q = Holding(p, B, p.stopped, <<e>>)
    BY <1>3, <1>5, Holds
  <2> QED
    BY <1>3, <2>1, <2>2, HoldingOK
<1>10. n + 1 \notin q.stopped
  BY <1>1, <1>3, <1>9 DEF ParserOK
<1>11. Known(p, q, f)
  <2> SUFFICES ASSUME NEW k \in DOMAIN B, IsCall(B[k])
               PROVE  \/ \E m \in DOMAIN p.blocks : IsCall(p.blocks[m]) /\ p.blocks[m].id = B[k].id
                      \/ B[k].id = b.id
    BY <1>2, <1>9 DEF Known
  <2>1. CASE k \in DOMAIN p.blocks
    BY <1>8, <2>1
  <2>2. CASE k = n + 1
    BY <1>4, <1>8, <2>2
  <2> QED
    BY <1>8, <2>1, <2>2
<1>12. Continues("responses", reply, q, f, ch \o <<e>>, eag)
  <2> SUFFICES ASSUME NEW g, Legal("responses", g), Follows("responses", f, g)
               PROVE  /\ Expects("responses", q, g)
                      /\ WholeBut(B, reply, IF g.type \in Deltas THEN Len(B) ELSE 0)
    BY <1>1, <1>8, <1>9 DEF Continues, Shift
  <2>1. /\ g.block = b
        /\ \/ g.type = "arguments.delta" /\ b.args = "some"
           \/ g.type = "item.done" /\ b.args # "some"
    BY <1>2 DEF Follows, Stopping
  <2>2. Expects("responses", q, g)
    <3>0. n + 1 > 0
      BY <1>1
    <3>1. Len(q.blocks) = n + 1 /\ q.blocks[n + 1] = c /\ n + 1 > 0
      BY <1>8, <1>9, <3>0
    <3>2. c = Bare(b)
      BY DEF c
    <3> HIDE DEF f, b, n
    <3> QED
      BY <1>4, <1>10, <2>1, <3>1, <3>2 DEF Expects
  <2>3. \A k \in DOMAIN B : k = n + 1 \/ (k \in DOMAIN p.blocks /\ B[k] = p.blocks[k] /\ k # 0)
    BY <1>1, <1>8
  <2>4. g.type \in Deltas => WholeBut(B, reply, n + 1)
    BY <1>1, <2>3 DEF WholeBut
  <2>5. g.type \notin Deltas => WholeBut(B, reply, 0)
    <3>1. g.type \notin Deltas => c = b
      BY <1>4, <2>1 DEF Deltas
    <3> QED
      BY <1>1, <1>8, <2>3, <3>1 DEF WholeBut
  <2> QED
    BY <1>8, <2>2, <2>4, <2>5
<1>13. Shift("responses") = 0 /\ ~q.closed
  BY <1>3, <1>9 DEF Shift
<1>14. Reading("responses", reply, q, Tail(w), ch \o <<e>>, pend, eag, tl)
  BY <1>8, <1>9, <1>11, <1>12, <1>13, Reads
<1> QED
  BY <1>8, <1>9, <1>13, <1>14 DEF Took

LEMMA ResponsesFills ==
  ASSUME NEW reply, NEW p, NEW w, NEW ch, NEW pend, NEW eag, NEW tl,
         Ready("responses", reply, p, w, ch, pend, eag, tl), Head(w).type = "arguments.delta",
         NEW q, q = ParseResponses(p, Head(w))
  PROVE  Took("responses", reply, q, Tail(w), ch, pend, eag, tl) /\ ~q.closed
<1> DEFINE f == Head(w)
           b == f.block
           n == Len(p.blocks)
           v == [p.blocks[n] EXCEPT !.args = "some"]
           B == [p.blocks EXCEPT ![n] = v]
           e == Event("input_delta", n, NoId, "none")
<1>1. /\ IsBlock(b) /\ f.type \notin Stopping /\ b \in Range(reply)
      /\ Expects("responses", p, f) /\ WholeBut(p.blocks, reply, n) /\ Legal("responses", f)
      /\ n \in Nat /\ DOMAIN p.blocks = 1..n
      /\ \A k \in DOMAIN p.blocks : DOMAIN p.blocks[k] = Fields
  BY FrameFacts DEF Stopping, Deltas
<1>2. /\ n > 0 /\ n \in DOMAIN p.blocks /\ n \notin p.stopped
      /\ p.blocks[n] = Bare(b) /\ b.args = "some" /\ IsCall(b)
  BY <1>1 DEF Expects, Legal, Stopping
<1>3. /\ ParserOK(p) /\ ~p.closed /\ IsSequence(ch) /\ \A x \in DOMAIN ch : IsEvent(ch[x])
      /\ Feed(0, p.blocks, reply, ch, pend, eag, tl) /\ Fed(0, p.blocks, ch, pend, eag)
      /\ Unsealed(0, p.blocks, ch, eag)
  BY <1>2 DEF Ready, Reading, Shift, Unstopped
<1>4. q = Sends([p EXCEPT !.blocks = B], <<e>>)
  BY DEF ParseResponses
<1>5. IsBlock(Bare(b)) /\ IsCall(Bare(b)) /\ Bare(b).id = b.id /\ Bare(b).name = b.name /\ Bare(b).args = "none"
      /\ [Bare(b) EXCEPT !.args = "some"] = b /\ DOMAIN b = Fields
  BY <1>1, <1>2, BareCall
<1>6. v = b
  BY <1>2, <1>5
<1> HIDE DEF v, B, e
<1>7. IsCall(p.blocks[n]) /\ p.blocks[n].id = b.id /\ p.blocks[n].name = b.name /\ p.blocks[n].args = "none"
  BY <1>2, <1>5
<1>8. n - 0 = n /\ ~Has(ch, "content_block_stop", n - 0) /\ b.id \notin DOMAIN eag
  BY <1>1, <1>3, <1>7 DEF Unsealed
<1>9. /\ Feed(0, B, reply, ch, pend, eag, tl)
      /\ Len(B) = n /\ DOMAIN B = DOMAIN p.blocks /\ B[n] = b
      /\ \A k \in DOMAIN p.blocks \ {n} : B[k] = p.blocks[k]
  <2>1. IsCall(v) => /\ IsBlock(v) /\ v.id = p.blocks[n].id /\ v.name = p.blocks[n].name
                     /\ v.args = "some" /\ v.id \notin DOMAIN eag
                     /\ ~Has(ch, "content_block_stop", n - 0)
    BY <1>1, <1>2, <1>6, <1>7, <1>8
  <2>2. DOMAIN v = Fields /\ (IsCall(v) <=> IsCall(p.blocks[n]))
    BY <1>2, <1>5, <1>6, <1>7
  <2> QED
    <3>1. B = [p.blocks EXCEPT ![n] = v] /\ n \in DOMAIN p.blocks
      BY <1>2 DEF B
    <3>2. /\ Feed(0, B, reply, ch, pend, eag, tl)
          /\ Len(B) = Len(p.blocks) /\ DOMAIN B = DOMAIN p.blocks /\ B[n] = v
          /\ \A k \in DOMAIN p.blocks \ {n} : B[k] = p.blocks[k]
      <4> HIDE DEF n
      <4>1. Feed(0, B, reply, ch, pend, eag, tl)
        <5>1. PICK z \in Nat : z = 0
          OBVIOUS
        <5>2. /\ Feed(z, p.blocks, reply, ch, pend, eag, tl)
              /\ IsCall(v) => ~Has(ch, "content_block_stop", n - z)
          BY <1>3, <2>1, <5>1
        <5>3. Feed(z, B, reply, ch, pend, eag, tl)
          BY <1>3, <2>1, <2>2, <3>1, <5>2, SameCalls
        <5> QED
          BY <5>1, <5>3
      <4>2. Len(B) = Len(p.blocks) /\ DOMAIN B = DOMAIN p.blocks /\ B[n] = v
        BY <1>3, <2>1, <2>2, <3>1, SameCalls
      <4>3. \A k \in DOMAIN p.blocks \ {n} : B[k] = p.blocks[k]
        BY <1>3, <2>1, <2>2, <3>1, SameCalls
      <4> QED
        BY <4>1, <4>2, <4>3
    <3> QED
      BY <1>6, <3>2
<1>10. ParserOK(q) /\ q.blocks = B /\ q.events = <<e>> /\ q.closed = p.closed /\ q.stopped = p.stopped
  <2>1. p.stopped \subseteq 0..Len(B)
    BY <1>1, <1>3, <1>9, SmallerStopped
  <2>2. q = Holding(p, B, p.stopped, <<e>>)
    BY <1>3, <1>4, Holds
  <2> QED
    BY <1>3, <2>1, <2>2, HoldingOK
<1>11. Unsealed(0, B, ch, eag)
  BY <1>7, <1>8, <1>9 DEF Unsealed
<1>12. /\ Feed(0, B, reply, ch \o <<e>>, pend, eag, tl)
       /\ Fed(0, B, ch \o <<e>>, pend, eag)
       /\ Unsealed(0, B, ch \o <<e>>, eag)
  <2>1. e = Event("input_delta", n, NoId, "none")
    BY DEF e
  <2>2. ~Has(ch, "input_delta", n)
    <3> SUFFICES ASSUME NEW x \in DOMAIN ch, ch[x].type = "input_delta", ch[x].index = n PROVE FALSE
      BY DEF Has
    <3>1. p.blocks[ch[x].index + 0].args = "some"
      BY <1>3 DEF Feed, DeltasOK
    <3>2. ch[x].index + 0 = n
      BY <1>1
    <3> QED
      BY <1>7, <3>1, <3>2
  <2>3. B[n] = b /\ b.args = "some" /\ n + 0 = Len(B) /\ n + 0 \in DOMAIN B /\ n \in Int /\ n + 0 = n
    BY <1>1, <1>2, <1>9
  <2>4. IsCall(B[n + 0]) /\ B[n + 0].args = "some"
    BY <1>2, <2>3
  <2>5. /\ Feed(0, B, reply, ch \o <<e>>, pend, eag, tl)
        /\ Unsealed(0, B, ch \o <<e>>, eag)
        /\ Has(ch \o <<e>>, "input_delta", n)
    BY <1>3, <1>9, <1>11, <2>1, <2>2, <2>3, <2>4, CallFilled
  <2>6. Fed(0, B, ch \o <<e>>, pend, eag)
    <3> SUFFICES ASSUME NEW k \in DOMAIN B, IsCall(B[k]), B[k].id \notin DOMAIN eag
                 PROVE  Told(B[k], k - 0, ch \o <<e>>, pend)
      BY DEF Fed
    <3>1. CASE k # n
      <4>1. k \in DOMAIN p.blocks /\ B[k] = p.blocks[k]
        BY <1>9, <3>1
      <4>2. Told(B[k], k - 0, ch, pend)
        BY <1>3, <4>1 DEF Fed
      <4> QED
        BY <1>3, <4>2, ToldMore
    <3>2. CASE k = n
      <4>1. Told(p.blocks[n], n - 0, ch, pend)
        BY <1>2, <1>3, <1>7, <1>8 DEF Fed
      <4>2. Told(p.blocks[n], n - 0, ch \o <<e>>, pend)
        BY <1>3, <4>1, ToldMore
      <4> QED
        BY <1>8, <2>5, <3>2, <4>2 DEF Told
    <3> QED
      BY <3>1, <3>2
  <2> QED
    BY <2>5, <2>6
<1>13. Known(p, q, f)
  <2> SUFFICES ASSUME NEW k \in DOMAIN B, IsCall(B[k])
               PROVE  \E m \in DOMAIN p.blocks : IsCall(p.blocks[m]) /\ p.blocks[m].id = B[k].id
    BY <1>10 DEF Known
  <2>1. k \in DOMAIN p.blocks /\ IsCall(p.blocks[k]) /\ p.blocks[k].id = B[k].id
    BY <1>2, <1>7, <1>9
  <2> QED
    BY <2>1
<1>14. WholeBut(B, reply, 0)
  <2> SUFFICES ASSUME NEW k \in DOMAIN B, IsCall(B[k]) PROVE B[k] \in Range(reply)
    BY DEF WholeBut
  <2>1. CASE k = n
    BY <1>1, <1>9, <2>1
  <2>2. CASE k # n
    BY <1>1, <1>9, <2>2 DEF WholeBut
  <2> QED
    BY <2>1, <2>2
<1>15. Continues("responses", reply, q, f, ch \o <<e>>, eag)
  <2> SUFFICES ASSUME NEW g, Legal("responses", g), Follows("responses", f, g)
               PROVE  /\ Expects("responses", q, g) /\ g.type \notin Deltas
    BY <1>10, <1>12, <1>14 DEF Continues, Shift
  <2>1. g.block = b /\ g.type = "arguments.done"
    BY DEF Follows, Stopping
  <2>2. Len(q.blocks) = n /\ q.blocks[n] = b /\ n \notin q.stopped
    BY <1>2, <1>9, <1>10
  <2> HIDE DEF f, b, n
  <2> QED
    BY <1>2, <2>1, <2>2 DEF Expects, Deltas
<1>16. Shift("responses") = 0 /\ ~q.closed
  BY <1>3, <1>10 DEF Shift
<1>17. Reading("responses", reply, q, Tail(w), ch \o <<e>>, pend, eag, tl)
  BY <1>10, <1>12, <1>13, <1>15, <1>16, Reads
<1> QED
  BY <1>9, <1>10, <1>12, <1>16, <1>17 DEF Took

LEMMA StoppedShape ==
  ASSUME NEW p, ParserOK(p), NEW S, NEW E
  PROVE  Sends([p EXCEPT !.stopped = @ \cup S], E) = Holding(p, p.blocks, p.stopped \cup S, E)
<1> DEFINE a == p.blocks
           b == p.text
           c == p.thinking
           d == p.stop
           e == p.stopped
           f == p.saw
           g == p.closed
           h == p.events
           S1 == e \cup S
           r == [p EXCEPT !.stopped = S1]
<1>1. p = [blocks |-> a, text |-> b, thinking |-> c, stop |-> d, stopped |-> e, saw |-> f,
           closed |-> g, events |-> h]
  BY DEF ParserOK, Shaped
<1>2. Sends([p EXCEPT !.stopped = @ \cup S], E) = [r EXCEPT !.events = E]
  BY DEF Sends
<1> HIDE DEF S1
<1>3. Holding(p, a, S1, E) =
        [blocks |-> a, text |-> b, thinking |-> c, stop |-> d, stopped |-> S1, saw |-> f,
         closed |-> g, events |-> E]
  BY DEF Holding
<1> HIDE DEF a, b, c, d, e, f, g, h
<1>4. r = [blocks |-> a, text |-> b, thinking |-> c, stop |-> d, stopped |-> S1, saw |-> f,
           closed |-> g, events |-> h]
  BY <1>1
<1> HIDE DEF r
<1>5. [r EXCEPT !.events = E] =
        [blocks |-> a, text |-> b, thinking |-> c, stop |-> d, stopped |-> S1, saw |-> f,
         closed |-> g, events |-> E]
  BY <1>4
<1> QED
  BY <1>2, <1>3, <1>5 DEF S1, a, e

LEMMA ResponsesStops ==
  ASSUME NEW reply, NEW p, NEW w, NEW ch, NEW pend, NEW eag, NEW tl,
         Ready("responses", reply, p, w, ch, pend, eag, tl),
         Head(w).type \in {"arguments.done", "item.done"},
         NEW q, q = ParseResponses(p, Head(w))
  PROVE  Took("responses", reply, q, Tail(w), ch, pend, eag, tl) /\ ~q.closed
<1> DEFINE f == Head(w)
           b == f.block
           n == Len(p.blocks)
           e == Event("content_block_stop", n, NoId, "none")
           S == p.stopped \cup {n}
           E == IF n \in p.stopped THEN <<>> ELSE <<e>>
<1>1. /\ IsBlock(b) /\ f.type \notin Stopping /\ b \in Range(reply)
      /\ Expects("responses", p, f) /\ WholeBut(p.blocks, reply, 0) /\ Legal("responses", f)
      /\ n \in Nat /\ DOMAIN p.blocks = 1..n
  BY FrameFacts DEF Stopping, Deltas
<1>2. /\ n > 0 /\ n \in DOMAIN p.blocks
      /\ p.blocks[n] = b /\ IsCall(b) /\ (f.type = "arguments.done" => n \notin p.stopped)
  BY <1>1 DEF Expects, Legal, Stopping
<1>3. /\ ParserOK(p) /\ ~p.closed /\ IsSequence(ch) /\ \A x \in DOMAIN ch : IsEvent(ch[x])
      /\ Feed(0, p.blocks, reply, ch, pend, eag, tl) /\ Fed(0, p.blocks, ch, pend, eag)
      /\ n \notin p.stopped => Unsealed(0, p.blocks, ch, eag)
  BY <1>2 DEF Ready, Reading, Shift, Unstopped
<1>4. q = IF n \in p.stopped THEN Sends(p, <<>>)
          ELSE Sends([p EXCEPT !.stopped = @ \cup {n}], <<e>>)
  BY DEF ParseResponses, StopOnce
<1> HIDE DEF e
<1>5. /\ ParserOK(q) /\ q.blocks = p.blocks /\ q.events = E /\ q.closed = p.closed
      /\ q.stopped = S
  <2>1. p.stopped \subseteq 0..n /\ S \subseteq 0..n
    BY <1>1, <1>3 DEF ParserOK
  <2>2. CASE n \in p.stopped
    <3>1. q = Holding(p, p.blocks, p.stopped, <<>>)
      BY <1>3, <1>4, <2>2, Holds
    <3>2. S = p.stopped
      BY <2>2
    <3> QED
      BY <1>3, <2>1, <2>2, <3>1, <3>2, HoldingOK
  <2>3. CASE n \notin p.stopped
    <3>1. q = Holding(p, p.blocks, S, <<e>>)
      BY <1>3, <1>4, <2>3, StoppedShape
    <3> QED
      BY <1>3, <2>1, <2>3, <3>1, HoldingOK
  <2> QED
    BY <2>2, <2>3
<1>6. Feed(0, p.blocks, reply, ch \o E, pend, eag, tl) /\ Fed(0, p.blocks, ch \o E, pend, eag)
  <2>1. CASE n \in p.stopped
    BY <1>3, <2>1, NoMore
  <2>2. CASE n \notin p.stopped
    <3>1. IsCall(p.blocks[n]) => p.blocks[n] \in Range(reply) /\ Told(p.blocks[n], n, ch, pend)
      <4>1. n - 0 = n /\ p.blocks[n].id \notin DOMAIN eag
        BY <1>1, <1>2, <1>3, <2>2 DEF Unsealed
      <4> QED
        BY <1>1, <1>2, <1>3, <4>1 DEF Fed
    <3>2. n + 0 = Len(p.blocks) /\ n + 0 \in DOMAIN p.blocks /\ n + 0 = n /\ n \in Int
      BY <1>1, <1>2
    <3>3. Feed(0, p.blocks, reply, ch \o <<e>>, pend, eag, tl)
      <4>1. e = Event("content_block_stop", n, NoId, "none")
        BY DEF e
      <4> HIDE DEF n
      <4> QED
        BY <1>3, <2>2, <3>1, <3>2, <4>1, BlockEnds
    <3>4. Fed(0, p.blocks, ch \o <<e>>, pend, eag)
      BY <1>3, FedMore
    <3> QED
      BY <2>2, <3>3, <3>4
  <2> QED
    BY <2>1, <2>2
<1>7. Known(p, q, f)
  BY <1>5 DEF Known
<1>8. Continues("responses", reply, q, f, ch \o E, eag)
  <2> SUFFICES ASSUME NEW g, Legal("responses", g), Follows("responses", f, g)
               PROVE  /\ Expects("responses", q, g) /\ g.type \notin Deltas
                      /\ ~Unstopped(q, g)
    BY <1>1, <1>5 DEF Continues
  <2>1. \/ g.type = "item.done" /\ g.block = b
        \/ g.type \in {"part", "item.added"} \cup Stopping
    BY DEF Follows, Stopping
  <2>2. n \in q.stopped /\ q.blocks = p.blocks /\ n = Len(q.blocks)
    BY <1>5
  <2> HIDE DEF f, b, n, S, E
  <2> QED
    BY <1>2, <2>1, <2>2 DEF Expects, Deltas, Unstopped, Stopping
<1>9. Shift("responses") = 0 /\ ~q.closed
  BY <1>3, <1>5 DEF Shift
<1>10. Reading("responses", reply, q, Tail(w), ch \o E, pend, eag, tl)
  BY <1>5, <1>6, <1>7, <1>8, <1>9, Reads
<1> QED
  BY <1>3, <1>5, <1>6, <1>9, <1>10 DEF Took

LEMMA ResponsesPasses ==
  ASSUME NEW reply, NEW p, NEW w, NEW ch, NEW pend, NEW eag, NEW tl,
         Ready("responses", reply, p, w, ch, pend, eag, tl), Head(w).type \in {"part"} \cup Stopping,
         NEW q, q = ParseResponses(p, Head(w))
  PROVE  Took("responses", reply, q, Tail(w), ch, pend, eag, tl) /\ ~q.closed
<1> DEFINE f == Head(w)
           b == f.block
           e == DeltaEvent(b, Len(p.blocks))[1]
<1>1. ParserOK(p) /\ Legal("responses", f) /\ IsBlock(b)
  BY FrameFacts DEF Ready
<1>2. DeltaEvent(b, Len(p.blocks)) = <<e>> /\ e.type \notin Tooling
  BY DEF DeltaEvent, Event, Tooling
<1>3. CASE f.type = "part" /\ b.kind = "text"
  <2>1. q = Sends([p EXCEPT !.text = @ + 1], <<e>>)
    BY <1>2, <1>3 DEF ParseResponses
  <2>2. Beside(p, q, <<e>>)
    BY <1>1, <2>1, BesideText
  <2> QED
    BY <1>2, <2>2, Passed
<1>4. CASE f.type = "part" /\ b.kind = "thinking"
  <2>1. q = Sends([p EXCEPT !.thinking = @ + 1], <<e>>)
    BY <1>2, <1>4 DEF ParseResponses
  <2>2. Beside(p, q, <<e>>)
    BY <1>1, <2>1, BesideText
  <2> QED
    BY <1>2, <2>2, Passed
<1>5. CASE f.type \in Stopping
  <2>1. q = Sends([p EXCEPT !.saw = TRUE, !.stop = f.type], <<>>)
    BY <1>5 DEF ParseResponses, Stopping
  <2>2. f.type \in Reasons
    BY <1>5 DEF Stopping, Reasons
  <2>3. Beside(p, q, <<>>)
    BY <1>1, <2>1, <2>2, BesideStop
  <2> QED
    BY <2>3, Passed
<1>6. f.type = "part" => b.kind \in {"text", "thinking"}
  BY <1>1 DEF Legal, IsBlock, IsCall, Stopping
<1> QED
  BY <1>3, <1>4, <1>5, <1>6

-----------------------------------------------------------------------------
\* Events that are sent one after the other, and may end with any of them.

AllAlong(s, blocks, reply, ch, E, pend, eag, tl) ==
  /\ IsSequence(E)
  /\ \A n \in 0..Len(E) : Feed(s, blocks, reply, ch \o SubSeq(E, 1, n), pend, eag, tl)

LEMMA EmptySequence == IsSequence(<<>>) /\ Len(<<>>) = 0
  BY EmptySeq DEF IsSequence

LEMMA AlongNone ==
  ASSUME NEW s, NEW blocks, NEW reply, NEW ch, NEW pend, NEW eag, NEW tl,
         IsSequence(ch), Feed(s, blocks, reply, ch, pend, eag, tl)
  PROVE  AllAlong(s, blocks, reply, ch, <<>>, pend, eag, tl)
<1> SUFFICES ASSUME NEW n \in 0..0
             PROVE  Feed(s, blocks, reply, ch \o SubSeq(<<>>, 1, n), pend, eag, tl)
  BY EmptySequence DEF AllAlong
<1>1. SubSeq(<<>>, 1, n) = <<>>
  BY SubSeqEmpty
<1> QED
  BY <1>1, NoMore

LEMMA OneByOne ==
  ASSUME NEW ch, IsSequence(ch), NEW E, IsSequence(E), NEW e
  PROVE  /\ IsSequence(E \o <<e>>) /\ Len(E) \in Nat /\ Len(E \o <<e>>) = Len(E) + 1
         /\ ch \o (E \o <<e>>) = (ch \o E) \o <<e>>
         /\ \A n \in 0..Len(E) : SubSeq(E \o <<e>>, 1, n) = SubSeq(E, 1, n)
         /\ SubSeq(E \o <<e>>, 1, Len(E) + 1) = E \o <<e>>
         /\ <<>> \o <<e>> = <<e>>
<1> DEFINE X == Range(ch) \cup Range(E) \cup {e}
<1>1. ch \in Seq(X) /\ E \in Seq(X) /\ <<e>> \in Seq(X) /\ Len(<<e>>) = 1
  <2>1. <<e>> \in Seq(X)
    OBVIOUS
  <2>2. ch \in Seq(X)
    BY SeqMonotonic DEF IsSequence
  <2>3. E \in Seq(X)
    BY SeqMonotonic DEF IsSequence
  <2> QED
    BY <2>1, <2>2, <2>3
<1> HIDE DEF X
<1>2. E \o <<e>> \in Seq(X) /\ Len(E \o <<e>>) = Len(E) + 1 /\ IsSequence(E \o <<e>>) /\ Len(E) \in Nat
  BY <1>1, OneMore
<1>3. ch \o (E \o <<e>>) = (ch \o E) \o <<e>>
  BY <1>1, ConcatAssociative
<1>4. ASSUME NEW n \in 0..Len(E) PROVE SubSeq(E \o <<e>>, 1, n) = SubSeq(E, 1, n)
  <2>1. CASE n = 0
    BY <2>1, SubSeqEmpty
  <2>2. CASE n # 0
    <3>1. n \in 1..Len(E) /\ 1 \in 1..Len(E)
      BY <1>2, <2>2
    <3> QED
      BY <1>1, <3>1, SubSeqOfConcat1
  <2> QED
    BY <2>1, <2>2
<1>5. SubSeq(E \o <<e>>, 1, Len(E) + 1) = E \o <<e>>
  BY <1>2, SubSeqFull
<1>6. <<>> \o <<e>> = <<e>>
  BY <1>1, ConcatEmptySeq
<1> QED
  BY <1>2, <1>3, <1>4, <1>5, <1>6

LEMMA Grouped ==
  ASSUME NEW ch, IsSequence(ch), NEW E, IsSequence(E), NEW t, IsSequence(t), NEW F, F = E \o t
  PROVE  ch \o F = (ch \o E) \o t
<1> DEFINE X == Range(ch) \cup Range(E) \cup Range(t)
<1>1. ch \in Seq(X) /\ E \in Seq(X) /\ t \in Seq(X)
  BY SeqMonotonic DEF IsSequence
<1> HIDE DEF X
<1> QED
  BY <1>1, ConcatAssociative

LEMMA Single ==
  ASSUME NEW e
  PROVE  IsSequence(<<e>>)
<1>1. <<e>> \in Seq({e})
  OBVIOUS
<1> QED
  BY <1>1, SeqOfRange DEF IsSequence

LEMMA AlongMore ==
  ASSUME NEW s, NEW blocks, NEW reply, NEW ch, NEW pend, NEW eag, NEW tl, NEW E, NEW e,
         IsSequence(ch), AllAlong(s, blocks, reply, ch, E, pend, eag, tl),
         Feed(s, blocks, reply, (ch \o E) \o <<e>>, pend, eag, tl)
  PROVE  AllAlong(s, blocks, reply, ch, E \o <<e>>, pend, eag, tl)
<1>1. IsSequence(E) /\ \A n \in 0..Len(E) : Feed(s, blocks, reply, ch \o SubSeq(E, 1, n), pend, eag, tl)
  BY DEF AllAlong
<1> DEFINE F == E \o <<e>>
<1>2. /\ IsSequence(F) /\ Len(E) \in Nat /\ Len(F) = Len(E) + 1
      /\ ch \o F = (ch \o E) \o <<e>>
      /\ \A n \in 0..Len(E) : SubSeq(F, 1, n) = SubSeq(E, 1, n)
      /\ SubSeq(F, 1, Len(E) + 1) = F
  <2>1. IsSequence(F) /\ Len(E) \in Nat /\ Len(F) = Len(E) + 1
    BY <1>1, OneByOne
  <2>2. ch \o F = (ch \o E) \o <<e>>
    BY <1>1, Grouped, Single
  <2>3. \A n \in 0..Len(E) : SubSeq(F, 1, n) = SubSeq(E, 1, n)
    BY <1>1, OneByOne
  <2>4. SubSeq(F, 1, Len(E) + 1) = F
    BY <1>1, OneByOne
  <2> QED
    BY <2>1, <2>2, <2>3, <2>4
<1> HIDE DEF F
<1> SUFFICES ASSUME NEW n \in 0..Len(F)
             PROVE  Feed(s, blocks, reply, ch \o SubSeq(F, 1, n), pend, eag, tl)
  BY <1>2 DEF AllAlong, F
<1>3. CASE n \in 0..Len(E)
  BY <1>1, <1>2, <1>3
<1>4. CASE n = Len(E) + 1
  BY <1>2, <1>4
<1> QED
  BY <1>2, <1>3, <1>4

LEMMA AlongOne ==
  ASSUME NEW s, NEW blocks, NEW reply, NEW ch, NEW pend, NEW eag, NEW tl, NEW E, NEW e,
         IsSequence(ch), E = <<>> \/ E = <<e>>,
         Feed(s, blocks, reply, ch, pend, eag, tl), Feed(s, blocks, reply, ch \o E, pend, eag, tl)
  PROVE  AllAlong(s, blocks, reply, ch, E, pend, eag, tl)
<1>1. AllAlong(s, blocks, reply, ch, <<>>, pend, eag, tl)
  BY AlongNone
<1>2. CASE E = <<>>
  BY <1>1, <1>2
<1>3. CASE E = <<e>>
  <2>1. Feed(s, blocks, reply, (ch \o <<>>) \o <<e>>, pend, eag, tl)
    BY <1>3, NoMore
  <2>2. AllAlong(s, blocks, reply, ch, <<>> \o <<e>>, pend, eag, tl)
    BY <1>1, <2>1, AlongMore
  <2> QED
    BY <1>3, <2>2, EmptySequence, OneByOne
<1> QED
  BY <1>2, <1>3

-----------------------------------------------------------------------------
\* Gemini.

\* The stop of a call that is complete.
LEMMA CallStops ==
  ASSUME NEW s \in Nat, NEW B, NEW reply, NEW ch, NEW pend, NEW eag, NEW tl,
         IsSequence(ch), NEW i \in Int, i + s = Len(B), i + s \in DOMAIN B,
         IsCall(B[i + s]), B[i + s] \in Range(reply),
         NEW e, e = Event("content_block_stop", i, NoId, "none"),
         NEW F, IsSequence(F), AllAlong(s, B, reply, ch, F, pend, eag, tl),
         Feed(s, B, reply, ch \o F, pend, eag, tl), IsSequence(ch \o F),
         Fed(s, B, ch \o F, pend, eag), Unsealed(s, B, ch \o F, eag), NEW E, E = F \o <<e>>
  PROVE  /\ AllAlong(s, B, reply, ch, E, pend, eag, tl)
         /\ Feed(s, B, reply, ch \o E, pend, eag, tl)
         /\ Fed(s, B, ch \o E, pend, eag)
<1> DEFINE d == ch \o F
<1>1. ch \o E = d \o <<e>>
  <2>1. PICK t : t = <<e>> /\ IsSequence(t)
    BY Single
  <2>2. ch \o (F \o t) = (ch \o F) \o t
    BY <2>1, Grouped
  <2> QED
    BY <2>1, <2>2
<1>2. AllAlong(s, B, reply, ch, F, pend, eag, tl)
  OBVIOUS
<1>3. Feed(s, B, reply, d, pend, eag, tl) /\ Unsealed(s, B, d, eag) /\ IsSequence(d) /\ Fed(s, B, d, pend, eag)
  OBVIOUS
<1> HIDE DEF d
<1>4. B[i + s].id \notin DOMAIN eag
  BY <1>3 DEF Unsealed
<1>5. (i + s) - s = i
  <2>1. s \in Int
    OBVIOUS
  <2> QED
    BY <2>1
<1>6. Told(B[i + s], i, d, pend)
  BY <1>3, <1>4, <1>5 DEF Fed
<1>7. Feed(s, B, reply, d \o <<e>>, pend, eag, tl)
  BY <1>3, <1>6, BlockEnds
<1>8. Fed(s, B, d \o <<e>>, pend, eag)
  BY <1>3, FedMore
<1>9. AllAlong(s, B, reply, ch, E, pend, eag, tl)
  BY <1>2, <1>7, AlongMore DEF d
<1> QED
  BY <1>1, <1>7, <1>8, <1>9

LEMMA WholeCall ==
  ASSUME NEW s \in Nat, NEW blocks, NEW reply, NEW ch, NEW pend, NEW eag, NEW tl, NEW b,
         IsSequence(ch), \A x \in DOMAIN ch : IsEvent(ch[x]),
         Feed(s, blocks, reply, ch, pend, eag, tl), Fed(s, blocks, ch, pend, eag),
         IsBlock(b), IsCall(b), b \in Range(reply),
         \A q \in DOMAIN blocks : IsCall(blocks[q]) => blocks[q].id # b.id,
         NEW i \in Int, i + s = Len(blocks) + 1,
         NEW e1, e1 = Event("tool_use_start", i, b.id, b.name),
         NEW e2, e2 = Event("input_delta", i, NoId, "none"),
         NEW e3, e3 = Event("content_block_stop", i, NoId, "none"),
         NEW E, E = (<<e1>> \o WithArgs(b, <<e2>>)) \o <<e3>>
  PROVE  /\ AllAlong(s, Append(blocks, b), reply, ch, E, pend, eag, tl)
         /\ Feed(s, Append(blocks, b), reply, ch, pend, eag, tl)
         /\ Feed(s, Append(blocks, b), reply, ch \o E, pend, eag, tl)
         /\ Fed(s, Append(blocks, b), ch \o E, pend, eag)
<1> DEFINE B == Append(blocks, b)
           c1 == ch \o <<e1>>
<1>1. /\ Feed(s, B, reply, ch, pend, eag, tl)
      /\ Unsealed(s, B, c1, eag)
  BY CallBegins
<1>2. Feed(s, B, reply, c1, pend, eag, tl)
  BY CallBegins
<1>3. /\ ~Has(c1, "input_delta", i) /\ Has(c1, "tool_use_start", i)
      /\ b.args = "none" => Fed(s, B, c1, pend, eag)
  <2>4. IsNew(blocks, b)
    BY BareCall DEF IsNew
  <2>5. \A x \in DOMAIN ch : ch[x].type \in Tooling => ch[x].index # i
    BY <2>4, BlockBegins
  <2>6. e1.type = "tool_use_start" /\ e1.index = i
    BY DEF Event
  <2>1. ~Has(c1, "input_delta", i)
    BY <2>5, <2>6, HasMore DEF Has, Tooling
  <2>2. Has(c1, "tool_use_start", i)
    BY <2>6, HasMore
  <2>3. ASSUME b.args = "none" PROVE Fed(s, B, c1, pend, eag)
    BY <2>3, CallBegins
  <2> QED
    BY <2>1, <2>2, <2>3
<1>4. /\ Len(B) = Len(blocks) + 1 /\ B[Len(blocks) + 1] = b
      /\ \A q \in DOMAIN blocks : B[q] = blocks[q]
      /\ DOMAIN B = DOMAIN blocks \cup {Len(blocks) + 1}
  <2>1. Len(B) = Len(blocks) + 1 /\ B[Len(blocks) + 1] = b
    BY CallBegins
  <2>2. \A q \in DOMAIN blocks : B[q] = blocks[q]
    BY CallBegins
  <2>3. DOMAIN B = DOMAIN blocks \cup {Len(blocks) + 1}
    <3>1. IsNew(blocks, b)
      BY BareCall DEF IsNew
    <3>2. DOMAIN B = 1..(Len(blocks) + 1) /\ DOMAIN blocks = 1..Len(blocks) /\ Len(blocks) \in Nat
      BY <3>1, NewBlock
    <3> QED
      BY <3>2
  <2> QED
    BY <2>1, <2>2, <2>3
<1>5. IsSequence(c1) /\ IsSequence(<<e1>>) /\ IsSequence(<<e2>>) /\ IsSequence(<<e3>>)
  BY OneMore, Single
<1> HIDE DEF B, c1
<1>6. i + s = Len(B) /\ i + s \in DOMAIN B /\ B[i + s] = b
  BY <1>4
<1>7. AllAlong(s, B, reply, ch, <<e1>>, pend, eag, tl)
  BY <1>1, <1>2, AlongOne DEF c1
<1>8. ASSUME NEW F, IsSequence(F), AllAlong(s, B, reply, ch, F, pend, eag, tl),
             Feed(s, B, reply, ch \o F, pend, eag, tl), IsSequence(ch \o F),
             Fed(s, B, ch \o F, pend, eag), Unsealed(s, B, ch \o F, eag), E = F \o <<e3>>
      PROVE  /\ AllAlong(s, B, reply, ch, E, pend, eag, tl)
             /\ Feed(s, B, reply, ch \o E, pend, eag, tl)
             /\ Fed(s, B, ch \o E, pend, eag)
  <2>1. IsCall(B[i + s]) /\ B[i + s] \in Range(reply)
    BY <1>6
  <2> QED
    BY <1>6, <1>8, <2>1, CallStops
<1>9. CASE b.args # "some"
  <2>1. E = <<e1>> \o <<e3>>
    BY <1>5, <1>9, NoMore DEF WithArgs
  <2>2. b.args = "none"
    BY <1>9 DEF IsBlock
  <2> QED
    BY <1>1, <1>2, <1>3, <1>5, <1>7, <1>8, <2>1, <2>2 DEF B, c1
<1>10. CASE b.args = "some"
  <2> DEFINE F == <<e1>> \o <<e2>>
             c2 == c1 \o <<e2>>
  <2>1. E = F \o <<e3>>
    BY <1>10 DEF WithArgs
  <2>2. IsSequence(F) /\ ch \o F = c2
    <3>1. IsSequence(F)
      BY <1>5, OneMore
    <3>2. ch \o F = (ch \o <<e1>>) \o <<e2>>
      <4>1. PICK t : t = <<e1>> /\ IsSequence(t)
        BY Single
      <4>2. PICK u : u = <<e2>> /\ IsSequence(u)
        BY Single
      <4>3. ch \o (t \o u) = (ch \o t) \o u
        BY <4>1, <4>2, Grouped
      <4> QED
        BY <4>1, <4>2, <4>3
    <3> QED
      BY <3>1, <3>2 DEF c1
  <2>3. /\ Feed(s, B, reply, c2, pend, eag, tl)
        /\ Unsealed(s, B, c2, eag)
        /\ Has(c2, "input_delta", i)
    BY <1>1, <1>2, <1>3, <1>5, <1>6, <1>10, CallFilled
  <2>4. IsSequence(c2)
    BY <1>5, OneMore
  <2>5. Has(c2, "tool_use_start", i)
    BY <1>3, <1>5, HasMore
  <2>6. Fed(s, B, c2, pend, eag)
    <3> SUFFICES ASSUME NEW k \in DOMAIN B, IsCall(B[k]), B[k].id \notin DOMAIN eag
                 PROVE  Told(B[k], k - s, c2, pend)
      BY DEF Fed
    <3>1. CASE k \in DOMAIN blocks
      <4>1. Told(blocks[k], k - s, ch, pend)
        BY <1>4, <3>1 DEF Fed
      <4>2. Told(blocks[k], k - s, c1, pend)
        BY <4>1, ToldMore DEF c1
      <4>3. Told(blocks[k], k - s, c2, pend)
        BY <1>5, <4>2, ToldMore
      <4> QED
        BY <1>4, <3>1, <4>3
    <3>2. CASE k = Len(blocks) + 1
      <4>1. k = i + s /\ s \in Int
        BY <3>2
      <4>2. k - s = i
        BY <4>1
      <4> QED
        BY <1>4, <2>3, <2>5, <3>2, <4>2 DEF Told
    <3> QED
      BY <1>4, <3>1, <3>2
  <2>7. AllAlong(s, B, reply, ch, F, pend, eag, tl)
    BY <1>7, <2>3, AlongMore DEF c1
  <2> HIDE DEF F, c2
  <2> QED
    BY <1>1, <1>8, <2>1, <2>2, <2>3, <2>4, <2>6, <2>7 DEF B
<1> QED
  BY <1>9, <1>10

LEMMA GeminiReads ==
  ASSUME NEW reply, NEW p, NEW w, NEW ch, NEW pend, NEW eag, NEW tl,
         Ready("gemini", reply, p, w, ch, pend, eag, tl),
         NEW q, q = ParseGemini(p, Head(w))
  PROVE  /\ Took("gemini", reply, q, Tail(w), ch, pend, eag, tl) /\ ~q.closed
         /\ AllAlong(0, q.blocks, reply, ch, q.events, pend, eag, tl)
<1> DEFINE f == Head(w)
           b == f.block
           n == Len(p.blocks) + 1
           B == Append(p.blocks, b)
           e1 == Event("tool_use_start", n, b.id, b.name)
           e2 == Event("input_delta", n, NoId, "none")
           e3 == Event("content_block_stop", n, NoId, "none")
           E == (<<e1>> \o WithArgs(b, <<e2>>)) \o <<e3>>
           e == DeltaEvent(b, 0)[1]
<1>1. /\ IsBlock(b) /\ Legal("gemini", f) /\ Parsing("gemini", reply, p, w) /\ w # <<>>
      /\ f.type \notin Stopping => b \in Range(reply)
      /\ Opens(f) => \A k \in DOMAIN p.blocks : IsCall(p.blocks[k]) => p.blocks[k].id # b.id
      /\ Len(p.blocks) \in Nat /\ DOMAIN p.blocks = 1..Len(p.blocks)
  BY FrameFacts
<1>2. WholeBut(p.blocks, reply, 0) /\ f.type \in {"part"} \cup Stopping
  BY <1>1, FrameFacts DEF Legal, Deltas, Stopping
<1>3. /\ ParserOK(p) /\ ~p.closed /\ IsSequence(ch) /\ \A x \in DOMAIN ch : IsEvent(ch[x])
      /\ Feed(0, p.blocks, reply, ch, pend, eag, tl) /\ Fed(0, p.blocks, ch, pend, eag)
  BY DEF Ready, Reading, Shift
<1>4. DeltaEvent(b, 0) = <<e>> /\ e.type \notin Tooling
  BY DEF DeltaEvent, Event, Tooling
<1>5. ASSUME NEW d, NEW F, Beside(p, q, F), F = <<>> \/ (F = <<d>> /\ d.type \notin Tooling)
      PROVE  /\ Took("gemini", reply, q, Tail(w), ch, pend, eag, tl) /\ ~q.closed
             /\ AllAlong(0, q.blocks, reply, ch, q.events, pend, eag, tl)
  <2>1. Took("gemini", reply, q, Tail(w), ch, pend, eag, tl) /\ ~q.closed
    BY <1>2, <1>5, Passed
  <2>2. /\ Feed(0, q.blocks, reply, ch, pend, eag, tl)
        /\ Feed(0, q.blocks, reply, ch \o q.events, pend, eag, tl)
    BY <2>1 DEF Took, Shift
  <2>3. q.events = <<>> \/ q.events = <<d>>
    BY <1>5 DEF Beside
  <2> QED
    BY <1>3, <2>1, <2>2, <2>3, AlongOne
<1> HIDE DEF e
<1>6. CASE f.type = "part" /\ b.kind = "text"
  <2>1. q = Sends([p EXCEPT !.text = @ + 1], <<e>>)
    BY <1>4, <1>6 DEF ParseGemini, IsCall
  <2>2. Beside(p, q, <<e>>)
    BY <1>3, <2>1, BesideText
  <2> QED
    BY <1>4, <1>5, <2>2
<1>7. CASE f.type = "part" /\ b.kind = "thinking"
  <2>1. q = Sends(p, <<e>>)
    BY <1>4, <1>7 DEF ParseGemini, IsCall
  <2>2. Beside(p, q, <<e>>)
    BY <1>3, <2>1, BesideText
  <2> QED
    BY <1>4, <1>5, <2>2
<1>8. CASE f.type \in Stopping
  <2>1. q = Sends([p EXCEPT !.stop = f.type], <<>>)
    BY <1>8 DEF ParseGemini, Stopping
  <2>2. f.type \in Reasons
    BY <1>8 DEF Stopping, Reasons
  <2>3. Beside(p, q, <<>>)
    BY <1>3, <2>1, <2>2, BesideStop
  <2> QED
    BY <1>5, <2>3
<1>9. CASE f.type = "part" /\ IsCall(b)
  <2>1. q = Sends([p EXCEPT !.blocks = B], E)
    <3>1. b.kind # "text" /\ b.kind # "thinking"
      BY <1>9 DEF IsCall
    <3> QED
      BY <1>9, <3>1 DEF ParseGemini
  <2>2. /\ b \in Range(reply) /\ n \in Int /\ n + 0 = Len(p.blocks) + 1
        /\ \A k \in DOMAIN p.blocks : IsCall(p.blocks[k]) => p.blocks[k].id # b.id
    BY <1>1, <1>9 DEF Stopping, Opens, Opening
  <2>3. PICK z \in Nat : z = 0
    OBVIOUS
  <2>4. PICK o : o = p.blocks
    OBVIOUS
  <2>5. /\ Feed(z, o, reply, ch, pend, eag, tl) /\ Fed(z, o, ch, pend, eag) /\ n + z = Len(o) + 1
        /\ \A k \in DOMAIN o : IsCall(o[k]) => o[k].id # b.id
    BY <1>3, <2>2, <2>3, <2>4
  <2>6. B = Append(o, b)
    BY <2>4
  <2>7. /\ AllAlong(z, Append(o, b), reply, ch, E, pend, eag, tl)
        /\ Feed(z, Append(o, b), reply, ch, pend, eag, tl)
        /\ Feed(z, Append(o, b), reply, ch \o E, pend, eag, tl)
        /\ Fed(z, Append(o, b), ch \o E, pend, eag)
    <3> DEFINE u == b
               m == n
    <3>1. /\ IsBlock(u) /\ IsCall(u) /\ u \in Range(reply) /\ m \in Int /\ m + z = Len(o) + 1
          /\ \A k \in DOMAIN o : IsCall(o[k]) => o[k].id # u.id
          /\ e1 = Event("tool_use_start", m, u.id, u.name)
          /\ e2 = Event("input_delta", m, NoId, "none")
          /\ e3 = Event("content_block_stop", m, NoId, "none")
          /\ E = (<<e1>> \o WithArgs(u, <<e2>>)) \o <<e3>>
      BY <1>1, <1>9, <2>2, <2>5
    <3>2. u = b
      OBVIOUS
    <3> HIDE DEF f, b, n, B, u, m, e1, e2, e3, E
    <3>3. /\ AllAlong(z, Append(o, u), reply, ch, E, pend, eag, tl)
          /\ Feed(z, Append(o, u), reply, ch, pend, eag, tl)
          /\ Feed(z, Append(o, u), reply, ch \o E, pend, eag, tl)
          /\ Fed(z, Append(o, u), ch \o E, pend, eag)
      BY <1>3, <2>5, <3>1, WholeCall
    <3> QED
      BY <3>2, <3>3
  <2>8. /\ AllAlong(0, B, reply, ch, E, pend, eag, tl)
        /\ Feed(0, B, reply, ch, pend, eag, tl)
        /\ Feed(0, B, reply, ch \o E, pend, eag, tl)
        /\ Fed(0, B, ch \o E, pend, eag)
    <3> HIDE DEF B, E
    <3> QED
      BY <2>3, <2>6, <2>7
  <2>9. Len(B) = n /\ B[n] = b /\ DOMAIN B = 1..n /\ \A k \in DOMAIN p.blocks : B[k] = p.blocks[k]
    <3>1. DOMAIN b = Fields
      BY <1>1, BareCall
    <3>2. IsNew(o, b)
      BY <1>1, <2>5, <3>1 DEF IsNew
    <3>3. /\ Len(Append(o, b)) = Len(o) + 1 /\ Append(o, b)[Len(o) + 1] = b
          /\ DOMAIN Append(o, b) = 1..(Len(o) + 1)
          /\ \A k \in DOMAIN o : Append(o, b)[k] = o[k]
      <4> HIDE DEF f, b
      <4>1. Len(Append(o, b)) = Len(o) + 1
        BY <2>5, <3>2, NewBlock
      <4>2. Append(o, b)[Len(o) + 1] = b
        BY <2>5, <3>2, NewBlock
      <4>3. DOMAIN Append(o, b) = 1..(Len(o) + 1)
        BY <2>5, <3>2, NewBlock
      <4>4. \A k \in DOMAIN o : Append(o, b)[k] = o[k]
        BY <2>5, <3>2, NewBlock
      <4> QED
        BY <4>1, <4>2, <4>3, <4>4
    <3> QED
      BY <2>4, <3>3
  <2> HIDE DEF B, E
  <2>10. ParserOK(q) /\ q.blocks = B /\ q.events = E /\ ~q.closed
    <3>1. p.stopped \subseteq 0..Len(B)
      BY <1>1, <1>3, <2>9, SmallerStopped
    <3>2. q = Holding(p, B, p.stopped, E)
      BY <1>3, <2>1, Holds
    <3> QED
      BY <1>3, <3>1, <3>2, HoldingOK
  <2>11. Known(p, q, f)
    <3> SUFFICES ASSUME NEW k \in DOMAIN B, IsCall(B[k])
                 PROVE  \/ \E m \in DOMAIN p.blocks : IsCall(p.blocks[m]) /\ p.blocks[m].id = B[k].id
                        \/ B[k].id = b.id
      BY <1>9, <2>10 DEF Known, Opens, Opening
    <3>1. CASE k \in DOMAIN p.blocks
      BY <2>9, <3>1
    <3>2. CASE k = n
      BY <2>9, <3>2
    <3> QED
      BY <1>1, <2>9, <3>1, <3>2
  <2>12. WholeBut(B, reply, 0)
    <3> SUFFICES ASSUME NEW k \in DOMAIN B, IsCall(B[k]) PROVE B[k] \in Range(reply)
      BY DEF WholeBut
    <3>1. CASE k \in DOMAIN p.blocks
      BY <1>1, <1>2, <2>9, <3>1 DEF WholeBut
    <3>2. CASE k = n
      BY <2>2, <2>9, <3>2
    <3> QED
      BY <1>1, <2>9, <3>1, <3>2
  <2>13. Continues("gemini", reply, q, f, ch \o E, eag)
    <3> SUFFICES ASSUME NEW g, Legal("gemini", g), Follows("gemini", f, g)
                 PROVE  /\ Expects("gemini", q, g) /\ g.type \notin Deltas
                        /\ ~Unstopped(q, g)
      BY <2>10, <2>12 DEF Continues
    <3>1. g.type \in {"part"} \cup Stopping
      BY DEF Legal
    <3> QED
      BY <3>1 DEF Expects, Deltas, Unstopped, Stopping
  <2>14. Shift("gemini") = 0
    BY DEF Shift
  <2>15. Reading("gemini", reply, q, Tail(w), ch \o E, pend, eag, tl)
    BY <2>8, <2>10, <2>11, <2>13, <2>14, Reads
  <2> QED
    BY <2>8, <2>10, <2>14, <2>15 DEF Took
<1>10. f.type = "part" => b.kind \in {"text", "thinking"} \/ IsCall(b)
  BY <1>1 DEF IsBlock, IsCall
<1> QED
  BY <1>2, <1>6, <1>7, <1>8, <1>9, <1>10

-----------------------------------------------------------------------------
\* What a frame makes a parser send.

Mild(E) == IsSequence(E) /\ \A x \in DOMAIN E : IsEvent(E[x]) /\ E[x].type \notin Final

LEMMA MildNone == Mild(<<>>)
  BY EmptySequence DEF Mild

LEMMA MildOne ==
  ASSUME NEW e, IsEvent(e), e.type \notin Final
  PROVE  Mild(<<e>>)
  BY Single DEF Mild

LEMMA MildMore ==
  ASSUME NEW E, Mild(E), NEW e, IsEvent(e), e.type \notin Final
  PROVE  Mild(E \o <<e>>)
<1>1. IsSequence(E \o <<e>>)
  BY OneMore DEF Mild
<1>2. \A x \in DOMAIN (E \o <<e>>) : (E \o <<e>>)[x] = e \/ (x \in DOMAIN E /\ (E \o <<e>>)[x] = E[x])
  BY MoreEvents DEF Mild
<1> QED
  BY <1>1, <1>2 DEF Mild

LEMMA SentBy ==
  ASSUME NEW r, "events" \in DOMAIN r, NEW E
  PROVE  Sends(r, E).events = E
  BY DEF Sends

LEMMA ToolEvents ==
  ASSUME NEW i \in Int, NEW id, NEW name
  PROVE  /\ IsEvent(Event("tool_use_start", i, id, name))
         /\ IsEvent(Event("input_delta", i, id, name))
         /\ IsEvent(Event("content_block_stop", i, id, name))
         /\ IsEvent(Event("text", i, id, name)) /\ IsEvent(Event("thinking", i, id, name))
         /\ IsEvent(Event("message_stop", i, id, name)) /\ IsEvent(Event("error", i, id, name))
         /\ Event("tool_use_start", i, id, name).type \notin Final
         /\ Event("input_delta", i, id, name).type \notin Final
         /\ Event("content_block_stop", i, id, name).type \notin Final
         /\ Event("text", i, id, name).type \notin Final
         /\ Event("thinking", i, id, name).type \notin Final
  BY DEF Event, IsEvent, EventTypes, Final

LEMMA TextMild ==
  ASSUME NEW b, NEW i \in Int
  PROVE  Mild(DeltaEvent(b, i)) /\ \A x \in DOMAIN DeltaEvent(b, i) : DeltaEvent(b, i)[x].type # "content_block_stop"
<1> DEFINE e == Event(IF b.kind = "text" THEN "text" ELSE "thinking", i, NoId, "none")
<1>1. DeltaEvent(b, i) = <<e>>
  BY DEF DeltaEvent
<1>2. IsEvent(e) /\ e.type \notin Final /\ e.type # "content_block_stop"
  <2>1. CASE b.kind = "text"
    BY <2>1, ToolEvents DEF Event
  <2>2. CASE b.kind # "text"
    BY <2>2, ToolEvents DEF Event
  <2> QED
    BY <2>1, <2>2
<1> HIDE DEF e
<1> QED
  BY <1>1, <1>2, MildOne

LEMMA AnthropicMild ==
  ASSUME NEW p, Shaped(p), NEW f, Legal("anthropic", f), f.type \notin Stopping
  PROVE  /\ Mild(ParseAnthropic(p, f).events)
         /\ \E e : ParseAnthropic(p, f).events = <<>> \/ ParseAnthropic(p, f).events = <<e>>
<1> DEFINE b == f.block
           E == ParseAnthropic(p, f).events
           i == f.index
<1>1. i \in Int
  BY DEF Legal
<1>2. CASE f.type = "content_block_start"
  <2>1. E = IF IsCall(b) THEN <<Event("tool_use_start", i, b.id, b.name)>> ELSE <<>>
    <3> DEFINE r == [p EXCEPT !.blocks = Append(p.blocks, [b EXCEPT !.args = IF IsCall(b) THEN "none" ELSE 0])]
    <3>1. ParseAnthropic(p, f) = Sends(r, IF IsCall(b) THEN <<Event("tool_use_start", i, b.id, b.name)>> ELSE <<>>)
      BY <1>2 DEF ParseAnthropic
    <3>2. "events" \in DOMAIN r
      BY DEF Shaped
    <3> HIDE DEF r
    <3> QED
      BY <3>1, <3>2, SentBy
  <2> QED
    BY <1>1, <2>1, MildNone, MildOne, ToolEvents
<1>3. CASE f.type = "content_block_delta" /\ IsCall(b)
  <2>1. E = <<Event("input_delta", i, NoId, "none")>>
    <3> DEFINE r == [p EXCEPT !.blocks[i + 1].args = "some"]
    <3>1. ParseAnthropic(p, f) = Sends(r, <<Event("input_delta", i, NoId, "none")>>)
      BY <1>3 DEF ParseAnthropic
    <3>2. "events" \in DOMAIN r
      BY DEF Shaped
    <3> HIDE DEF r
    <3> QED
      BY <3>1, <3>2, SentBy
  <2> QED
    BY <1>1, <2>1, MildOne, ToolEvents
<1>4. CASE f.type = "content_block_delta" /\ ~IsCall(b)
  <2>1. E = DeltaEvent(b, i)
    <3> DEFINE r == [p EXCEPT !.blocks[i + 1].args = @ + 1]
    <3>1. ParseAnthropic(p, f) = Sends(r, DeltaEvent(b, i))
      BY <1>4 DEF ParseAnthropic
    <3>2. "events" \in DOMAIN r
      BY DEF Shaped
    <3> HIDE DEF r
    <3> QED
      BY <3>1, <3>2, SentBy
  <2> QED
    BY <1>1, <2>1, TextMild DEF DeltaEvent
<1>5. CASE f.type = "content_block_stop"
  <2>1. E = <<Event("content_block_stop", i, NoId, "none")>>
    <3> DEFINE r == p
    <3>1. ParseAnthropic(p, f) = Sends(r, <<Event("content_block_stop", i, NoId, "none")>>)
      BY <1>5 DEF ParseAnthropic
    <3>2. "events" \in DOMAIN r
      BY DEF Shaped
    <3> HIDE DEF r
    <3> QED
      BY <3>1, <3>2, SentBy
  <2> QED
    BY <1>1, <2>1, MildOne, ToolEvents
<1> QED
  BY <1>2, <1>3, <1>4, <1>5 DEF Legal

LEMMA ResponsesMild ==
  ASSUME NEW p, Shaped(p), NEW f, Legal("responses", f), Len(p.blocks) \in Nat
  PROVE  Mild(ParseResponses(p, f).events)
<1> DEFINE b == f.block
           E == ParseResponses(p, f).events
           i == Len(p.blocks)
<1>1. i \in Int /\ i + 1 \in Int
  OBVIOUS
<1>2. CASE f.type = "part"
  <2>1. b.kind = "text" \/ b.kind = "thinking"
    BY <1>2 DEF Legal, Stopping, IsBlock, IsCall
  <2>2. E = DeltaEvent(b, i)
    <3> DEFINE r == [p EXCEPT !.text = @ + 1]
               u == [p EXCEPT !.thinking = @ + 1]
    <3>1. ParseResponses(p, f) = Sends(IF b.kind = "text" THEN r ELSE u, DeltaEvent(b, i))
      BY <1>2, <2>1 DEF ParseResponses, IsCall
    <3>2. "events" \in DOMAIN r /\ "events" \in DOMAIN u
      BY DEF Shaped
    <3> HIDE DEF r, u
    <3> QED
      BY <3>1, <3>2, SentBy
  <2> QED
    BY <1>1, <2>2, TextMild
<1>3. CASE f.type = "item.added"
  <2>1. E = <<Event("tool_use_start", i + 1, b.id, b.name)>>
    <3> DEFINE r == [p EXCEPT !.blocks = Append(p.blocks, [b EXCEPT !.args = "none"])]
    <3>1. ParseResponses(p, f) = Sends(r, <<Event("tool_use_start", i + 1, b.id, b.name)>>)
      BY <1>3 DEF ParseResponses
    <3>2. "events" \in DOMAIN r
      BY DEF Shaped
    <3> HIDE DEF r
    <3> QED
      BY <3>1, <3>2, SentBy
  <2> QED
    BY <1>1, <2>1, MildOne, ToolEvents
<1>4. CASE f.type = "arguments.delta"
  <2>1. E = <<Event("input_delta", i, NoId, "none")>>
    <3> DEFINE r == [p EXCEPT !.blocks[i].args = "some"]
    <3>1. ParseResponses(p, f) = Sends(r, <<Event("input_delta", i, NoId, "none")>>)
      BY <1>4 DEF ParseResponses
    <3>2. "events" \in DOMAIN r
      BY DEF Shaped
    <3> HIDE DEF r
    <3> QED
      BY <3>1, <3>2, SentBy
  <2> QED
    BY <1>1, <2>1, MildOne, ToolEvents
<1>5. CASE f.type \in {"arguments.done", "item.done"}
  <2>1. E = <<Event("content_block_stop", i, NoId, "none")>> \/ E = <<>>
    <3> DEFINE r == [p EXCEPT !.stopped = @ \cup {i}]
    <3>1. \/ ParseResponses(p, f) = Sends(p, <<>>)
          \/ ParseResponses(p, f) = Sends(r, <<Event("content_block_stop", i, NoId, "none")>>)
      BY <1>5 DEF ParseResponses, StopOnce
    <3>2. "events" \in DOMAIN p /\ "events" \in DOMAIN r
      BY DEF Shaped
    <3> HIDE DEF r
    <3> QED
      BY <3>1, <3>2, SentBy
  <2> QED
    BY <1>1, <2>1, MildNone, MildOne, ToolEvents
<1>6. CASE f.type \in Stopping
  <2>1. E = <<>>
    <3> DEFINE r == [p EXCEPT !.saw = TRUE, !.stop = f.type]
    <3>1. ParseResponses(p, f) = Sends(r, <<>>)
      BY <1>6 DEF ParseResponses, Stopping
    <3>2. "events" \in DOMAIN r
      BY DEF Shaped
    <3> HIDE DEF r
    <3> QED
      BY <3>1, <3>2, SentBy
  <2> QED
    BY <2>1, MildNone
<1> QED
  BY <1>2, <1>3, <1>4, <1>5, <1>6 DEF Legal

LEMMA GeminiMild ==
  ASSUME NEW p, Shaped(p), NEW f, Legal("gemini", f), Len(p.blocks) \in Nat
  PROVE  Mild(ParseGemini(p, f).events)
<1> DEFINE b == f.block
           E == ParseGemini(p, f).events
           i == Len(p.blocks) + 1
           e1 == Event("tool_use_start", i, b.id, b.name)
           e2 == Event("input_delta", i, NoId, "none")
           e3 == Event("content_block_stop", i, NoId, "none")
<1>1. i \in Int
  OBVIOUS
<1>2. CASE f.type = "part" /\ ~IsCall(b)
  <2>1. b.kind = "text" \/ b.kind = "thinking"
    BY <1>2 DEF Legal, IsBlock, IsCall
  <2>2. E = DeltaEvent(b, 0)
    <3> DEFINE r == [p EXCEPT !.text = @ + 1]
               u == p
    <3>1. ParseGemini(p, f) = Sends(IF b.kind = "text" THEN r ELSE u, DeltaEvent(b, 0))
      BY <1>2, <2>1 DEF ParseGemini, IsCall
    <3>2. "events" \in DOMAIN r /\ "events" \in DOMAIN u
      BY DEF Shaped
    <3> HIDE DEF r, u
    <3> QED
      BY <3>1, <3>2, SentBy
  <2> QED
    BY <2>2, TextMild
<1>3. CASE f.type = "part" /\ IsCall(b)
  <2>1. E = (<<e1>> \o WithArgs(b, <<e2>>)) \o <<e3>>
    <3> DEFINE r == [p EXCEPT !.blocks = Append(p.blocks, b)]
    <3>1. b.kind # "text" /\ b.kind # "thinking"
      BY <1>3 DEF IsCall
    <3>2. ParseGemini(p, f) = Sends(r, (<<e1>> \o WithArgs(b, <<e2>>)) \o <<e3>>)
      BY <1>3, <3>1 DEF ParseGemini
    <3>3. "events" \in DOMAIN r
      BY DEF Shaped
    <3> HIDE DEF r
    <3> QED
      BY <3>2, <3>3, SentBy
  <2>2. /\ IsEvent(e1) /\ IsEvent(e2) /\ IsEvent(e3)
        /\ e1.type \notin Final /\ e2.type \notin Final /\ e3.type \notin Final
    BY <1>1, ToolEvents
  <2> HIDE DEF e1, e2, e3
  <2>3. Mild(<<e1>>)
    BY <2>2, MildOne
  <2>4. Mild(<<e1>> \o WithArgs(b, <<e2>>))
    <3>1. CASE b.args = "some"
      BY <2>2, <2>3, <3>1, MildMore DEF WithArgs
    <3>2. CASE b.args # "some"
      <4>1. <<e1>> \o <<>> = <<e1>>
        BY Single, NoMore
      <4> QED
        BY <2>3, <3>2, <4>1 DEF WithArgs
    <3> QED
      BY <3>1, <3>2
  <2>5. Mild((<<e1>> \o WithArgs(b, <<e2>>)) \o <<e3>>)
    BY <2>2, <2>4, MildMore
  <2> QED
    BY <2>1, <2>5
<1>4. CASE f.type \in Stopping
  <2>1. E = <<>>
    <3> DEFINE r == [p EXCEPT !.stop = f.type]
    <3>1. ParseGemini(p, f) = Sends(r, <<>>)
      BY <1>4 DEF ParseGemini, Stopping
    <3>2. "events" \in DOMAIN r
      BY DEF Shaped
    <3> HIDE DEF r
    <3> QED
      BY <3>1, <3>2, SentBy
  <2> QED
    BY <2>1, MildNone
<1> QED
  BY <1>2, <1>3, <1>4 DEF Legal

LEMMA OpenAIMild ==
  ASSUME NEW p, Shaped(p), NEW f, Legal("openai", f)
  PROVE  /\ Mild(ParseOpenAI(p, f).events)
         /\ \A x \in DOMAIN ParseOpenAI(p, f).events : ParseOpenAI(p, f).events[x].type # "content_block_stop"
<1> DEFINE b == f.block
           E == ParseOpenAI(p, f).events
           i == f.index + 1
<1>1. i \in Int
  BY DEF Legal
<1>2. CASE f.type = "part"
  <2>1. b.kind = "text" \/ b.kind = "thinking"
    BY <1>2 DEF Legal, Stopping, IsBlock, IsCall
  <2>2. E = DeltaEvent(b, 0)
    <3> DEFINE r == [p EXCEPT !.text = @ + 1]
               u == p
    <3>1. ParseOpenAI(p, f) = Sends(IF b.kind = "text" THEN r ELSE u, DeltaEvent(b, 0))
      BY <1>2, <2>1 DEF ParseOpenAI, IsCall
    <3>2. "events" \in DOMAIN r /\ "events" \in DOMAIN u
      BY DEF Shaped
    <3> HIDE DEF r, u
    <3> QED
      BY <3>1, <3>2, SentBy
  <2> QED
    BY <2>2, TextMild
<1>3. CASE f.type = "tool_call"
  <2>1. E = <<Event("tool_use_start", i, b.id, b.name)>>
    <3> DEFINE r == [p EXCEPT !.blocks = Append(p.blocks, [b EXCEPT !.args = "none"])]
    <3>1. ParseOpenAI(p, f) = Sends(r, <<Event("tool_use_start", i, b.id, b.name)>>)
      BY <1>3 DEF ParseOpenAI
    <3>2. "events" \in DOMAIN r
      BY DEF Shaped
    <3> HIDE DEF r
    <3> QED
      BY <3>1, <3>2, SentBy
  <2> QED
    <3> DEFINE e == E[1]
    <3>1. E = <<e>> /\ e.type # "content_block_stop" /\ IsEvent(e) /\ e.type \notin Final
      <4>1. e.type # "content_block_stop"
        BY <2>1 DEF Event
      <4>2. E = <<e>> /\ IsEvent(e) /\ e.type \notin Final
        BY <1>1, <2>1, ToolEvents
      <4> QED
        BY <4>1, <4>2
    <3> HIDE DEF e
    <3> QED
      BY <3>1, MildOne
<1>4. CASE f.type = "arguments"
  <2>1. E = <<Event("input_delta", i, NoId, "none")>>
    <3> DEFINE r == [p EXCEPT !.blocks[i].args = "some"]
    <3>1. ParseOpenAI(p, f) = Sends(r, <<Event("input_delta", i, NoId, "none")>>)
      BY <1>4 DEF ParseOpenAI
    <3>2. "events" \in DOMAIN r
      BY DEF Shaped
    <3> HIDE DEF r
    <3> QED
      BY <3>1, <3>2, SentBy
  <2> QED
    <3> DEFINE e == E[1]
    <3>1. E = <<e>> /\ e.type # "content_block_stop" /\ IsEvent(e) /\ e.type \notin Final
      <4>1. e.type # "content_block_stop"
        BY <2>1 DEF Event
      <4>2. E = <<e>> /\ IsEvent(e) /\ e.type \notin Final
        BY <1>1, <2>1, ToolEvents
      <4> QED
        BY <4>1, <4>2
    <3> HIDE DEF e
    <3> QED
      BY <3>1, MildOne
<1>5. CASE f.type \in Stopping
  <2>1. E = <<>>
    <3> DEFINE r == [p EXCEPT !.stop = f.type]
    <3>1. ParseOpenAI(p, f) = Sends(r, <<>>)
      BY <1>5 DEF ParseOpenAI, Stopping
    <3>2. "events" \in DOMAIN r
      BY DEF Shaped
    <3> HIDE DEF r
    <3> QED
      BY <3>1, <3>2, SentBy
  <2> QED
    BY <2>1, MildNone
<1> QED
  BY <1>2, <1>3, <1>4, <1>5 DEF Legal

-----------------------------------------------------------------------------
\* The end of a body.

LEMMA Prefixed ==
  ASSUME NEW s \in Nat, NEW blocks, NEW reply, NEW ch, NEW pend, NEW eag, NEW tl,
         \A x \in DOMAIN ch : IsEvent(ch[x]),
         Feed(s, blocks, reply, ch, pend, eag, tl),
         NEW c, DOMAIN c = Fields, ~IsCall(c), NEW all, all = <<c>> \o blocks
  PROVE  /\ Feed(s + 1, all, reply, ch, pend, eag, tl)
         /\ WholeBut(blocks, reply, 0) => WholeBut(all, reply, 0)
         /\ IsSequence(all) /\ Len(blocks) \in Nat /\ Len(all) = Len(blocks) + 1
<1>1. BlocksOK(blocks) /\ IsSequence(blocks)
  BY DEF Feed, BlocksOK
<1>2. /\ IsSequence(all) /\ Len(blocks) \in Nat /\ Len(all) = Len(blocks) + 1
      /\ DOMAIN blocks = 1..Len(blocks) /\ DOMAIN all = 1..(Len(blocks) + 1)
      /\ all[1] = c /\ \A x \in DOMAIN blocks : all[x + 1] = blocks[x]
  <2> DEFINE X == Range(blocks) \cup {c}
  <2>1. <<c>> \in Seq(X) /\ Len(<<c>>) = 1 /\ <<c>>[1] = c
    OBVIOUS
  <2>2. blocks \in Seq(X)
    BY <1>1, SeqMonotonic DEF IsSequence
  <2> HIDE DEF X
  <2>3. all \in Seq(X) /\ Len(all) = 1 + Len(blocks)
    BY <2>1, <2>2, ConcatProperties
  <2>4. \A x \in 1..(1 + Len(blocks)) : all[x] = IF x <= 1 THEN <<c>>[x] ELSE blocks[x - 1]
    BY <2>1, <2>2, ConcatProperties
  <2>5. Len(blocks) \in Nat /\ DOMAIN blocks = 1..Len(blocks) /\ DOMAIN all = 1..(Len(blocks) + 1)
    BY <2>2, <2>3
  <2>6. all[1] = c
    BY <2>1, <2>4, <2>5
  <2>7. \A x \in DOMAIN blocks : all[x + 1] = blocks[x]
    BY <2>4, <2>5
  <2>8. IsSequence(all)
    BY <2>3, SeqOfRange DEF IsSequence
  <2> QED
    BY <2>3, <2>5, <2>6, <2>7, <2>8
<1>3. \A x \in DOMAIN blocks : x + 1 \in DOMAIN all /\ all[x + 1] = blocks[x] /\ x \in Nat
  BY <1>2
<1>4. \A y \in DOMAIN all : y = 1 \/ (y - 1 \in DOMAIN blocks /\ all[y] = blocks[y - 1] /\ y \in Nat)
  <2> SUFFICES ASSUME NEW y \in DOMAIN all, y # 1
               PROVE  y - 1 \in DOMAIN blocks /\ all[y] = blocks[y - 1] /\ y \in Nat
    OBVIOUS
  <2>1. y \in Nat /\ y - 1 \in DOMAIN blocks /\ (y - 1) + 1 = y
    BY <1>2
  <2> QED
    BY <1>2, <2>1
<1>5. BlocksOK(all)
  <2>1. \A y \in DOMAIN all : DOMAIN all[y] = Fields /\ (IsCall(all[y]) => IsBlock(all[y]))
    BY <1>1, <1>2, <1>4 DEF BlocksOK
  <2>2. Apart(all)
    <3> SUFFICES ASSUME NEW y \in DOMAIN all, NEW z \in DOMAIN all,
                        IsCall(all[y]), IsCall(all[z]), all[y].id = all[z].id
                 PROVE  y = z
      BY DEF Apart
    <3>1. y # 1 /\ z # 1
      BY <1>2
    <3>2. y - 1 = z - 1
      BY <1>1, <1>4, <3>1 DEF BlocksOK, Apart
    <3> QED
      BY <1>4, <3>1, <3>2
  <2> QED
    BY <1>2, <2>1, <2>2 DEF BlocksOK
<1>6. \A i \in Int : i + s \in DOMAIN blocks =>
        i + (s + 1) \in DOMAIN all /\ all[i + (s + 1)] = blocks[i + s]
  <2> SUFFICES ASSUME NEW i \in Int, i + s \in DOMAIN blocks
               PROVE  i + (s + 1) \in DOMAIN all /\ all[i + (s + 1)] = blocks[i + s]
    OBVIOUS
  <2>1. i + (s + 1) = (i + s) + 1
    OBVIOUS
  <2> QED
    BY <1>3, <2>1
<1>7. \A x \in DOMAIN ch : ch[x].index \in Int
  BY DEF IsEvent
<1>8. PlacesOK(s, blocks, ch)
  BY DEF Feed
<1>9. PlacesOK(s + 1, all, ch)
  BY <1>6, <1>7, <1>8 DEF PlacesOK
<1>10. \A x \in DOMAIN ch : ch[x].type \in Tooling =>
         ch[x].index + s \in DOMAIN blocks /\ all[ch[x].index + (s + 1)] = blocks[ch[x].index + s]
  BY <1>6, <1>7, <1>8 DEF PlacesOK
<1>11. StartsOK(s + 1, all, ch, pend, eag)
  BY <1>10 DEF Feed, StartsOK, Tooling
<1>12. DeltasOK(s + 1, all, ch)
  BY <1>10 DEF Feed, DeltasOK, Tooling
<1>13. StopsOK(s + 1, all, reply, ch, pend, eag)
  <2>1. StopsOK(s, blocks, reply, ch, pend, eag)
    BY DEF Feed
  <2> SUFFICES ASSUME NEW x \in DOMAIN ch, ch[x].type = "content_block_stop",
                      IsCall(all[ch[x].index + (s + 1)])
               PROVE  LET b == all[ch[x].index + (s + 1)] IN
                      b.id \notin DOMAIN eag /\ b \in Range(reply) /\ Told(b, ch[x].index, ch, pend)
    BY DEF StopsOK
  <2>2. all[ch[x].index + (s + 1)] = blocks[ch[x].index + s]
    BY <1>10 DEF Tooling
  <2> QED
    BY <2>1, <2>2 DEF StopsOK
<1>14. PendingOK(s + 1, all, pend, eag)
  <2>1. PendingOK(s, blocks, pend, eag)
    BY DEF Feed
  <2> SUFFICES ASSUME NEW i \in DOMAIN pend
               PROVE  LET b == all[i + (s + 1)] IN
                      /\ i \in Int /\ i + (s + 1) \in DOMAIN all /\ IsCall(b) /\ b.id \notin DOMAIN eag
                      /\ pend[i] = Call(b.id, b.name, pend[i].args) /\ pend[i].args \in {"none", "some"}
                      /\ pend[i].args = "some" => b.args = "some"
    BY DEF PendingOK
  <2>2. i \in Int /\ i + s \in DOMAIN blocks
    BY <2>1 DEF PendingOK
  <2>3. i + (s + 1) \in DOMAIN all /\ all[i + (s + 1)] = blocks[i + s]
    BY <1>6, <2>2
  <2> QED
    BY <2>1, <2>2, <2>3 DEF PendingOK
<1>15. EagerOK(all, eag, tl)
  <2>1. EagerOK(blocks, eag, tl)
    BY DEF Feed
  <2> SUFFICES ASSUME NEW d \in DOMAIN eag
               PROVE  \E y \in DOMAIN all : IsCall(all[y]) /\ all[y].id = d /\ tl[eag[d]].call = all[y]
    BY <2>1 DEF EagerOK
  <2>2. PICK x \in DOMAIN blocks : IsCall(blocks[x]) /\ blocks[x].id = d /\ tl[eag[d]].call = blocks[x]
    BY <2>1 DEF EagerOK
  <2> QED
    BY <1>3, <2>2
<1>16. InOrder(ch)
  BY DEF Feed
<1>17. Feed(s + 1, all, reply, ch, pend, eag, tl)
  BY <1>5, <1>9, <1>11, <1>12, <1>13, <1>14, <1>15, <1>16 DEF Feed
<1>18. ASSUME WholeBut(blocks, reply, 0) PROVE WholeBut(all, reply, 0)
  <2> SUFFICES ASSUME NEW y \in DOMAIN all, IsCall(all[y]) PROVE all[y] \in Range(reply)
    BY DEF WholeBut
  <2>1. y # 1
    BY <1>2
  <2>2. y - 1 \in DOMAIN blocks /\ all[y] = blocks[y - 1] /\ y - 1 # 0
    BY <1>2, <1>4, <2>1
  <2> QED
    BY <1>18, <2>2 DEF WholeBut
<1> QED
  BY <1>2, <1>17, <1>18

\* Blocks of text or thinking in front.
Fronted(s, B, all, reply, ch, pend, eag, tl) ==
  /\ \E u \in s..(s + 1) : Feed(u, all, reply, ch, pend, eag, tl)
  /\ WholeBut(B, reply, 0) => WholeBut(all, reply, 0)
  /\ Len(B) \in Nat /\ Len(all) \in Nat /\ Len(B) <= Len(all)

LEMMA InFront ==
  ASSUME NEW s \in Nat, NEW blocks, NEW reply, NEW ch, NEW pend, NEW eag, NEW tl,
         \A x \in DOMAIN ch : IsEvent(ch[x]),
         Feed(s, blocks, reply, ch, pend, eag, tl),
         NEW c, DOMAIN c = Fields, ~IsCall(c), NEW all, all = <<c>> \o blocks \/ all = <<>> \o blocks
  PROVE  Fronted(s, blocks, all, reply, ch, pend, eag, tl)
<1>1. s \in s..(s + 1) /\ s + 1 \in s..(s + 1)
  OBVIOUS
<1>2. CASE all = <<c>> \o blocks
  <2>1. Feed(s + 1, all, reply, ch, pend, eag, tl)
    BY <1>2, Prefixed
  <2>2. WholeBut(blocks, reply, 0) => WholeBut(all, reply, 0)
    BY <1>2, Prefixed
  <2>3. Len(blocks) \in Nat /\ Len(all) = Len(blocks) + 1
    BY <1>2, Prefixed
  <2> QED
    BY <1>1, <2>1, <2>2, <2>3 DEF Fronted
<1>3. CASE all = <<>> \o blocks
  <2>1. IsSequence(blocks)
    BY DEF Feed, BlocksOK
  <2>2. blocks \in Seq(Range(blocks))
    BY <2>1 DEF IsSequence
  <2>3. all = blocks /\ Len(blocks) \in Nat
    BY <1>3, <2>2, ConcatEmptySeq
  <2> QED
    BY <1>1, <2>3 DEF Fronted
<1> QED
  BY <1>2, <1>3

LEMMA TextInFront ==
  ASSUME NEW s \in Nat, NEW p, NEW reply, NEW ch, NEW pend, NEW eag, NEW tl,
         \A x \in DOMAIN ch : IsEvent(ch[x]), Feed(s, p.blocks, reply, ch, pend, eag, tl)
  PROVE  Fronted(s, p.blocks, TextFirst(p), reply, ch, pend, eag, tl)
<1> DEFINE c == TextBlock(p.text)
           all == TextFirst(p)
<1>1. DOMAIN c = Fields /\ ~IsCall(c)
  BY DEF TextBlock, Text, Fields, IsCall
<1>2. all = <<c>> \o p.blocks \/ all = <<>> \o p.blocks
  BY DEF TextFirst
<1> HIDE DEF c, all
<1>3. PICK o : o = p.blocks
  OBVIOUS
<1>4. Feed(s, o, reply, ch, pend, eag, tl) /\ (all = <<c>> \o o \/ all = <<>> \o o)
  BY <1>2, <1>3
<1>5. Fronted(s, o, all, reply, ch, pend, eag, tl)
  BY <1>1, <1>4, InFront
<1> QED
  BY <1>3, <1>5 DEF all

\* What a parser may do with a frame or at the end: it becomes q, and t is left.
Makes(format, reply, q, t, ch, pend, eag, tl) ==
  /\ ParserOK(q) /\ IsSequence(t)
  /\ \/ ~q.closed /\ Mild(q.events) /\ Wired(format, reply, t)
     \/ Shut(q) /\ \E e : q.events = <<e>> /\ IsFinal(e)
  /\ IF format = "openai"
     THEN /\ eag = NoCalls /\ q.stopped = {}
          /\ \A x \in DOMAIN ch : ch[x].type # "content_block_stop"
          /\ \A x \in DOMAIN q.events : q.events[x].type # "content_block_stop"
     ELSE /\ \E s \in 0..2 :
               /\ Feed(s, q.blocks, reply, ch, pend, eag, tl)
               /\ Feed(s, q.blocks, reply, ch \o q.events, pend, eag, tl)
               /\ format # "responses" => AllAlong(s, q.blocks, reply, ch, q.events, pend, eag, tl)
          /\ ~q.closed => Reading(format, reply, q, t, ch \o q.events, pend, eag, tl)
          /\ Shut(q) /\ format \in {"anthropic", "gemini"} /\ q.events[1].type = "message_stop"
               => WholeBut(q.blocks, reply, 0)

Open(format, reply, p, w, ch, pend, eag, tl) ==
  Going(format, reply, p, w, ch, pend, eag, tl) /\ ~p.closed /\ format \in Formats

LEMMA FinalPasses ==
  ASSUME NEW s \in Nat, NEW blocks, NEW reply, NEW ch, NEW pend, NEW eag, NEW tl, NEW e,
         IsSequence(ch), Feed(s, blocks, reply, ch, pend, eag, tl), e.type \in Final
  PROVE  /\ Feed(s, blocks, reply, ch \o <<e>>, pend, eag, tl)
         /\ AllAlong(s, blocks, reply, ch, <<e>>, pend, eag, tl)
<1>1. e.type \notin Tooling
  BY DEF Final, Tooling
<1>2. Feed(s, blocks, reply, ch \o <<e>>, pend, eag, tl)
  BY <1>1, TextPasses
<1> QED
  BY <1>2, AlongOne

LEMMA EndingMakes ==
  ASSUME NEW format, NEW reply, NEW p, NEW w, NEW ch, NEW pend, NEW eag, NEW tl,
         Open(format, reply, p, w, ch, pend, eag, tl),
         NEW q, ParserOK(q), Shut(q), q.stopped = p.stopped, NEW e, q.events = <<e>>, IsFinal(e),
         format # "openai" => \E s \in 0..2 : Feed(s, q.blocks, reply, ch, pend, eag, tl),
         format \in {"anthropic", "gemini"} /\ e.type = "message_stop" => WholeBut(q.blocks, reply, 0),
         NEW t, IsSequence(t)
  PROVE  Makes(format, reply, q, t, ch, pend, eag, tl)
<1>1. IsSequence(ch) /\ e.type \in Final /\ q.closed /\ q.events[1] = e
  BY DEF Open, Going, IsFinal, Shut
<1>2. CASE format = "openai"
  <2>1. /\ eag = NoCalls /\ q.stopped = {}
        /\ \A x \in DOMAIN ch : ch[x].type # "content_block_stop"
    BY <1>2 DEF Open, Going, Streaming
  <2>2. \A x \in DOMAIN q.events : q.events[x].type # "content_block_stop"
    BY <1>1 DEF Final
  <2> QED
    BY <1>2, <2>1, <2>2 DEF Makes
<1>3. CASE format # "openai"
  <2>1. PICK s \in 0..2 : Feed(s, q.blocks, reply, ch, pend, eag, tl)
    BY <1>3
  <2>2. PICK B : B = q.blocks
    OBVIOUS
  <2>3. s \in Nat /\ Feed(s, B, reply, ch, pend, eag, tl)
    BY <2>1, <2>2
  <2>4. /\ Feed(s, B, reply, ch \o <<e>>, pend, eag, tl)
        /\ AllAlong(s, B, reply, ch, <<e>>, pend, eag, tl)
    BY <1>1, <2>3, FinalPasses
  <2>5. \E z \in 0..2 :
           /\ Feed(z, q.blocks, reply, ch, pend, eag, tl)
           /\ Feed(z, q.blocks, reply, ch \o q.events, pend, eag, tl)
           /\ format # "responses" => AllAlong(z, q.blocks, reply, ch, q.events, pend, eag, tl)
    BY <2>1, <2>2, <2>3, <2>4
  <2> QED
    BY <1>1, <1>3, <2>5 DEF Makes
<1> QED
  BY <1>2, <1>3

LEMMA FailsMakes ==
  ASSUME NEW format, NEW reply, NEW p, NEW w, NEW ch, NEW pend, NEW eag, NEW tl,
         Open(format, reply, p, w, ch, pend, eag, tl), NEW kind \in Kinds,
         NEW q, q = Fails(p, kind), NEW t, IsSequence(t)
  PROVE  Makes(format, reply, q, t, ch, pend, eag, tl)
<1> DEFINE e == Event("error", 0, NoId, kind)
<1>1. ParserOK(p)
  BY DEF Open, Going
<1>2. IsFinal(e) /\ e.type # "message_stop"
  <2>1. IsEvent(e)
    BY ToolEvents
  <2>2. e.type = "error" /\ e.name = kind
    BY DEF Event
  <2> HIDE DEF e
  <2> QED
    BY <2>1, <2>2 DEF IsFinal, Final
<1>3. q = Ends(p, <<e>>)
  BY DEF Fails
<1> HIDE DEF e
<1>4. ParserOK(q) /\ Shut(q) /\ q.blocks = p.blocks /\ q.events = <<e>>
  BY <1>1, <1>3, EndsFields
<1>5. q.stopped = p.stopped
  <2>1. "stopped" \in DOMAIN p
    BY <1>1 DEF ParserOK, Shaped
  <2> QED
    BY <1>3, <2>1 DEF Ends
<1>6. format # "openai" => \E s \in 0..2 : Feed(s, q.blocks, reply, ch, pend, eag, tl)
  BY <1>4 DEF Open, Going, Streaming
<1> QED
  BY <1>2, <1>4, <1>5, <1>6, EndingMakes

\* An answer with more blocks in front.
LEMMA StopsMakes ==
  ASSUME NEW format, NEW reply, NEW p, NEW w, NEW ch, NEW pend, NEW eag, NEW tl,
         Open(format, reply, p, w, ch, pend, eag, tl), NEW B, NEW t, t \in Reasons,
         p.stopped \subseteq 0..Len(B),
         NEW q, q = Stops(p, Answer(B, t)), NEW z, IsSequence(z),
         format # "openai" => \E s \in 0..2 : Feed(s, B, reply, ch, pend, eag, tl),
         format \in {"anthropic", "gemini"} => WholeBut(B, reply, 0)
  PROVE  Makes(format, reply, q, z, ch, pend, eag, tl)
<1> DEFINE e == Event("message_stop", 0, NoId, t)
<1>1. ParserOK(p)
  BY DEF Open, Going
<1>2. IsFinal(e)
  <2>1. IsEvent(e)
    BY DEF IsEvent, Event, EventTypes
  <2>2. e.type = "message_stop"
    BY DEF Event
  <2> HIDE DEF e
  <2> QED
    BY <2>1, <2>2 DEF IsFinal, Final
<1> HIDE DEF e
<1>3. ParserOK(q) /\ Shut(q) /\ q.blocks = B /\ q.events = <<e>>
  BY <1>1, Closes DEF e
<1>4. q.stopped = p.stopped
  BY <1>1, StopsShape
<1> QED
  BY <1>2, <1>3, <1>4, EndingMakes

LEMMA EndMakes ==
  ASSUME NEW format, NEW reply, NEW p, NEW w, NEW ch, NEW pend, NEW eag, NEW tl,
         Open(format, reply, p, w, ch, pend, eag, tl),
         NEW q, q = EndOfBody(format, p), NEW z, IsSequence(z)
  PROVE  Makes(format, reply, q, z, ch, pend, eag, tl)
<1>1. ParserOK(p) /\ p.stop \in Reasons /\ \A x \in DOMAIN ch : IsEvent(ch[x])
  BY DEF Open, Going, ParserOK
<1>2. "transient" \in Kinds
  BY DEF Kinds
<1>3. CASE format = "anthropic"
  <2>1. q = Fails(p, "transient")
    BY <1>3 DEF EndOfBody, EndAnthropic
  <2> QED
    BY <1>2, <2>1, FailsMakes
<1>4. CASE format = "openai"
  <2>1. q = Stops(p, Answer(TextFirst(p), p.stop))
    BY <1>4 DEF EndOfBody, EndOpenAI
  <2>2. p.stopped \subseteq 0..Len(TextFirst(p))
    BY <1>4 DEF Open, Going, Streaming
  <2> QED
    BY <1>1, <1>4, <2>1, <2>2, StopsMakes
<1>5. ASSUME format \in {"gemini", "responses"}
      PROVE  /\ Feed(0, p.blocks, reply, ch, pend, eag, tl)
             /\ Fronted(0, p.blocks, TextFirst(p), reply, ch, pend, eag, tl)
             /\ format = "gemini" => WholeBut(p.blocks, reply, 0)
  <2>1. Reading(format, reply, p, w, ch, pend, eag, tl) /\ Shift(format) = 0
    BY <1>5 DEF Open, Going, Streaming, Shift
  <2>2. Feed(0, p.blocks, reply, ch, pend, eag, tl)
    BY <2>1 DEF Reading
  <2>3. Fronted(0, p.blocks, TextFirst(p), reply, ch, pend, eag, tl)
    <3>1. PICK s \in Nat : s = 0
      OBVIOUS
    <3>2. Feed(s, p.blocks, reply, ch, pend, eag, tl)
      BY <2>2, <3>1
    <3>3. Fronted(s, p.blocks, TextFirst(p), reply, ch, pend, eag, tl)
      BY <1>1, <3>2, TextInFront
    <3> QED
      BY <3>1, <3>3
  <2>4. ASSUME format = "gemini" PROVE WholeBut(p.blocks, reply, 0)
    <3>1. Parsing(format, reply, p, w)
      BY <2>1 DEF Reading
    <3>2. w # <<>> => Legal(format, Head(w))
      BY <3>1, WiredTail DEF Parsing
    <3>3. w # <<>> => Head(w).type \notin Deltas
      BY <2>4, <3>2 DEF Legal, Deltas, Stopping
    <3> QED
      BY <3>1, <3>3 DEF Parsing, BeingRead
  <2> QED
    BY <2>2, <2>3, <2>4
<1>6. CASE format = "gemini"
  <2> DEFINE B == TextFirst(p)
  <2>1. q = Stops(p, Answer(B, p.stop))
    BY <1>6 DEF EndOfBody, EndGemini, EndOpenAI
  <2> HIDE DEF B
  <2>2. /\ \E s \in 0..2 : Feed(s, B, reply, ch, pend, eag, tl)
        /\ WholeBut(B, reply, 0)
        /\ Len(p.blocks) \in Nat /\ Len(B) \in Nat /\ Len(p.blocks) <= Len(B)
    <3>1. Fronted(0, p.blocks, B, reply, ch, pend, eag, tl) /\ WholeBut(p.blocks, reply, 0)
      BY <1>5, <1>6 DEF B
    <3> QED
      BY <3>1 DEF Fronted
  <2>3. p.stopped \subseteq 0..Len(B)
    BY <1>1, <2>2, SmallerStopped
  <2> QED
    BY <1>1, <1>6, <2>1, <2>2, <2>3, StopsMakes
<1>7. CASE format = "responses"
  <2> DEFINE T == TextFirst(p)
             c == [Thinking EXCEPT !.args = p.thinking]
             B == (IF p.thinking > 0 THEN <<c>> ELSE <<>>) \o T
             r == IF p.blocks # <<>> THEN "tool_use" ELSE IF p.stop = "length" THEN "length" ELSE "end"
  <2>1. q = Fails(p, "transient") \/ q = Stops(p, Answer(B, r))
    BY <1>7 DEF EndOfBody, EndResponses
  <2>2. r \in Reasons /\ DOMAIN c = Fields /\ ~IsCall(c)
    BY DEF Reasons, Thinking, Text, Fields, IsCall
  <2>3. B = <<c>> \o T \/ B = <<>> \o T
    OBVIOUS
  <2>4. Fronted(0, p.blocks, T, reply, ch, pend, eag, tl)
    BY <1>5, <1>7
  <2> HIDE DEF T, c, B, r
  <2>5. /\ \E s \in 0..2 : Feed(s, B, reply, ch, pend, eag, tl)
        /\ Len(p.blocks) \in Nat /\ Len(B) \in Nat /\ Len(p.blocks) <= Len(B)
    <3>1. PICK u \in 0..1 : Feed(u, T, reply, ch, pend, eag, tl)
      BY <2>4 DEF Fronted
    <3>2. u \in Nat
      OBVIOUS
    <3>3. Fronted(u, T, B, reply, ch, pend, eag, tl)
      BY <1>1, <2>2, <2>3, <3>1, <3>2, InFront
    <3>4. u..(u + 1) \subseteq 0..2
      OBVIOUS
    <3>5. Len(T) \in Nat /\ Len(B) \in Nat /\ Len(T) <= Len(B) /\ \E s \in 0..2 : Feed(s, B, reply, ch, pend, eag, tl)
      BY <3>3, <3>4 DEF Fronted
    <3>6. Len(p.blocks) \in Nat /\ Len(p.blocks) <= Len(T)
      BY <2>4 DEF Fronted
    <3> QED
      BY <3>5, <3>6
  <2>6. p.stopped \subseteq 0..Len(B)
    BY <1>1, <2>5, SmallerStopped
  <2> QED
    BY <1>2, <1>7, <2>1, <2>2, <2>5, <2>6, FailsMakes, StopsMakes
<1> QED
  BY <1>3, <1>4, <1>6, <1>7 DEF Open, Formats

-----------------------------------------------------------------------------
\* A frame.

LEMMA ReadyToRead ==
  ASSUME NEW format, format # "openai", NEW reply, NEW p, NEW w, NEW ch, NEW pend, NEW eag, NEW tl,
         Open(format, reply, p, w, ch, pend, eag, tl), w # <<>>
  PROVE  /\ Ready(format, reply, p, w, ch, pend, eag, tl)
         /\ Legal(format, Head(w)) /\ Shaped(p) /\ Len(p.blocks) \in Nat /\ IsSequence(ch)
         /\ IsSequence(Tail(w))
<1>1. Ready(format, reply, p, w, ch, pend, eag, tl)
  BY DEF Open, Going, Streaming, Ready
<1>2. Legal(format, Head(w)) /\ Len(p.blocks) \in Nat /\ Parsing(format, reply, p, w)
  BY <1>1, FrameFacts
<1>3. IsSequence(Tail(w))
  BY <1>2, WiredTail DEF Parsing, Wired
<1> QED
  BY <1>1, <1>2, <1>3 DEF Ready, ParserOK

\* Going on from what a frame gave.
LEMMA TookMakes ==
  ASSUME NEW format, format \in {"anthropic", "responses", "gemini"}, NEW reply, NEW q, NEW t, NEW ch,
         NEW pend, NEW eag, NEW tl, Took(format, reply, q, t, ch, pend, eag, tl), ~q.closed,
         Mild(q.events), IsSequence(t),
         format # "responses" => AllAlong(Shift(format), q.blocks, reply, ch, q.events, pend, eag, tl)
  PROVE  Makes(format, reply, q, t, ch, pend, eag, tl)
<1>1. format # "openai" /\ Shift(format) \in 0..2
  BY DEF Shift
<1>2. ParserOK(q) /\ Reading(format, reply, q, t, ch \o q.events, pend, eag, tl)
  BY DEF Took
<1>3. Wired(format, reply, t)
  BY <1>2 DEF Reading, Parsing
<1>4. \E s \in 0..2 :
        /\ Feed(s, q.blocks, reply, ch, pend, eag, tl)
        /\ Feed(s, q.blocks, reply, ch \o q.events, pend, eag, tl)
        /\ format # "responses" => AllAlong(s, q.blocks, reply, ch, q.events, pend, eag, tl)
  BY <1>1 DEF Took
<1>5. ~Shut(q)
  BY DEF Shut
<1> QED
  BY <1>1, <1>2, <1>3, <1>4, <1>5 DEF Makes

LEMMA AnthropicMakes ==
  ASSUME NEW reply, NEW p, NEW w, NEW ch, NEW pend, NEW eag, NEW tl,
         Open("anthropic", reply, p, w, ch, pend, eag, tl), w # <<>>,
         NEW q, q = ParseAnthropic(p, Head(w))
  PROVE  Makes("anthropic", reply, q, Tail(w), ch, pend, eag, tl)
<1> DEFINE f == Head(w)
<1>1. /\ Ready("anthropic", reply, p, w, ch, pend, eag, tl) /\ Legal("anthropic", f) /\ Shaped(p)
      /\ IsSequence(ch) /\ IsSequence(Tail(w))
  BY ReadyToRead
<1>2. CASE f.type \notin Stopping
  <2>1. f.type \in {"content_block_start", "content_block_delta", "content_block_stop"}
    BY <1>1, <1>2 DEF Legal
  <2>2. Took("anthropic", reply, q, Tail(w), ch, pend, eag, tl) /\ ~q.closed
    <3>1. CASE f.type = "content_block_start"
      BY <1>1, <3>1, AnthropicStarts
    <3>2. CASE f.type = "content_block_delta"
      BY <1>1, <3>2, AnthropicFills
    <3>3. CASE f.type = "content_block_stop"
      BY <1>1, <3>3, AnthropicStops
    <3> QED
      BY <2>1, <3>1, <3>2, <3>3
  <2>3. Mild(q.events) /\ \E e : q.events = <<>> \/ q.events = <<e>>
    BY <1>1, <1>2, AnthropicMild
  <2>4. PICK e : q.events = <<>> \/ q.events = <<e>>
    BY <2>3
  <2>5. AllAlong(Shift("anthropic"), q.blocks, reply, ch, q.events, pend, eag, tl)
    BY <1>1, <2>2, <2>4, AlongOne DEF Took
  <2> QED
    BY <1>1, <2>2, <2>3, <2>5, TookMakes
<1>3. CASE f.type \in Stopping
  <2>1. /\ Took("anthropic", reply, q, Tail(w), ch, pend, eag, tl) /\ Shut(q)
        /\ \E t : q.events = <<Event("message_stop", 0, NoId, t)>>
    BY <1>1, <1>3, AnthropicEnds
  <2>2. PICK t : q.events = <<Event("message_stop", 0, NoId, t)>>
    BY <2>1
  <2> DEFINE e == Event("message_stop", 0, NoId, t)
  <2>3. IsFinal(e)
    <3>1. IsEvent(e)
      BY ToolEvents
    <3>2. e.type = "message_stop"
      BY DEF Event
    <3> HIDE DEF e
    <3> QED
      BY <3>1, <3>2 DEF IsFinal, Final
  <2> HIDE DEF e
  <2>4. q.events = <<e>>
    BY <2>2 DEF e
  <2>5. ParserOK(q) /\ Feed(1, q.blocks, reply, ch, pend, eag, tl) /\ WholeBut(q.blocks, reply, 0)
    BY <2>1 DEF Took, Shift, Shut
  <2>6. \E s \in 0..2 : Feed(s, q.blocks, reply, ch, pend, eag, tl)
    BY <2>5
  <2>7. q.stopped = p.stopped
    <3>1. ParserOK(p) /\ q = Stops(p, Answer(p.blocks, f.type))
      BY <1>1, <1>3 DEF ParseAnthropic, Stopping, Ready
    <3> QED
      BY <3>1, StopsShape
  <2> QED
    BY <1>1, <2>1, <2>3, <2>4, <2>5, <2>6, <2>7, EndingMakes
<1> QED
  BY <1>2, <1>3

LEMMA ResponsesMakes ==
  ASSUME NEW reply, NEW p, NEW w, NEW ch, NEW pend, NEW eag, NEW tl,
         Open("responses", reply, p, w, ch, pend, eag, tl), w # <<>>,
         NEW q, q = ParseResponses(p, Head(w))
  PROVE  Makes("responses", reply, q, Tail(w), ch, pend, eag, tl)
<1> DEFINE f == Head(w)
<1>1. /\ Ready("responses", reply, p, w, ch, pend, eag, tl) /\ Legal("responses", f) /\ Shaped(p)
      /\ Len(p.blocks) \in Nat /\ IsSequence(Tail(w))
  BY ReadyToRead
<1>2. Mild(q.events)
  BY <1>1, ResponsesMild
<1>3. Took("responses", reply, q, Tail(w), ch, pend, eag, tl) /\ ~q.closed
  <2>1. CASE f.type = "item.added"
    BY <1>1, <2>1, ResponsesAdds
  <2>2. CASE f.type = "arguments.delta"
    BY <1>1, <2>2, ResponsesFills
  <2>3. CASE f.type \in {"arguments.done", "item.done"}
    BY <1>1, <2>3, ResponsesStops
  <2>4. CASE f.type \in {"part"} \cup Stopping
    BY <1>1, <2>4, ResponsesPasses
  <2> QED
    BY <1>1, <2>1, <2>2, <2>3, <2>4 DEF Legal
<1> QED
  BY <1>1, <1>2, <1>3, TookMakes

LEMMA GeminiMakes ==
  ASSUME NEW reply, NEW p, NEW w, NEW ch, NEW pend, NEW eag, NEW tl,
         Open("gemini", reply, p, w, ch, pend, eag, tl), w # <<>>,
         NEW q, q = ParseGemini(p, Head(w))
  PROVE  Makes("gemini", reply, q, Tail(w), ch, pend, eag, tl)
<1>1. /\ Ready("gemini", reply, p, w, ch, pend, eag, tl) /\ Legal("gemini", Head(w)) /\ Shaped(p)
      /\ Len(p.blocks) \in Nat /\ IsSequence(Tail(w))
  BY ReadyToRead
<1>2. Mild(q.events)
  BY <1>1, GeminiMild
<1>3. /\ Took("gemini", reply, q, Tail(w), ch, pend, eag, tl) /\ ~q.closed
      /\ AllAlong(0, q.blocks, reply, ch, q.events, pend, eag, tl)
  BY <1>1, GeminiReads
<1>4. Shift("gemini") = 0
  BY DEF Shift
<1> QED
  BY <1>1, <1>2, <1>3, <1>4, TookMakes

LEMMA OpenAIMakes ==
  ASSUME NEW reply, NEW p, NEW w, NEW ch, NEW pend, NEW eag, NEW tl,
         Open("openai", reply, p, w, ch, pend, eag, tl), w # <<>>,
         NEW q, q = ParseOpenAI(p, Head(w))
  PROVE  Makes("openai", reply, q, Tail(w), ch, pend, eag, tl)
<1> DEFINE f == Head(w)
           b == f.block
           n == f.index + 1
           e == DeltaEvent(b, 0)[1]
<1>1. /\ ParserOK(p) /\ Shaped(p) /\ ~p.closed /\ Wired("openai", reply, w) /\ p.stopped = {} /\ eag = NoCalls
      /\ \A x \in DOMAIN ch : ch[x].type # "content_block_stop"
  BY DEF Open, Going, Streaming, ParserOK
<1>2. Legal("openai", f) /\ Wired("openai", reply, Tail(w)) /\ IsSequence(Tail(w)) /\ IsBlock(b)
  <2>1. Legal("openai", f) /\ Wired("openai", reply, Tail(w))
    BY <1>1, WiredTail
  <2> QED
    BY <2>1 DEF Wired, Legal
<1>3. Mild(q.events) /\ \A x \in DOMAIN q.events : q.events[x].type # "content_block_stop"
  BY <1>1, <1>2, OpenAIMild
<1>4. ParserOK(q) /\ q.closed = p.closed /\ q.stopped = {}
  <2>1. ASSUME NEW B, NEW E, q = Sends([p EXCEPT !.blocks = B], E)
        PROVE  ParserOK(q) /\ q.closed = p.closed /\ q.stopped = {}
    <3>0. q = Holding(p, B, p.stopped, E)
      BY <1>1, <2>1, Holds
    <3>1. q = Holding(p, B, {}, E)
      BY <1>1, <3>0
    <3>2. {} \subseteq 0..Len(B)
      OBVIOUS
    <3> QED
      BY <1>1, <3>1, <3>2, HoldingOK
  <2>2. ASSUME NEW E, Beside(p, q, E) PROVE ParserOK(q) /\ q.closed = p.closed /\ q.stopped = {}
    BY <1>1, <2>2 DEF Beside
  <2>3. CASE f.type = "part"
    <3>1. b.kind = "text" \/ b.kind = "thinking"
      BY <1>2, <2>3 DEF Legal, Stopping, IsBlock, IsCall
    <3>2. \/ q = Sends([p EXCEPT !.text = @ + 1], DeltaEvent(b, 0))
          \/ q = Sends(p, DeltaEvent(b, 0))
      BY <2>3, <3>1 DEF ParseOpenAI
    <3>3. Beside(p, q, DeltaEvent(b, 0))
      BY <1>1, <3>2, BesideText
    <3> QED
      BY <2>2, <3>3
  <2>4. CASE f.type = "tool_call"
    <3>1. \E B, E : q = Sends([p EXCEPT !.blocks = B], E)
      BY <2>4 DEF ParseOpenAI
    <3> QED
      BY <2>1, <3>1
  <2>5. CASE f.type = "arguments"
    <3> DEFINE B == [p.blocks EXCEPT ![n].args = "some"]
               E == <<Event("input_delta", n, NoId, "none")>>
    <3>1. q = Sends([p EXCEPT !.blocks = B], E)
      BY <2>5 DEF ParseOpenAI
    <3> HIDE DEF B, E
    <3> QED
      BY <2>1, <3>1
  <2>6. CASE f.type \in Stopping
    <3>1. q = Sends([p EXCEPT !.stop = f.type], <<>>)
      BY <2>6 DEF ParseOpenAI, Stopping
    <3>2. f.type \in Reasons
      BY <2>6 DEF Stopping, Reasons
    <3>3. Beside(p, q, <<>>)
      BY <1>1, <3>1, <3>2, BesideStop
    <3> QED
      BY <2>2, <3>3
  <2> QED
    BY <1>2, <2>3, <2>4, <2>5, <2>6 DEF Legal
<1> QED
  BY <1>1, <1>2, <1>3, <1>4 DEF Makes

LEMMA FrameMakes ==
  ASSUME NEW format, NEW reply, NEW p, NEW w, NEW ch, NEW pend, NEW eag, NEW tl,
         Open(format, reply, p, w, ch, pend, eag, tl), w # <<>>,
         NEW q, q = Parse(format, p, Head(w))
  PROVE  Makes(format, reply, q, Tail(w), ch, pend, eag, tl)
<1>1. CASE format = "anthropic"
  BY <1>1, AnthropicMakes DEF Parse
<1>2. CASE format = "openai"
  BY <1>2, OpenAIMakes DEF Parse
<1>3. CASE format = "responses"
  BY <1>3, ResponsesMakes DEF Parse
<1>4. CASE format = "gemini"
  BY <1>4, GeminiMakes DEF Parse
<1> QED
  BY <1>1, <1>2, <1>3, <1>4 DEF Open, Formats

-----------------------------------------------------------------------------
\* What was read is sent, or some of it.

LEMMA ReadingSame ==
  ASSUME NEW format, NEW reply, NEW q, NEW r, NEW t, NEW ch, NEW pend, NEW eag, NEW tl,
         q.blocks = r.blocks, q.stopped = r.stopped, Reading(format, reply, q, t, ch, pend, eag, tl)
  PROVE  Reading(format, reply, r, t, ch, pend, eag, tl)
<1>1. Parsing(format, reply, r, t)
  BY DEF Reading, Parsing, BeingRead, Expects
<1>2. \A f : Unstopped(q, f) <=> Unstopped(r, f)
  BY DEF Unstopped
<1> QED
  BY <1>1, <1>2 DEF Reading

OfEither(c, ch, E) ==
  /\ IsSequence(c)
  /\ \A x \in DOMAIN c : (\E y \in DOMAIN ch : c[x] = ch[y]) \/ (\E y \in DOMAIN E : c[x] = E[y])

LEMMA Joined ==
  ASSUME NEW ch, IsSequence(ch), NEW E, IsSequence(E), NEW c, c = ch \o E
  PROVE  OfEither(c, ch, E)
<1> DEFINE X == Range(ch) \cup Range(E)
<1>1. ch \in Seq(X) /\ E \in Seq(X)
  BY SeqMonotonic DEF IsSequence
<1> HIDE DEF X
<1>2. c \in Seq(X) /\ Len(c) = Len(ch) + Len(E)
  BY <1>1, ConcatProperties
<1>3. \A x \in 1..(Len(ch) + Len(E)) : c[x] = IF x <= Len(ch) THEN ch[x] ELSE E[x - Len(ch)]
  BY <1>1, ConcatProperties
<1>4. Len(ch) \in Nat /\ Len(E) \in Nat /\ DOMAIN ch = 1..Len(ch) /\ DOMAIN E = 1..Len(E)
  BY <1>1
<1>5. DOMAIN c = 1..(Len(ch) + Len(E))
  BY <1>2
<1>6. IsSequence(c)
  BY <1>2, SeqOfRange DEF IsSequence
<1>7. ASSUME NEW x \in DOMAIN c
      PROVE  (\E y \in DOMAIN ch : c[x] = ch[y]) \/ (\E y \in DOMAIN E : c[x] = E[y])
  <2>1. CASE x <= Len(ch)
    <3>1. x \in DOMAIN ch /\ c[x] = ch[x]
      BY <1>3, <1>4, <1>5, <2>1
    <3> QED
      BY <3>1
  <2>2. CASE ~(x <= Len(ch))
    <3>1. x - Len(ch) \in DOMAIN E /\ c[x] = E[x - Len(ch)]
      BY <1>3, <1>4, <1>5, <2>2
    <3> QED
      BY <3>1
  <2> QED
    BY <2>1, <2>2
<1> QED
  BY <1>6, <1>7 DEF OfEither

LEMMA Prefix ==
  ASSUME NEW E, IsSequence(E), NEW n \in 0..Len(E)
  PROVE  /\ IsSequence(SubSeq(E, 1, n))
         /\ \A x \in DOMAIN SubSeq(E, 1, n) : \E y \in DOMAIN E : SubSeq(E, 1, n)[x] = E[y]
<1>1. E \in Seq(Range(E)) /\ Len(E) \in Nat /\ DOMAIN E = 1..Len(E)
  BY DEF IsSequence
<1>2. \A i \in 1..n : E[i] \in Range(E) /\ i \in DOMAIN E
  BY <1>1
<1> DEFINE S == SubSeq(E, 1, n)
<1>3. S \in Seq(Range(E)) /\ Len(S) = n
  <2>1. n \in Int /\ 1 \in Int
    BY <1>1
  <2>2. S \in Seq(Range(E)) /\ Len(S) = IF 1 <= n THEN n - 1 + 1 ELSE 0
    BY <1>2, <2>1, SubSeqProperties
  <2> QED
    BY <1>1, <2>2
<1>4. \A i \in 1..n : S[i] = E[i]
  <2>1. n \in Int /\ 1 \in Int
    BY <1>1
  <2>2. \A i \in 1..(n - 1 + 1) : S[i] = E[1 + i - 1]
    BY <1>2, <2>1, SubSeqProperties
  <2> QED
    BY <1>1, <2>2
<1>5. DOMAIN S = 1..n
  BY <1>3
<1>6. IsSequence(S)
  BY <1>3, SeqOfRange DEF IsSequence
<1> HIDE DEF S
<1> QED
  BY <1>2, <1>4, <1>5, <1>6 DEF S

LEMMA Emitted ==
  ASSUME NEW format, NEW reply, NEW p, NEW w, NEW ch, NEW pend, NEW eag, NEW tl,
         Open(format, reply, p, w, ch, pend, eag, tl), NEW q, NEW t,
         Makes(format, reply, q, t, ch, pend, eag, tl),
         NEW p2, NEW c2, NEW canc,
         \/ p2 = Sends(q, <<>>) /\ c2 = ch \o q.events
         \/ /\ canc = TRUE /\ format # "responses" /\ p2 = Ends(q, <<>>)
            /\ \E n \in 0..(Len(q.events) - 1) : c2 = ch \o SubSeq(q.events, 1, n)
  PROVE  /\ Going(format, reply, p2, t, c2, pend, eag, tl)
         /\ p2.closed /\ canc # TRUE => \E x \in DOMAIN c2 : c2[x].type \in Final
<1>0. PICK E : E = q.events
  OBVIOUS
<1>1. /\ ParserOK(q) /\ IsSequence(t) /\ IsSequence(ch) /\ \A x \in DOMAIN ch : IsEvent(ch[x])
      /\ \A x \in DOMAIN ch : ch[x].type \notin Final
  BY DEF Makes, Open, Going
<1>2. \/ ~q.closed /\ Mild(E) /\ Wired(format, reply, t)
      \/ Shut(q) /\ \E e : E = <<e>> /\ IsFinal(e)
  BY <1>0 DEF Makes
<1>3. ~Shut(q) <=> ~q.closed
  BY <1>1 DEF Shut, ParserOK
<1>6. IsSequence(E)
  BY <1>2, Single DEF Mild
<1>7. IsSequence(ch)
  BY <1>1

\* All of it.
<1>4. ASSUME p2 = Sends(q, <<>>), c2 = ch \o E
      PROVE  /\ Going(format, reply, p2, t, c2, pend, eag, tl)
             /\ p2.closed /\ canc # TRUE => \E x \in DOMAIN c2 : c2[x].type \in Final
  <2>1. ParserOK(p2) /\ p2.blocks = q.blocks /\ p2.stopped = q.stopped /\ p2.closed = q.closed
    <3>1. p2 = Holding(q, q.blocks, q.stopped, <<>>)
      BY <1>1, <1>4, Holds
    <3>2. q.stopped \subseteq 0..Len(q.blocks)
      BY <1>1 DEF ParserOK
    <3> QED
      BY <1>1, <3>1, <3>2, HoldingOK
  <2>2. IsSequence(c2) /\ \A x \in DOMAIN c2 : (\E y \in DOMAIN ch : c2[x] = ch[y]) \/ (\E y \in DOMAIN E : c2[x] = E[y])
    <3>1. c2 = ch \o E
      BY <1>4
    <3>2. OfEither(c2, ch, E)
      BY <1>6, <1>7, <3>1, Joined
    <3> QED
      BY <3>2 DEF OfEither
  <2>3. /\ \A x \in DOMAIN c2 : IsEvent(c2[x])
        /\ \A x \in DOMAIN c2 : c2[x].type \in Final => x = Len(c2) /\ p2.closed /\ IsFinal(c2[x])
        /\ p2.closed => /\ \E x \in DOMAIN c2 : c2[x].type \in Final
                        /\ \A x \in DOMAIN c2 : c2[x].type \in Final => c2[x] = E[1]
        /\ ~p2.closed => \A x \in DOMAIN c2 : c2[x].type \notin Final
    <3>1. CASE ~q.closed /\ Mild(E)
      <4>1. \A x \in DOMAIN c2 : IsEvent(c2[x]) /\ c2[x].type \notin Final
        BY <1>1, <2>2, <3>1 DEF Mild
      <4> QED
        BY <2>1, <3>1, <4>1
    <3>2. CASE Shut(q) /\ \E e : E = <<e>> /\ IsFinal(e)
      <4>1. PICK e : E = <<e>> /\ IsFinal(e)
        BY <3>2
      <4>2. \A x \in DOMAIN c2 : (x \in DOMAIN ch /\ c2[x] = ch[x]) \/ (x = Len(ch) + 1 /\ c2[x] = e)
        BY <1>1, <1>4, <4>1, MoreEvents
      <4>3. Len(c2) = Len(ch) + 1 /\ Len(ch) + 1 \in DOMAIN c2 /\ c2[Len(ch) + 1] = e
        BY <1>1, <1>4, <4>1, OneMore
      <4>4. IsEvent(e) /\ e.type \in Final /\ E[1] = e /\ p2.closed
        BY <2>1, <3>2, <4>1 DEF IsFinal, Shut
      <4> QED
        BY <1>1, <4>1, <4>2, <4>3, <4>4
    <3> QED
      BY <1>2, <3>1, <3>2
  <2>4. ~p2.closed => Wired(format, reply, t)
    BY <1>2, <2>1 DEF Shut
  <2>5. Streaming(format, reply, p2, t, c2, pend, eag, tl)
    <3>1. CASE format = "openai"
      <4>1. /\ eag = NoCalls /\ q.stopped = {}
            /\ \A x \in DOMAIN ch : ch[x].type # "content_block_stop"
            /\ \A x \in DOMAIN E : E[x].type # "content_block_stop"
        BY <1>0, <3>1 DEF Makes
      <4>2. \A x \in DOMAIN c2 : c2[x].type # "content_block_stop"
        BY <2>2, <4>1
      <4> QED
        BY <2>1, <3>1, <4>1, <4>2 DEF Streaming
    <3>2. CASE format # "openai"
      <4>1. \E s \in 0..2 : Feed(s, p2.blocks, reply, c2, pend, eag, tl)
        BY <1>0, <1>4, <2>1, <3>2 DEF Makes
      <4>2. ASSUME ~p2.closed PROVE Reading(format, reply, p2, t, c2, pend, eag, tl)
        <5>1. Reading(format, reply, q, t, c2, pend, eag, tl)
          BY <1>0, <1>4, <2>1, <3>2, <4>2 DEF Makes
        <5> QED
          BY <2>1, <5>1, ReadingSame
      <4>3. ASSUME p2.closed, format \in {"anthropic", "gemini"}, \E x \in DOMAIN c2 : c2[x].type = "message_stop"
            PROVE  WholeBut(p2.blocks, reply, 0)
        <5>1. PICK x \in DOMAIN c2 : c2[x].type = "message_stop"
          BY <4>3
        <5>2. E[1].type = "message_stop"
          BY <2>3, <4>3, <5>1 DEF Final
        <5>3. Shut(q)
          BY <1>3, <2>1, <4>3
        <5> QED
          BY <1>0, <2>1, <3>2, <4>3, <5>2, <5>3 DEF Makes
      <4> QED
        BY <3>2, <4>1, <4>2, <4>3 DEF Streaming
    <3> QED
      BY <3>1, <3>2
  <2> QED
    BY <1>1, <2>1, <2>2, <2>3, <2>4, <2>5 DEF Going

\* Some of it.
<1>5. ASSUME canc = TRUE, format # "responses", p2 = Ends(q, <<>>),
             NEW n \in 0..(Len(E) - 1), c2 = ch \o SubSeq(E, 1, n)
      PROVE  /\ Going(format, reply, p2, t, c2, pend, eag, tl)
             /\ p2.closed /\ canc # TRUE => \E x \in DOMAIN c2 : c2[x].type \in Final
  <2> DEFINE F == SubSeq(E, 1, n)
  <2>0. Len(E) \in Nat /\ n \in 0..Len(E)
    BY <1>6 DEF IsSequence
  <2>1. ParserOK(p2) /\ p2.blocks = q.blocks /\ Shut(p2)
    BY <1>1, <1>5, EndsFields
  <2>2. p2.stopped = q.stopped
    <3>1. "stopped" \in DOMAIN q
      BY <1>1 DEF ParserOK, Shaped
    <3> QED
      BY <1>5, <3>1 DEF Ends
  <2>3. IsSequence(F) /\ \A x \in DOMAIN F : \E y \in DOMAIN E : F[x] = E[y]
    BY <1>6, <2>0, Prefix
  <2>4. \A x \in DOMAIN F : IsEvent(F[x]) /\ F[x].type \notin Final
    <3>1. CASE Mild(E)
      BY <2>3, <3>1 DEF Mild
    <3>2. CASE \E e : E = <<e>>
      <4>1. Len(E) = 1
        BY <3>2
      <4>2. F = <<>>
        BY <4>1, SubSeqEmpty
      <4> HIDE DEF F
      <4>3. DOMAIN F = {}
        BY <4>2
      <4> QED
        BY <4>3
    <3> QED
      BY <1>2, <3>1, <3>2
  <2> HIDE DEF F
  <2>5. IsSequence(c2) /\ \A x \in DOMAIN c2 : (\E y \in DOMAIN ch : c2[x] = ch[y]) \/ (\E y \in DOMAIN F : c2[x] = F[y])
    <3>1. c2 = ch \o F
      BY <1>5 DEF F
    <3>2. IsSequence(F)
      BY <2>3
    <3>3. OfEither(c2, ch, F)
      BY <1>7, <3>1, <3>2, Joined
    <3> QED
      BY <3>3 DEF OfEither
  <2>6. \A x \in DOMAIN c2 : IsEvent(c2[x]) /\ c2[x].type \notin Final
    BY <1>1, <2>4, <2>5
  <2>7. p2.closed
    BY <2>1 DEF Shut
  <2>8. Streaming(format, reply, p2, t, c2, pend, eag, tl)
    <3>1. CASE format = "openai"
      <4>1. /\ eag = NoCalls /\ q.stopped = {}
            /\ \A x \in DOMAIN ch : ch[x].type # "content_block_stop"
            /\ \A x \in DOMAIN E : E[x].type # "content_block_stop"
        BY <1>0, <3>1 DEF Makes
      <4>2. \A x \in DOMAIN c2 : c2[x].type # "content_block_stop"
        BY <2>3, <2>5, <4>1
      <4> QED
        BY <2>2, <3>1, <4>1, <4>2 DEF Streaming
    <3>2. CASE format # "openai"
      <4>1. \E s \in 0..2 : AllAlong(s, q.blocks, reply, ch, E, pend, eag, tl)
        BY <1>0, <1>5, <3>2 DEF Makes
      <4>2. \E s \in 0..2 : Feed(s, p2.blocks, reply, c2, pend, eag, tl)
        BY <1>5, <2>0, <2>1, <4>1 DEF AllAlong
      <4>3. ~\E x \in DOMAIN c2 : c2[x].type = "message_stop"
        BY <2>6 DEF Final
      <4> QED
        BY <2>7, <3>2, <4>2, <4>3 DEF Streaming
    <3> QED
      BY <3>1, <3>2
  <2> QED
    BY <1>1, <1>5, <2>1, <2>5, <2>6, <2>7, <2>8 DEF Going
<1> QED
  BY <1>0, <1>4, <1>5

-----------------------------------------------------------------------------
\* What is received.

\* What stays so however an event is received.
LEMMA Received ==
  ASSUME NEW format, NEW reply, NEW p, NEW w, NEW ch, NEW pend, NEW eag, NEW tl,
         Going(format, reply, p, w, ch, pend, eag, tl), ch # <<>>,
         NEW new, NEW started, NEW more,
         Streaming(format, reply, p, w, Tail(ch), new, started, more)
  PROVE  Going(format, reply, p, w, Tail(ch), new, started, more)
<1>1. /\ IsSequence(w) /\ IsSequence(ch) /\ \A x \in DOMAIN ch : IsEvent(ch[x])
      /\ ParserOK(p) /\ (~p.closed => Wired(format, reply, w))
      /\ \A x \in DOMAIN ch : ch[x].type \in Final => x = Len(ch) /\ p.closed /\ IsFinal(ch[x])
  BY DEF Going
<1>2. IsSequence(Tail(ch)) /\ \A x \in DOMAIN Tail(ch) : IsEvent(Tail(ch)[x])
  BY <1>1, TailOf
<1>3. ASSUME NEW x \in DOMAIN Tail(ch), Tail(ch)[x].type \in Final
      PROVE  x = Len(Tail(ch)) /\ p.closed /\ IsFinal(Tail(ch)[x])
  <2>1. /\ x + 1 \in DOMAIN ch /\ Tail(ch)[x] = ch[x + 1] /\ Len(Tail(ch)) = Len(ch) - 1
        /\ x \in 1..(Len(ch) - 1) /\ Len(ch) \in Nat
    BY <1>1, TailOf
  <2>2. x + 1 = Len(ch) /\ p.closed /\ IsFinal(ch[x + 1])
    BY <1>1, <1>3, <2>1
  <2> QED
    BY <2>1, <2>2
<1> QED
  BY <1>1, <1>2, <1>3 DEF Going

\* What is received neither starts nor fills a call, nor ends one that is pending.
LEMMA GoingOther ==
  ASSUME NEW format, NEW reply, NEW p, NEW w, NEW ch, NEW pend, NEW eag, NEW tl,
         Going(format, reply, p, w, ch, pend, eag, tl), ch # <<>>,
         Head(ch).type \notin {"tool_use_start", "input_delta"}
  PROVE  Going(format, reply, p, w, Tail(ch), pend, eag, tl)
<1>1. IsSequence(ch) /\ Streaming(format, reply, p, w, ch, pend, eag, tl)
  BY DEF Going
<1>2. \A x \in DOMAIN Tail(ch) : \E y \in DOMAIN ch : Tail(ch)[x] = ch[y]
  BY <1>1, TailOf
<1>3. CASE format = "openai"
  <2>1. Streaming(format, reply, p, w, Tail(ch), pend, eag, tl)
    BY <1>1, <1>2, <1>3 DEF Streaming
  <2> QED
    BY <2>1, Received
<1>4. CASE format # "openai"
  <2>1. \E s \in 0..2 : Feed(s, p.blocks, reply, Tail(ch), pend, eag, tl)
    <3>1. PICK s \in 0..2 : Feed(s, p.blocks, reply, ch, pend, eag, tl)
      BY <1>1, <1>4 DEF Streaming
    <3> QED
      BY <1>1, <3>1, FeedOther
  <2>2. ASSUME ~p.closed PROVE Reading(format, reply, p, w, Tail(ch), pend, eag, tl)
    <3>1. Reading(format, reply, p, w, ch, pend, eag, tl)
      BY <1>1, <1>4, <2>2 DEF Streaming
    <3> QED
      BY <1>1, <3>1, FeedOther, UnsealedTail DEF Reading
  <2>3. ASSUME p.closed, format \in {"anthropic", "gemini"},
               \E x \in DOMAIN Tail(ch) : Tail(ch)[x].type = "message_stop"
        PROVE  WholeBut(p.blocks, reply, 0)
    BY <1>1, <1>2, <1>4, <2>3 DEF Streaming
  <2>4. Streaming(format, reply, p, w, Tail(ch), pend, eag, tl)
    BY <1>4, <2>1, <2>2, <2>3 DEF Streaming
  <2> QED
    BY <2>4, Received
<1> QED
  BY <1>3, <1>4

LEMMA GoingStart ==
  ASSUME NEW format, NEW reply, NEW p, NEW w, NEW ch, NEW pend, NEW eag, NEW tl,
         Going(format, reply, p, w, ch, pend, eag, tl), ch # <<>>,
         Head(ch).type = "tool_use_start",
         NEW new, new = [i \in DOMAIN pend \cup {Head(ch).index} |->
                           IF i = Head(ch).index THEN Call(Head(ch).id, Head(ch).name, "none") ELSE pend[i]]
  PROVE  Going(format, reply, p, w, Tail(ch), new, eag, tl)
<1>1. IsSequence(ch) /\ Streaming(format, reply, p, w, ch, pend, eag, tl) /\ IsEvent(Head(ch))
  BY TailOf DEF Going
<1>2. \A x \in DOMAIN Tail(ch) : \E y \in DOMAIN ch : Tail(ch)[x] = ch[y]
  BY <1>1, TailOf
<1>3. CASE format = "openai"
  <2>1. Streaming(format, reply, p, w, Tail(ch), new, eag, tl)
    BY <1>1, <1>2, <1>3 DEF Streaming
  <2> QED
    BY <2>1, Received
<1>4. CASE format # "openai"
  <2>1. \E s \in 0..2 : Feed(s, p.blocks, reply, Tail(ch), new, eag, tl)
    <3>1. PICK s \in 0..2 : Feed(s, p.blocks, reply, ch, pend, eag, tl)
      BY <1>1, <1>4 DEF Streaming
    <3>2. s \in Nat
      OBVIOUS
    <3>3. Feed(s, p.blocks, reply, Tail(ch), new, eag, tl)
      BY <1>1, <3>1, <3>2, FeedStart
    <3> QED
      BY <3>3
  <2>2. ASSUME ~p.closed PROVE Reading(format, reply, p, w, Tail(ch), new, eag, tl)
    <3>1. Reading(format, reply, p, w, ch, pend, eag, tl)
      BY <1>1, <1>4, <2>2 DEF Streaming
    <3>2. Shift(format) \in Nat
      BY DEF Shift
    <3>3. /\ Feed(Shift(format), p.blocks, reply, Tail(ch), new, eag, tl)
          /\ Fed(Shift(format), p.blocks, Tail(ch), new, eag)
      BY <1>1, <3>1, <3>2, FeedStart DEF Reading
    <3> QED
      BY <1>1, <3>1, <3>3, UnsealedTail DEF Reading
  <2>3. ASSUME p.closed, format \in {"anthropic", "gemini"},
               \E x \in DOMAIN Tail(ch) : Tail(ch)[x].type = "message_stop"
        PROVE  WholeBut(p.blocks, reply, 0)
    BY <1>1, <1>2, <1>4, <2>3 DEF Streaming
  <2>4. Streaming(format, reply, p, w, Tail(ch), new, eag, tl)
    BY <1>4, <2>1, <2>2, <2>3 DEF Streaming
  <2> QED
    BY <2>4, Received
<1> QED
  BY <1>3, <1>4

LEMMA GoingDelta ==
  ASSUME NEW format, NEW reply, NEW p, NEW w, NEW ch, NEW pend, NEW eag, NEW tl,
         Going(format, reply, p, w, ch, pend, eag, tl), ch # <<>>,
         Head(ch).type = "input_delta",
         NEW new, new = [i \in DOMAIN pend |->
                           IF i = Head(ch).index THEN [pend[i] EXCEPT !.args = "some"] ELSE pend[i]]
  PROVE  Going(format, reply, p, w, Tail(ch), new, eag, tl)
<1>1. IsSequence(ch) /\ Streaming(format, reply, p, w, ch, pend, eag, tl)
  BY DEF Going
<1>2. \A x \in DOMAIN Tail(ch) : \E y \in DOMAIN ch : Tail(ch)[x] = ch[y]
  BY <1>1, TailOf
<1>3. CASE format = "openai"
  <2>1. Streaming(format, reply, p, w, Tail(ch), new, eag, tl)
    BY <1>1, <1>2, <1>3 DEF Streaming
  <2> QED
    BY <2>1, Received
<1>4. CASE format # "openai"
  <2>1. \E s \in 0..2 : Feed(s, p.blocks, reply, Tail(ch), new, eag, tl)
    <3>1. PICK s \in 0..2 : Feed(s, p.blocks, reply, ch, pend, eag, tl)
      BY <1>1, <1>4 DEF Streaming
    <3>2. s \in Nat
      OBVIOUS
    <3>3. Feed(s, p.blocks, reply, Tail(ch), new, eag, tl)
      BY <1>1, <3>1, <3>2, FeedDelta
    <3> QED
      BY <3>3
  <2>2. ASSUME ~p.closed PROVE Reading(format, reply, p, w, Tail(ch), new, eag, tl)
    <3>1. Reading(format, reply, p, w, ch, pend, eag, tl)
      BY <1>1, <1>4, <2>2 DEF Streaming
    <3>2. Shift(format) \in Nat
      BY DEF Shift
    <3>3. /\ Feed(Shift(format), p.blocks, reply, Tail(ch), new, eag, tl)
          /\ Fed(Shift(format), p.blocks, Tail(ch), new, eag)
      BY <1>1, <3>1, <3>2, FeedDelta DEF Reading
    <3> QED
      BY <1>1, <3>1, <3>3, UnsealedTail DEF Reading
  <2>3. ASSUME p.closed, format \in {"anthropic", "gemini"},
               \E x \in DOMAIN Tail(ch) : Tail(ch)[x].type = "message_stop"
        PROVE  WholeBut(p.blocks, reply, 0)
    BY <1>1, <1>2, <1>4, <2>3 DEF Streaming
  <2>4. Streaming(format, reply, p, w, Tail(ch), new, eag, tl)
    BY <1>4, <2>1, <2>2, <2>3 DEF Streaming
  <2> QED
    BY <2>4, Received
<1> QED
  BY <1>3, <1>4

LEMMA GoingStop ==
  ASSUME NEW format, NEW reply, NEW p, NEW w, NEW ch, NEW pend, NEW eag, NEW tl,
         Going(format, reply, p, w, ch, pend, eag, tl), ch # <<>>,
         NEW call, NEW new, NEW k, NEW more, NEW started,
         StopsCall(ch, pend, eag, tl, call, new, k, more, started)
  PROVE  /\ Going(format, reply, p, w, Tail(ch), new, started, more)
         /\ call.id \notin DOMAIN eag /\ call \in Range(reply) /\ format # "openai"
<1>1. IsSequence(ch) /\ Streaming(format, reply, p, w, ch, pend, eag, tl) /\ \A x \in DOMAIN ch : IsEvent(ch[x])
  BY DEF Going
<1>2. \A x \in DOMAIN Tail(ch) : \E y \in DOMAIN ch : Tail(ch)[x] = ch[y]
  BY <1>1, TailOf
<1>3. format # "openai"
  <2>1. 1 \in DOMAIN ch /\ ch[1].type = "content_block_stop"
    BY <1>1, TailOf DEF StopsCall
  <2> QED
    BY <1>1, <2>1 DEF Streaming
<1>4. \E s \in 0..2 : /\ Feed(s, p.blocks, reply, Tail(ch), new, started, more)
                      /\ call.id \notin DOMAIN eag /\ call \in Range(reply)
  <2>1. PICK s \in 0..2 : Feed(s, p.blocks, reply, ch, pend, eag, tl)
    BY <1>1, <1>3 DEF Streaming
  <2>2. s \in Nat
    OBVIOUS
  <2>3. Feed(s, p.blocks, reply, Tail(ch), new, started, more)
    BY <1>1, <2>1, <2>2, FeedStop
  <2>4. call.id \notin DOMAIN eag /\ call \in Range(reply)
    BY <1>1, <2>1, <2>2, FeedStop
  <2> QED
    BY <2>3, <2>4
<1>5. ASSUME ~p.closed PROVE Reading(format, reply, p, w, Tail(ch), new, started, more)
  <2>1. Reading(format, reply, p, w, ch, pend, eag, tl)
    BY <1>1, <1>3, <1>5 DEF Streaming
  <2>2. Shift(format) \in Nat
    BY DEF Shift
  <2>3. /\ Feed(Shift(format), p.blocks, reply, Tail(ch), new, started, more)
        /\ Fed(Shift(format), p.blocks, Tail(ch), new, started)
        /\ Unsealed(Shift(format), p.blocks, ch, eag) => Unsealed(Shift(format), p.blocks, Tail(ch), started)
    BY <1>1, <2>1, <2>2, FeedStop DEF Reading
  <2> QED
    BY <2>1, <2>3 DEF Reading
<1>6. ASSUME p.closed, format \in {"anthropic", "gemini"},
             \E x \in DOMAIN Tail(ch) : Tail(ch)[x].type = "message_stop"
      PROVE  WholeBut(p.blocks, reply, 0)
  BY <1>1, <1>2, <1>3, <1>6 DEF Streaming
<1>7. Streaming(format, reply, p, w, Tail(ch), new, started, more)
  BY <1>3, <1>4, <1>5, <1>6 DEF Streaming
<1> QED
  BY <1>3, <1>4, <1>7, Received

\* Tools go on beside it.
LEMMA GoingTools ==
  ASSUME NEW format, NEW reply, NEW p, NEW w, NEW ch, NEW pend, NEW eag, NEW tl,
         Going(format, reply, p, w, ch, pend, eag, tl),
         NEW more, \A j \in DOMAIN tl : j \in DOMAIN more /\ more[j].call = tl[j].call
  PROVE  Going(format, reply, p, w, ch, pend, eag, more)
<1>1. \A s : Feed(s, p.blocks, reply, ch, pend, eag, tl) => Feed(s, p.blocks, reply, ch, pend, eag, more)
  <2>1. EagerOK(p.blocks, eag, tl) => EagerOK(p.blocks, eag, more)
    BY DEF EagerOK
  <2> QED
    BY <2>1 DEF Feed
<1>2. Reading(format, reply, p, w, ch, pend, eag, tl) => Reading(format, reply, p, w, ch, pend, eag, more)
  BY <1>1 DEF Reading
<1>3. Streaming(format, reply, p, w, ch, pend, eag, more)
  BY <1>1, <1>2 DEF Going, Streaming
<1> QED
  BY <1>3 DEF Going

\* The last event stays on its way while others are received.
LEMMA StillFinal ==
  ASSUME NEW ch, IsSequence(ch), ch # <<>>, Head(ch).type \notin Final,
         \E x \in DOMAIN ch : ch[x].type \in Final
  PROVE  \E x \in DOMAIN Tail(ch) : Tail(ch)[x].type \in Final
<1>1. PICK x \in DOMAIN ch : ch[x].type \in Final
  OBVIOUS
<1>2. x # 1 /\ x - 1 \in DOMAIN Tail(ch) /\ Tail(ch)[x - 1] = ch[x]
  BY <1>1, TailOf
<1> QED
  BY <1>1, <1>2

\* The last event: nothing is behind it.
LEMMA LastEvent ==
  ASSUME NEW format, NEW reply, NEW p, NEW w, NEW ch, NEW pend, NEW eag, NEW tl,
         Going(format, reply, p, w, ch, pend, eag, tl), ch # <<>>, Head(ch).type \in Final
  PROVE  Tail(ch) = <<>> /\ Shut(p) /\ IsFinal(Head(ch))
<1>1. IsSequence(ch) /\ Head(ch) = ch[1] /\ 1 \in DOMAIN ch /\ IsSequence(Tail(ch)) /\ Len(Tail(ch)) = Len(ch) - 1
  BY TailOf DEF Going
<1>2. 1 = Len(ch) /\ p.closed /\ IsFinal(Head(ch))
  BY <1>1 DEF Going
<1>3. Tail(ch) = <<>>
  <2>1. PICK r : r = Tail(ch)
    OBVIOUS
  <2>2. IsSequence(r) /\ Len(r) = Len(ch) - 1
    BY <1>1, <2>1
  <2>3. Len(r) = 0
    BY <1>2, <2>2
  <2>4. r = <<>>
    BY <2>2, <2>3, EmptySeq DEF IsSequence
  <2> QED
    BY <2>1, <2>4
<1> QED
  BY <1>2, <1>3 DEF Shut

\* The stream goes on, and its last event is on its way once the parser has ended.
GoesOn(format, reply, p, w, ch, pend, eag, tl, canc) ==
  /\ Going(format, reply, p, w, ch, pend, eag, tl)
  /\ p.closed /\ canc # TRUE => \E x \in DOMAIN ch : ch[x].type \in Final

LEMMA GoingAfter ==
  ASSUME NEW format, format \in Formats, NEW reply, NEW p, NEW w, NEW ch, NEW pend, NEW eag, NEW tl,
         Going(format, reply, p, w, ch, pend, eag, tl), ~p.closed,
         NEW q, NEW t, Makes(format, reply, q, t, ch, pend, eag, tl),
         NEW p2, NEW c2, NEW canc,
         \/ p2 = Sends(q, <<>>) /\ c2 = ch \o q.events
         \/ /\ canc = TRUE /\ format # "responses" /\ p2 = Ends(q, <<>>)
            /\ \E n \in 0..(Len(q.events) - 1) : c2 = ch \o SubSeq(q.events, 1, n)
  PROVE  GoesOn(format, reply, p2, t, c2, pend, eag, tl, canc)
<1>1. Open(format, reply, p, w, ch, pend, eag, tl)
  BY DEF Open
<1> QED
  BY <1>1, Emitted DEF GoesOn

-----------------------------------------------------------------------------
\* A stream begins.

LEMMA NoBlocks ==
  /\ IsSequence(<<>>) /\ DOMAIN <<>> = {} /\ Len(<<>>) = 0 /\ DOMAIN NoCalls = {}
  /\ \A ch, type, i : ch = <<>> => ~Has(ch, type, i)
<1>1. IsSequence(<<>>) /\ Len(<<>>) = 0
  BY EmptySequence
<1>2. DOMAIN <<>> = {} /\ DOMAIN NoCalls = {}
  BY DEF NoCalls
<1> QED
  BY <1>1, <1>2 DEF Has

LEMMA FeedNone ==
  ASSUME NEW s, NEW reply, NEW tl, NEW B, B = <<>>, NEW ch, ch = <<>>
  PROVE  Feed(s, B, reply, ch, NoCalls, NoCalls, tl) /\ Fed(s, B, ch, NoCalls, NoCalls)
<1>1. DOMAIN B = {} /\ DOMAIN ch = {} /\ IsSequence(B) /\ DOMAIN NoCalls = {}
  BY NoBlocks
<1>2. BlocksOK(B) /\ Fed(s, B, ch, NoCalls, NoCalls)
  BY <1>1 DEF BlocksOK, Apart, Fed
<1>3. /\ PlacesOK(s, B, ch) /\ StartsOK(s, B, ch, NoCalls, NoCalls) /\ DeltasOK(s, B, ch)
      /\ StopsOK(s, B, reply, ch, NoCalls, NoCalls) /\ InOrder(ch)
  BY <1>1 DEF PlacesOK, StartsOK, DeltasOK, StopsOK, InOrder
<1>4. PendingOK(s, B, NoCalls, NoCalls) /\ EagerOK(B, NoCalls, tl)
  BY <1>1 DEF PendingOK, EagerOK
<1> QED
  BY <1>2, <1>3, <1>4 DEF Feed

LEMMA Asked ==
  ASSUME NEW format \in Formats, NEW reply, IsReply(reply),
         \A i, j \in DOMAIN reply.blocks :
           IsCall(reply.blocks[i]) /\ IsCall(reply.blocks[j]) /\ reply.blocks[i].id = reply.blocks[j].id
           => i = j,
         NEW ch, ch = <<>>, NEW tl, NEW w, w = Frames(format, reply), NEW p, p = NoParse
  PROVE  Going(format, reply.blocks, p, w, ch, NoCalls, NoCalls, tl) /\ ~p.closed
<1>1. /\ Wired(format, reply.blocks, w) /\ w # <<>> /\ Expects(format, p, Head(w))
  BY FramesWired
<1>2. /\ p.blocks = <<>> /\ p.text = 0 /\ p.thinking = 0 /\ p.stop = "" /\ p.stopped = {} /\ ~p.closed
      /\ Shaped(p)
  BY DEF NoParse, Shaped
<1>3. ParserOK(p)
  <2>1. p.closed \in BOOLEAN
    BY DEF NoParse
  <2>2. p.text \in Nat /\ p.thinking \in Nat
    BY DEF NoParse
  <2>3. p.stop \in Reasons
    BY DEF NoParse, Reasons
  <2>4. p.stopped \subseteq 0..Len(p.blocks)
    BY <1>2
  <2> QED
    BY <1>2, <2>1, <2>2, <2>3, <2>4 DEF ParserOK
<1>4. DOMAIN p.blocks = {} /\ DOMAIN ch = {} /\ IsSequence(w) /\ IsSequence(ch) /\ DOMAIN NoCalls = {}
  BY <1>1, <1>2, NoBlocks DEF Wired
<1>5. \A s : Feed(s, p.blocks, reply.blocks, ch, NoCalls, NoCalls, tl) /\ Fed(s, p.blocks, ch, NoCalls, NoCalls)
  BY <1>2, FeedNone
<1>6. Parsing(format, reply.blocks, p, w)
  BY <1>1, <1>4 DEF Parsing, WholeBut
<1>7. Unsealed(Shift(format), p.blocks, ch, NoCalls)
  BY <1>4, NoBlocks DEF Unsealed
<1>8. Reading(format, reply.blocks, p, w, ch, NoCalls, NoCalls, tl)
  BY <1>5, <1>6, <1>7 DEF Reading
<1>9. 0 \in 0..2
  OBVIOUS
<1>10. Streaming(format, reply.blocks, p, w, ch, NoCalls, NoCalls, tl)
  BY <1>2, <1>4, <1>5, <1>8, <1>9 DEF Streaming
<1> QED
  BY <1>1, <1>2, <1>3, <1>4, <1>10 DEF Going

-----------------------------------------------------------------------------
\* The calls of an answer.

LEMMA CallsFacts ==
  ASSUME NEW blocks, IsSequence(blocks)
  PROVE  /\ IsSequence(Calls(blocks))
         /\ \A i \in DOMAIN Calls(blocks) : \E q \in DOMAIN blocks :
              IsCall(blocks[q]) /\ Calls(blocks)[i] = blocks[q]
         /\ \A q \in DOMAIN blocks : IsCall(blocks[q]) => \E i \in DOMAIN Calls(blocks) : Calls(blocks)[i] = blocks[q]
         /\ Apart(blocks) =>
              \A i, j \in DOMAIN Calls(blocks) : Calls(blocks)[i].id = Calls(blocks)[j].id => i = j
<1>1. PICK c : c = Calls(blocks)
  OBVIOUS
<1>2. PICK place : CallsUpTo(blocks, Len(blocks), c, place)
  BY <1>1, CallsOf
<1>3. DOMAIN blocks = 1..Len(blocks)
  BY DEF IsSequence
<1>4. /\ IsSequence(c) /\ \A i \in DOMAIN c : place[i] \in DOMAIN blocks
      /\ \A i \in DOMAIN c : IsCall(blocks[place[i]]) /\ c[i] = blocks[place[i]]
      /\ \A q \in DOMAIN blocks : IsCall(blocks[q]) => \E i \in DOMAIN c : place[i] = q
      /\ \A i, j \in DOMAIN c : place[i] = place[j] => i = j
  BY <1>2, <1>3 DEF CallsUpTo
<1>5. ASSUME Apart(blocks), NEW i \in DOMAIN c, NEW j \in DOMAIN c, c[i].id = c[j].id PROVE i = j
  BY <1>4, <1>5 DEF Apart
<1> QED
  BY <1>1, <1>4, <1>5

LEMMA NoCallsOf ==
  ASSUME NEW blocks, IsSequence(blocks), \A q \in DOMAIN blocks : ~IsCall(blocks[q])
  PROVE  IsSequence(Calls(blocks)) /\ DOMAIN Calls(blocks) = {}
  BY CallsFacts

-----------------------------------------------------------------------------
\* Tools are started, and go on.

States == {"wait", "run", "done"}
ToolsOK(tl) ==
  /\ IsSequence(tl)
  /\ \A k \in DOMAIN tl : /\ tl[k] = Started(tl[k].call, tl[k].state, tl[k].slot)
                          /\ tl[k].state \in States /\ tl[k].slot \in BOOLEAN

\* One more tool, for call.
NewTool(tl, more, call) ==
  LET k == Len(tl) + 1 IN
  /\ Len(tl) \in Nat /\ DOMAIN tl = 1..Len(tl) /\ k \notin DOMAIN tl
  /\ IsSequence(more) /\ Len(more) = k /\ DOMAIN more = DOMAIN tl \cup {k}
  /\ \A j \in DOMAIN tl : more[j] = tl[j]
  /\ more[k].call = call

LEMMA Appended ==
  ASSUME NEW tl, ToolsOK(tl), NEW call, NEW state \in States
  PROVE  LET more == Append(tl, Started(call, state, FALSE)) IN
         /\ NewTool(tl, more, call) /\ ToolsOK(more) /\ more[Len(tl) + 1].state = state
<1> DEFINE e == Started(call, state, FALSE)
           k == Len(tl) + 1
<1>1. e.call = call /\ e.state = state /\ e.slot = FALSE /\ e = Started(e.call, e.state, e.slot)
  BY DEF Started
<1> HIDE DEF e
<1>2. IsSequence(tl)
  BY DEF ToolsOK
<1>3. PICK more : more = Append(tl, e)
  OBVIOUS
<1>4. /\ Len(tl) \in Nat /\ DOMAIN tl = 1..Len(tl) /\ Len(more) = k /\ DOMAIN more = 1..k
      /\ \A j \in 1..Len(tl) : more[j] = tl[j]
      /\ more[k] = e
  BY <1>2, <1>3 DEF IsSequence
<1>5. IsSequence(more)
  <2>1. tl \in Seq(Range(tl) \cup {e})
    BY <1>2, SeqMonotonic DEF IsSequence
  <2>2. more \in Seq(Range(tl) \cup {e})
    BY <1>3, <2>1
  <2> QED
    BY <2>2, SeqOfRange DEF IsSequence
<1>6. NewTool(tl, more, call)
  BY <1>1, <1>4, <1>5 DEF NewTool
<1>7. ToolsOK(more)
  <2>1. ASSUME NEW j \in DOMAIN more
        PROVE  /\ more[j] = Started(more[j].call, more[j].state, more[j].slot)
               /\ more[j].state \in States /\ more[j].slot \in BOOLEAN
    <3>1. CASE j = k
      BY <1>1, <1>4, <3>1
    <3>2. CASE j # k
      BY <1>4, <3>2 DEF ToolsOK
    <3> QED
      BY <3>1, <3>2
  <2> QED
    BY <1>5, <2>1 DEF ToolsOK
<1> QED
  BY <1>1, <1>3, <1>4, <1>6, <1>7 DEF e

LEMMA StartsTool ==
  ASSUME ToolsOK(tool), NEW call, NEW alone, Start(call, alone)
  PROVE  /\ NewTool(tool, tool', call) /\ ToolsOK(tool')
         /\ inline' = inline \/ inline' = Len(tool) + 1
<1>1. \E state \in States : tool' = Append(tool, Started(call, state, FALSE))
  BY DEF Start, States
<1>2. inline' = inline \/ inline' = Len(tool) + 1
  BY DEF Start
<1>3. PICK state \in States : tool' = Append(tool, Started(call, state, FALSE))
  BY <1>1
<1>4. NewTool(tool, Append(tool, Started(call, state, FALSE)), call)
      /\ ToolsOK(Append(tool, Started(call, state, FALSE)))
  BY Appended
<1> QED
  BY <1>2, <1>3, <1>4

\* What runs in the run itself is over or is its tool.
LEMMA StartsAlone ==
  ASSUME ToolsOK(tool), NEW call, Start(call, TRUE)
  PROVE  tool'[Len(tool) + 1].state = "done" \/ inline' = Len(tool) + 1
<1>1. CASE tool' = Append(tool, Started(call, "done", FALSE))
  <2>1. "done" \in States
    BY DEF States
  <2> QED
    BY <1>1, <2>1, Appended
<1>2. CASE inline' = Len(tool) + 1
  BY <1>2
<1> QED
  BY <1>1, <1>2 DEF Start

ToolsKept == DOMAIN tool' = DOMAIN tool /\ \A k \in DOMAIN tool : tool'[k].call = tool[k].call

\* The work of tools that have been started.
LEMMA ToolMoves ==
  ASSUME ToolsOK(tool), NEW k \in DOMAIN tool, Goroutine(k)
  PROVE  /\ ToolsKept /\ ToolsOK(tool') /\ Len(tool') = Len(tool)
         /\ \A j \in DOMAIN tool : Running(j)' => Running(j)
         /\ inline' = inline \/ (inline = k /\ inline' = 0 /\ ~Running(k)')
<1>1. IsSequence(tool) /\ tool[k] = Started(tool[k].call, tool[k].state, tool[k].slot) /\ tool[k].slot \in BOOLEAN
  BY DEF ToolsOK
<1>2. /\ tool' = [j \in DOMAIN tool |-> tool'[j]]
      /\ \A j \in DOMAIN tool : j # k => tool'[j] = tool[j]
  BY DEF Goroutine, TakeSlot, GiveUp, ToolEnds
<1>3. \E state \in States, slot \in BOOLEAN : tool'[k] = Started(tool[k].call, state, slot)
  <2>1. CASE TakeSlot(k)
    <3>1. tool' = [tool EXCEPT ![k].state = "run", ![k].slot = TRUE]
      BY <2>1 DEF TakeSlot
    <3>2. tool'[k] = Started(tool[k].call, "run", TRUE)
      BY <1>1, <3>1 DEF Started
    <3> QED
      BY <3>2 DEF States
  <2>2. CASE GiveUp(k)
    <3>1. tool' = [tool EXCEPT ![k].state = "done"]
      BY <2>2 DEF GiveUp
    <3>2. tool'[k] = Started(tool[k].call, "done", tool[k].slot)
      BY <1>1, <3>1 DEF Started
    <3> QED
      BY <1>1, <3>2 DEF States
  <2>3. CASE ToolEnds(k)
    <3>1. tool' = [tool EXCEPT ![k].state = "done", ![k].slot = FALSE]
      BY <2>3 DEF ToolEnds
    <3>2. tool'[k] = Started(tool[k].call, "done", FALSE)
      BY <1>1, <3>1 DEF Started
    <3> QED
      BY <3>2 DEF States
  <2> QED
    BY <2>1, <2>2, <2>3 DEF Goroutine
<1>4. PICK state \in States, slot \in BOOLEAN : tool'[k] = Started(tool[k].call, state, slot)
  BY <1>3
<1>5. PICK more : more = tool'
  OBVIOUS
<1>6. /\ more = [j \in DOMAIN tool |-> more[j]] /\ DOMAIN more = DOMAIN tool
      /\ \A j \in DOMAIN tool : j # k => more[j] = tool[j]
  BY <1>2, <1>5
<1>7. more[k].call = tool[k].call /\ more[k] = Started(more[k].call, state, slot) /\ more[k].state = state /\ more[k].slot = slot
  BY <1>4, <1>5 DEF Started
<1>8. IsSequence(more) /\ Len(more) = Len(tool)
  <2>1. \A j \in 1..Len(tool) : more[j] \in Range(more)
    BY <1>1, <1>6 DEF IsSequence, Range
  <2>2. Len(tool) \in Nat /\ DOMAIN tool = 1..Len(tool)
    BY <1>1 DEF IsSequence
  <2> QED
    BY <1>6, <2>1, <2>2 DEF IsSequence
<1>9. ToolsKept
  BY <1>5, <1>6, <1>7 DEF ToolsKept
<1>10. ToolsOK(more)
  <2>1. ASSUME NEW j \in DOMAIN more
        PROVE  /\ more[j] = Started(more[j].call, more[j].state, more[j].slot)
               /\ more[j].state \in States /\ more[j].slot \in BOOLEAN
    <3>1. CASE j = k
      BY <1>7, <3>1
    <3>2. CASE j # k
      BY <1>6, <3>2 DEF ToolsOK
    <3> QED
      BY <3>1, <3>2
  <2> QED
    BY <1>8, <2>1 DEF ToolsOK
<1>11. \A j \in DOMAIN tool : Running(j)' => Running(j)
  <2>1. Running(k)
    BY DEF Goroutine, TakeSlot, GiveUp, ToolEnds, Running
  <2> QED
    BY <1>2, <2>1 DEF Running
<1>12. inline' = inline \/ (inline = k /\ inline' = 0 /\ ~Running(k)')
  <2>1. CASE TakeSlot(k) \/ GiveUp(k)
    BY <2>1 DEF TakeSlot, GiveUp
  <2>2. CASE ToolEnds(k)
    <3>1. tool' = [tool EXCEPT ![k].state = "done", ![k].slot = FALSE]
      BY <2>2 DEF ToolEnds
    <3>2. tool'[k] = Started(tool[k].call, "done", FALSE)
      BY <1>1, <3>1 DEF Started
    <3>3. tool'[k].state = "done"
      BY <3>2 DEF Started
    <3>4. ~Running(k)'
      BY <3>3 DEF Running
    <3> QED
      BY <2>2, <3>4 DEF ToolEnds
  <2> QED
    BY <2>1, <2>2 DEF Goroutine
<1> QED
  BY <1>5, <1>8, <1>9, <1>10, <1>11, <1>12

-----------------------------------------------------------------------------
\* Steps that leave the answer and what was made of it alone.

LEMMA TypeTools ==
  ASSUME TypeOK
  PROVE  ToolsOK(tool)
  BY DEF TypeOK, ToolsOK, States

LEMMA TurnSame ==
  ASSUME TurnInv, ToolsKept, UNCHANGED <<setup, at, attempt, eager, answer, err, recorded>>,
         ~cancelled' => ~cancelled, TypeOK'
  PROVE  Early' /\ Matched' /\ Kept' /\ AllKnown' /\ OwnArguments'
<1>1. TheCalls' = TheCalls /\ Reply' = Reply /\ (Exact' <=> Exact)
  BY DEF TheCalls, Reply, Exact
<1>2. Early'
  BY DEF TurnInv, Early
<1>3. /\ DOMAIN tool' = DOMAIN tool /\ \A k \in DOMAIN tool : tool'[k].call = tool[k].call
      /\ eager \in [DOMAIN eager -> DOMAIN tool] /\ recorded \in Seq(DOMAIN tool)
  BY DEF ToolsKept, TurnInv, TypeOK
<1>4. (\A d \in DOMAIN eager : eager[d] \in DOMAIN tool) /\ \A i \in DOMAIN recorded : recorded[i] \in DOMAIN tool
  BY <1>3
<1>5. Matched'
  <2>1. ASSUME eager # NoCalls, at \in {"read", "drain", "finish", "ended"}
        PROVE  /\ IsSequence(TheCalls)
               /\ \A i, j \in DOMAIN TheCalls : TheCalls[i].id = TheCalls[j].id => i = j
               /\ \A i \in DOMAIN TheCalls : TheCalls[i].id \in DOMAIN eager =>
                    tool'[eager[TheCalls[i].id]].call = TheCalls[i]
               /\ ~cancelled' /\ err = "none" /\ (answer # NoAnswer \/ at # "read") =>
                    \A d \in DOMAIN eager : \E i \in DOMAIN TheCalls : TheCalls[i].id = d
    BY <1>3, <1>4, <2>1 DEF TurnInv, Matched
  <2> QED
    BY <1>1, <2>1 DEF Matched
<1>6. Kept'
  <2>1. ASSUME NEW i \in DOMAIN recorded
        PROVE  tool'[recorded[i]].call = TheCalls[i]
    BY <1>3, <1>4 DEF TurnInv, Kept
  <2>2. Unrecorded' = Unrecorded
    BY <1>1 DEF Unrecorded
  <2> QED
    BY <1>1, <2>1, <2>2 DEF TurnInv, Kept
<1>7. AllKnown'
  <2>1. tool = <<>> => tool' = <<>>
    <3>1. ASSUME tool = <<>>, NEW more, more = tool', IsSequence(more) PROVE more = <<>>
      <4>1. DOMAIN more = {}
        BY <1>3, <3>1
      <4> QED
        BY <3>1, <4>1 DEF IsSequence
    <3>2. IsSequence(tool')
      BY DEF TypeOK
    <3> QED
      BY <3>1, <3>2
  <2> QED
    BY <1>3, <2>1 DEF TurnInv, AllKnown
<1>8. OwnArguments'
  BY <1>1, <1>3 DEF TurnInv, OwnArguments
<1> QED
  BY <1>2, <1>5, <1>6, <1>7, <1>8

LEMMA AwaitedSame ==
  ASSUME Awaited, UNCHANGED <<at, tool, eager, inline>>
  PROVE  Awaited'
  BY DEF Awaited, Running

LEMMA SameKept ==
  ASSUME UNCHANGED tool
  PROVE  ToolsKept
  BY DEF ToolsKept

LEMMA CancelKeeps ==
  ASSUME TurnInv, Cancel
  PROVE  TurnInv'
<1>1. TypeOK'
  BY DEF TurnInv, TypeOK, Cancel, stream
<1>2. StreamInv' /\ AtRest'
  BY DEF TurnInv, StreamInv, AtRest, Reply, Cancel, stream
<1>3. Awaited'
  BY AwaitedSame DEF TurnInv, Cancel
<1>4. Early' /\ Matched' /\ Kept' /\ AllKnown' /\ OwnArguments'
  BY <1>1, TurnSame, SameKept DEF Cancel, stream
<1> QED
  BY <1>1, <1>2, <1>3, <1>4 DEF TurnInv

LEMMA GoroutineKeeps ==
  ASSUME TurnInv, NEW k \in DOMAIN tool, Goroutine(k)
  PROVE  TurnInv'
<1>1. UNCHANGED <<stream, channel, cancelled, at, attempt, pending, eager, answer, err, heard, recorded>>
  BY DEF Goroutine, TakeSlot, GiveUp, ToolEnds
<1>2. /\ ToolsKept /\ ToolsOK(tool') /\ Len(tool') = Len(tool)
      /\ \A j \in DOMAIN tool : Running(j)' => Running(j)
      /\ inline' = inline \/ (inline = k /\ inline' = 0 /\ ~Running(k)')
  BY ToolMoves, TypeTools DEF TurnInv
<1>3. DOMAIN tool' = DOMAIN tool /\ \A j \in DOMAIN tool : tool'[j].call = tool[j].call
  BY <1>2 DEF ToolsKept
<1>4. TypeOK'
  <2>1. IsSequence(tool) /\ Len(tool) \in Nat
    BY DEF TurnInv, TypeOK, IsSequence
  <2>2. inline' \in 0..Len(tool')
    BY <1>2, <2>1 DEF TurnInv, TypeOK
  <2> QED
    BY <1>1, <1>2, <1>3, <2>2 DEF TurnInv, TypeOK, stream, ToolsOK, States
<1>5. StreamInv'
  <2>1. ASSUME at = "read" PROVE Going(setup.format, Reply, parser, wire, channel, pending, eager, tool')
    BY <1>3, <2>1, GoingTools DEF TurnInv, StreamInv
  <2> QED
    BY <1>1, <2>1 DEF TurnInv, StreamInv, Reply, stream
<1>6. AtRest'
  BY <1>1 DEF TurnInv, AtRest, stream
<1>7. Awaited'
  <2>1. \A j \in DOMAIN tool' : Running(j)' => Running(j)
    BY <1>2, <1>3
  <2> QED
    BY <1>1, <1>2, <1>3, <2>1 DEF TurnInv, Awaited
<1>8. Early' /\ Matched' /\ Kept' /\ AllKnown' /\ OwnArguments'
  BY <1>1, <1>2, <1>4, TurnSame DEF stream
<1> QED
  BY <1>4, <1>5, <1>6, <1>7, <1>8 DEF TurnInv

-----------------------------------------------------------------------------
\* The goroutine of the parser.

LEMMA SetupFacts ==
  ASSUME TypeOK
  PROVE  setup \in Setups /\ setup.format \in Formats /\ setup.streaming \in BOOLEAN /\ IsReply(setup.reply)
  BY TurnAssumption DEF TypeOK

LEMMA ReaderMakes ==
  ASSUME TurnInv, Reader
  PROVE  /\ at = "read" /\ ~parser.closed
         /\ UNCHANGED <<setup, cancelled, TurnVars>>
         /\ \E q : Makes(setup.format, Reply, q, wire', channel, pending, eager, tool) /\ Emits(q)
<1>1. ~parser.closed /\ UNCHANGED <<setup, cancelled, TurnVars>>
  BY DEF Reader, ReadFrame, ReadErrorFrame, ReadEnd, ReadBreaks
<1>2. at = "read"
  BY <1>1 DEF TurnInv, AtRest
<1>3. Open(setup.format, Reply, parser, wire, channel, pending, eager, tool)
  BY <1>1, <1>2, SetupFacts DEF TurnInv, StreamInv, Open
<1>4. IsSequence(<<>>) /\ "transient" \in Kinds /\ "permanent" \in Kinds
  BY NoBlocks DEF Kinds
<1>5. ASSUME ReadFrame
      PROVE  \E q : Makes(setup.format, Reply, q, wire', channel, pending, eager, tool) /\ Emits(q)
  <2>1. PICK q : q = Parse(setup.format, parser, Head(wire))
    OBVIOUS
  <2>2. Emits(q) /\ wire # <<>> /\ wire' = Tail(wire)
    BY <1>5, <2>1 DEF ReadFrame
  <2>3. Makes(setup.format, Reply, q, Tail(wire), channel, pending, eager, tool)
    BY <1>3, <2>1, <2>2, FrameMakes
  <2> QED
    BY <2>2, <2>3
<1>6. ASSUME ReadErrorFrame
      PROVE  \E q : Makes(setup.format, Reply, q, wire', channel, pending, eager, tool) /\ Emits(q)
  <2>1. PICK kind \in Kinds : Emits(ErrorFrame(setup.format, parser, kind)) /\ wire' = <<>>
    BY <1>6 DEF ReadErrorFrame, Kinds
  <2>2. PICK cause \in Kinds : ErrorFrame(setup.format, parser, kind) = Fails(parser, cause)
    BY <1>4 DEF ErrorFrame
  <2>3. PICK q : q = Fails(parser, cause)
    OBVIOUS
  <2>4. Emits(q)
    BY <2>1, <2>2, <2>3
  <2>5. Makes(setup.format, Reply, q, <<>>, channel, pending, eager, tool)
    BY <1>3, <1>4, <2>3, FailsMakes
  <2> QED
    BY <2>1, <2>4, <2>5
<1>7. ASSUME ReadEnd
      PROVE  \E q : Makes(setup.format, Reply, q, wire', channel, pending, eager, tool) /\ Emits(q)
  <2>1. PICK q : q = EndOfBody(setup.format, parser)
    OBVIOUS
  <2>2. Emits(q) /\ wire' = <<>>
    BY <1>7, <2>1 DEF ReadEnd
  <2>3. Makes(setup.format, Reply, q, <<>>, channel, pending, eager, tool)
    BY <1>3, <1>4, <2>1, EndMakes
  <2> QED
    BY <2>2, <2>3
<1>8. ASSUME ReadBreaks
      PROVE  \E q : Makes(setup.format, Reply, q, wire', channel, pending, eager, tool) /\ Emits(q)
  <2>1. PICK cause \in Kinds : Emits(Fails(parser, cause)) /\ wire' = <<>>
    BY <1>4, <1>8 DEF ReadBreaks, ReadError
  <2>2. PICK q : q = Fails(parser, cause)
    OBVIOUS
  <2>3. Emits(q)
    BY <2>1, <2>2
  <2>4. Makes(setup.format, Reply, q, <<>>, channel, pending, eager, tool)
    BY <1>3, <1>4, <2>2, FailsMakes
  <2> QED
    BY <2>1, <2>3, <2>4
<1> QED
  BY <1>1, <1>2, <1>5, <1>6, <1>7, <1>8 DEF Reader

LEMMA ReaderKeeps ==
  ASSUME TurnInv, Reader
  PROVE  TurnInv'
<1>1. /\ at = "read" /\ ~parser.closed
      /\ UNCHANGED <<setup, cancelled, at, attempt, pending, tool, eager, inline, answer, err, heard, recorded>>
  BY ReaderMakes DEF TurnVars
<1>2. PICK q : Makes(setup.format, Reply, q, wire', channel, pending, eager, tool) /\ Emits(q)
  BY ReaderMakes
<1>3. Going(setup.format, Reply, parser, wire, channel, pending, eager, tool)
  BY <1>1 DEF TurnInv, StreamInv
<1>4. setup.format \in Formats
  BY SetupFacts DEF TurnInv
<1>5. \/ parser' = Sends(q, <<>>) /\ channel' = channel \o q.events
      \/ /\ cancelled = TRUE /\ setup.format # "responses" /\ parser' = Ends(q, <<>>)
         /\ \E n \in 0..(Len(q.events) - 1) : channel' = channel \o SubSeq(q.events, 1, n)
  BY <1>2 DEF Emits
<1>6. GoesOn(setup.format, Reply, parser', wire', channel', pending, eager, tool, cancelled)
  BY <1>1, <1>2, <1>3, <1>4, <1>5, GoingAfter
<1>7. Going(setup.format, Reply, parser', wire', channel', pending, eager, tool)
  BY <1>6 DEF GoesOn
<1>8. answer = NoAnswer
  BY <1>1 DEF TurnInv, StreamInv
<1>9. TypeOK'
  <2>1. /\ IsSequence(wire') /\ IsSequence(channel') /\ \A x \in DOMAIN channel' : IsEvent(channel'[x])
        /\ parser'.closed \in BOOLEAN
    BY <1>7 DEF Going, ParserOK
  <2> QED
    BY <1>1, <2>1 DEF TurnInv, TypeOK
<1>10. StreamInv'
  BY <1>1, <1>6, <1>7, <1>8 DEF TurnInv, StreamInv, Reply, GoesOn
<1>11. AtRest' /\ Awaited'
  BY <1>1, AwaitedSame DEF TurnInv, AtRest
<1>12. Early' /\ Matched' /\ Kept' /\ AllKnown' /\ OwnArguments'
  BY <1>1, <1>9, TurnSame, SameKept
<1> QED
  BY <1>9, <1>10, <1>11, <1>12 DEF TurnInv

-----------------------------------------------------------------------------
\* consumeStreamEager.

\* What holds when an event is received.
LEMMA Hears ==
  ASSUME TurnInv, at = "read", channel # <<>>
  PROVE  /\ Going(setup.format, Reply, parser, wire, channel, pending, eager, tool)
         /\ IsSequence(channel) /\ answer = NoAnswer /\ err = "none" /\ setup.streaming
         /\ parser.closed /\ ~cancelled => \E x \in DOMAIN channel : channel[x].type \in Final
  BY DEF TurnInv, StreamInv, Going

\* An event that only changes what is pending.
LEMMA ChannelMoves ==
  ASSUME TurnInv, at = "read", channel # <<>>, channel' = Tail(channel), Head(channel).type \notin Final,
         UNCHANGED <<stream, cancelled, at, attempt, tool, eager, inline, answer, err, recorded>>,
         heard' \in BOOLEAN,
         Going(setup.format, Reply, parser, wire, channel', pending', eager, tool)
  PROVE  TurnInv'
<1>1. TypeOK'
  <2>1. IsSequence(channel') /\ \A x \in DOMAIN channel' : IsEvent(channel'[x])
    BY DEF Going
  <2> QED
    BY <2>1 DEF TurnInv, TypeOK, stream
<1>2. StreamInv'
  <2>1. parser.closed /\ ~cancelled => \E x \in DOMAIN channel' : channel'[x].type \in Final
    BY Hears, StillFinal
  <2> QED
    BY <2>1, Hears DEF StreamInv, Reply, stream
<1>3. AtRest' /\ Awaited'
  BY AwaitedSame DEF TurnInv, AtRest
<1>4. Early' /\ Matched' /\ Kept' /\ AllKnown' /\ OwnArguments'
  BY <1>1, TurnSame, SameKept DEF stream
<1> QED
  BY <1>1, <1>2, <1>3, <1>4 DEF TurnInv

LEMMA ListenKeeps ==
  ASSUME TurnInv, Listen
  PROVE  TurnInv'
<1>1. /\ at = "read" /\ channel # <<>> /\ Head(channel).type \in {"text", "thinking"}
      /\ channel' = Tail(channel)
      /\ UNCHANGED <<stream, cancelled, at, attempt, pending, tool, eager, inline, answer, err, recorded>>
  BY DEF Listen, At, Receives
<1>2. heard' \in BOOLEAN
  BY DEF Listen
<1>3. Head(channel).type \notin {"tool_use_start", "input_delta"} /\ Head(channel).type \notin Final
  BY <1>1 DEF Final
<1>4. Going(setup.format, Reply, parser, wire, Tail(channel), pending, eager, tool)
  BY <1>1, <1>3, Hears, GoingOther
<1> QED
  BY <1>1, <1>2, <1>3, <1>4, ChannelMoves

LEMMA BlockStartsKeeps ==
  ASSUME TurnInv, BlockStarts
  PROVE  TurnInv'
<1>1. /\ at = "read" /\ channel # <<>> /\ Head(channel).type = "tool_use_start"
      /\ channel' = Tail(channel)
      /\ UNCHANGED <<stream, cancelled, at, attempt, tool, eager, inline, answer, err, recorded, heard>>
  BY DEF BlockStarts, At, Receives
<1>2. pending' = [i \in DOMAIN pending \cup {Head(channel).index} |->
                   IF i = Head(channel).index THEN Call(Head(channel).id, Head(channel).name, "none")
                   ELSE pending[i]]
  BY DEF BlockStarts, Ev
<1>3. Head(channel).type \notin Final /\ heard' \in BOOLEAN
  BY <1>1 DEF Final, TurnInv, TypeOK
<1>4. PICK new : new = pending'
  OBVIOUS
<1>5. Going(setup.format, Reply, parser, wire, Tail(channel), new, eager, tool)
  BY <1>1, <1>2, <1>4, Hears, GoingStart
<1> QED
  BY <1>1, <1>3, <1>4, <1>5, ChannelMoves

LEMMA InputArrivesKeeps ==
  ASSUME TurnInv, InputArrives
  PROVE  TurnInv'
<1>1. /\ at = "read" /\ channel # <<>> /\ Head(channel).type = "input_delta"
      /\ channel' = Tail(channel)
      /\ UNCHANGED <<stream, cancelled, at, attempt, tool, eager, inline, answer, err, recorded, heard>>
  BY DEF InputArrives, At, Receives
<1>2. pending' = [i \in DOMAIN pending |->
                   IF i = Head(channel).index THEN [pending[i] EXCEPT !.args = "some"] ELSE pending[i]]
  BY DEF InputArrives, Ev
<1>3. Head(channel).type \notin Final /\ heard' \in BOOLEAN
  BY <1>1 DEF Final, TurnInv, TypeOK
<1>4. PICK new : new = pending'
  OBVIOUS
<1>5. Going(setup.format, Reply, parser, wire, Tail(channel), new, eager, tool)
  BY <1>1, <1>2, <1>4, Hears, GoingDelta
<1> QED
  BY <1>1, <1>3, <1>4, <1>5, ChannelMoves

\* Before there is an answer.
LEMMA NoAnswerYet ==
  ASSUME answer = NoAnswer
  PROVE  IsSequence(TheCalls) /\ DOMAIN TheCalls = {}
<1>1. answer.blocks = <<>>
  BY DEF NoAnswer, Answer
<1>2. PICK blocks : blocks = answer.blocks
  OBVIOUS
<1>3. IsSequence(blocks) /\ \A q \in DOMAIN blocks : ~IsCall(blocks[q])
  BY <1>1, <1>2, NoBlocks
<1>4. IsSequence(Calls(blocks)) /\ DOMAIN Calls(blocks) = {}
  BY <1>3, NoCallsOf
<1> QED
  BY <1>2, <1>4 DEF TheCalls

LEMMA CallStarts ==
  ASSUME TurnInv, BlockStops, Ev.index \in DOMAIN pending,
         NEW call, call = pending[Ev.index], NEW k, k = Len(tool) + 1
  PROVE  /\ at = "read" /\ inline = 0 /\ channel # <<>> /\ channel' = Tail(channel)
         /\ Head(channel).type \notin Final
         /\ UNCHANGED <<stream, cancelled, at, attempt, answer, err, heard, recorded>>
         /\ NewTool(tool, tool', call) /\ ToolsOK(tool')
         /\ inline' = inline \/ inline' = k
         /\ DOMAIN eager' = DOMAIN eager \cup {call.id} /\ eager'[call.id] = k
         /\ eager' \in [DOMAIN eager' -> DOMAIN tool']
         /\ \A d \in DOMAIN eager : eager'[d] = eager[d] /\ eager[d] \in DOMAIN tool
         /\ call.id \notin DOMAIN eager /\ call \in Range(Reply) /\ setup.format # "openai"
         /\ Going(setup.format, Reply, parser, wire, Tail(channel), pending', eager', tool')
<1>1. /\ at = "read" /\ inline = 0 /\ channel # <<>> /\ channel' = Tail(channel)
      /\ Head(channel).type = "content_block_stop"
      /\ UNCHANGED <<stream, cancelled, at, attempt, answer, err, heard, recorded>>
  BY DEF BlockStops, At, Receives
<1>2. Head(channel).type \notin Final
  BY <1>1 DEF Final
<1>3. /\ Start(call, FALSE)
      /\ eager' = [d \in DOMAIN eager \cup {call.id} |-> IF d = call.id THEN k ELSE eager[d]]
      /\ pending' = [i \in DOMAIN pending \ {Ev.index} |-> pending[i]]
  BY DEF BlockStops
<1>4. NewTool(tool, tool', call) /\ ToolsOK(tool') /\ (inline' = inline \/ inline' = k)
  BY <1>3, StartsTool, TypeTools DEF TurnInv
<1>5. StopsCall(channel, pending, eager, tool, call, pending', k, tool', eager')
  <2>1. /\ \A j \in DOMAIN tool : j \in DOMAIN tool' /\ tool'[j].call = tool[j].call
        /\ k \in DOMAIN tool' /\ tool'[k].call = call
    BY <1>4 DEF NewTool
  <2> QED
    BY <1>1, <1>3, <2>1 DEF StopsCall, Ev
<1>6. Going(setup.format, Reply, parser, wire, channel, pending, eager, tool)
  BY <1>1, Hears
<1>7. /\ Going(setup.format, Reply, parser, wire, Tail(channel), pending', eager', tool')
      /\ call.id \notin DOMAIN eager /\ call \in Range(Reply) /\ setup.format # "openai"
  <2>1. PICK new, more, started : new = pending' /\ more = tool' /\ started = eager'
    OBVIOUS
  <2>2. StopsCall(channel, pending, eager, tool, call, new, k, more, started)
    BY <1>5, <2>1
  <2>3. /\ Going(setup.format, Reply, parser, wire, Tail(channel), new, started, more)
        /\ call.id \notin DOMAIN eager /\ call \in Range(Reply) /\ setup.format # "openai"
    BY <1>1, <1>6, <2>2, GoingStop
  <2> QED
    BY <2>1, <2>3
<1>8. \A d \in DOMAIN eager : eager[d] \in DOMAIN tool
  BY DEF TurnInv, TypeOK
<1>9. DOMAIN tool' = DOMAIN tool \cup {k}
  BY <1>4 DEF NewTool
<1>10. /\ DOMAIN eager' = DOMAIN eager \cup {call.id} /\ eager'[call.id] = k
       /\ \A d \in DOMAIN eager : eager'[d] = eager[d]
  BY <1>3, <1>7
<1>11. eager' \in [DOMAIN eager' -> DOMAIN tool']
  BY <1>3, <1>8, <1>9
<1> QED
  BY <1>1, <1>2, <1>4, <1>7, <1>8, <1>10, <1>11

LEMMA BlockStopsKeeps ==
  ASSUME TurnInv, BlockStops
  PROVE  TurnInv'
<1>1. CASE Ev.index \notin DOMAIN pending
  <2>1. /\ at = "read" /\ channel # <<>> /\ Head(channel).type = "content_block_stop"
        /\ channel' = Tail(channel)
        /\ UNCHANGED <<stream, cancelled, at, attempt, pending, tool, eager, inline, answer, err, recorded, heard>>
    BY <1>1 DEF BlockStops, At, Receives
  <2>2. Head(channel).type \notin {"tool_use_start", "input_delta"} /\ Head(channel).type \notin Final
    BY <2>1 DEF Final
  <2>3. heard' \in BOOLEAN
    BY <2>1 DEF TurnInv, TypeOK
  <2>4. Going(setup.format, Reply, parser, wire, Tail(channel), pending, eager, tool)
    BY <2>1, <2>2, Hears, GoingOther
  <2> QED
    BY <2>1, <2>2, <2>3, <2>4, ChannelMoves
<1>2. CASE Ev.index \in DOMAIN pending
  <2> DEFINE call == pending[Ev.index]
             k == Len(tool) + 1
  <2>1. /\ at = "read" /\ inline = 0 /\ channel # <<>> /\ channel' = Tail(channel)
        /\ Head(channel).type \notin Final
        /\ UNCHANGED <<stream, cancelled, at, attempt, answer, err, heard, recorded>>
        /\ NewTool(tool, tool', call) /\ ToolsOK(tool') /\ (inline' = inline \/ inline' = k)
    BY <1>2, CallStarts
  <2>2. /\ DOMAIN eager' = DOMAIN eager \cup {call.id} /\ eager'[call.id] = k
        /\ eager' \in [DOMAIN eager' -> DOMAIN tool']
        /\ \A d \in DOMAIN eager : eager'[d] = eager[d] /\ eager[d] \in DOMAIN tool
    BY <1>2, CallStarts
  <2>3. /\ call.id \notin DOMAIN eager /\ call \in Range(Reply) /\ setup.format # "openai"
        /\ Going(setup.format, Reply, parser, wire, Tail(channel), pending', eager', tool')
    BY <1>2, CallStarts
  <2>4. /\ DOMAIN tool' = DOMAIN tool \cup {k} /\ k \notin DOMAIN tool /\ k \in Nat
        /\ \A j \in DOMAIN tool : tool'[j] = tool[j]
        /\ tool'[k].call = call /\ Len(tool') = k
    BY <2>1 DEF NewTool
  <2> HIDE DEF call, k
  <2>5. recorded = <<>> /\ answer = NoAnswer
    BY <2>1, Hears DEF TurnInv, Kept
  <2>6. TypeOK'
    <3>1. IsSequence(channel') /\ \A x \in DOMAIN channel' : IsEvent(channel'[x])
      BY <2>1, <2>3 DEF Going
    <3>2. recorded' \in Seq(DOMAIN tool')
      BY <2>1, <2>5
    <3>3. inline' \in 0..Len(tool')
      BY <2>1, <2>4
    <3> QED
      BY <2>1, <2>2, <3>1, <3>2, <3>3 DEF TurnInv, TypeOK, stream, ToolsOK, States
  <2>7. StreamInv'
    <3>1. parser.closed /\ ~cancelled => \E x \in DOMAIN channel' : channel'[x].type \in Final
      BY <2>1, Hears, StillFinal
    <3> QED
      BY <2>1, <2>3, <2>5, <3>1, Hears DEF StreamInv, Reply, stream
  <2>8. AtRest'
    BY <2>1 DEF AtRest
  <2>9. Awaited'
    <3>1. ASSUME NEW j \in DOMAIN tool', Running(j)' PROVE \E d \in DOMAIN eager' : eager'[d] = j
      <4>1. CASE j = k
        BY <2>2, <4>1
      <4>2. CASE j # k
        <5>1. j \in DOMAIN tool /\ Running(j)
          BY <2>4, <3>1, <4>2 DEF Running
        <5>2. PICK d \in DOMAIN eager : eager[d] = j
          BY <2>1, <5>1 DEF TurnInv, Awaited
        <5> QED
          BY <2>2, <5>2
      <4> QED
        BY <4>1, <4>2
    <3> QED
      BY <2>1, <3>1 DEF Awaited
  <2>10. Early'
    <3>1. \A d, e \in DOMAIN eager' : eager'[d] = eager'[e] => d = e
      BY <2>2, <2>4 DEF TurnInv, Early
    <3> QED
      BY <2>1, <2>3, <3>1, Hears DEF Early, stream
  <2>11. IsSequence(TheCalls') /\ DOMAIN TheCalls' = {}
    <3>1. TheCalls' = TheCalls
      BY <2>1 DEF TheCalls
    <3> QED
      BY <2>5, <3>1, NoAnswerYet
  <2>12. Matched'
    BY <2>1, <2>5, <2>11 DEF Matched
  <2>13. Kept'
    BY <2>1, <2>5, NoBlocks DEF TurnInv, Kept
  <2>14. AllKnown'
    <3>1. ASSUME attempt = 1, NEW j \in DOMAIN tool' PROVE \E d \in DOMAIN eager' : eager'[d] = j
      <4>1. CASE j = k
        BY <2>2, <4>1
      <4>2. CASE j # k
        <5>1. j \in DOMAIN tool
          BY <2>4, <4>2
        <5>2. PICK d \in DOMAIN eager : eager[d] = j
          BY <2>5, <3>1, <5>1, NoBlocks DEF TurnInv, AllKnown
        <5> QED
          BY <2>2, <5>2
      <4> QED
        BY <4>1, <4>2
    <3> QED
      BY <2>1, <3>1 DEF AllKnown
  <2>15. OwnArguments'
    <3>1. ASSUME Exact, NEW j \in DOMAIN tool' PROVE tool'[j].call \in Range(Reply)
      BY <2>3, <2>4, <3>1 DEF TurnInv, OwnArguments
    <3> QED
      BY <2>1, <2>11, <3>1 DEF OwnArguments, Exact, Reply, stream
  <2> QED
    BY <2>6, <2>7, <2>8, <2>9, <2>10, <2>12, <2>13, <2>14, <2>15 DEF TurnInv
<1> QED
  BY <1>1, <1>2

LEMMA MessageStopsKeeps ==
  ASSUME TurnInv, MessageStops
  PROVE  TurnInv'
<1>1. /\ at = "read" /\ channel # <<>> /\ Head(channel).type = "message_stop"
      /\ channel' = Tail(channel) /\ answer' = Answer(parser.blocks, parser.stop)
      /\ UNCHANGED <<stream, cancelled, at, attempt, pending, tool, eager, inline, err, heard, recorded>>
  BY DEF MessageStops, At, Receives
<1>2. Head(channel).type \in Final /\ Head(channel).type \notin {"tool_use_start", "input_delta"}
  BY <1>1 DEF Final
<1>3. Going(setup.format, Reply, parser, wire, channel, pending, eager, tool)
  BY <1>1, Hears
<1>4. Going(setup.format, Reply, parser, wire, Tail(channel), pending, eager, tool)
  BY <1>1, <1>2, <1>3, GoingOther
<1>5. Tail(channel) = <<>> /\ Shut(parser)
  BY <1>1, <1>2, <1>3, LastEvent
<1>6. ParserOK(parser) /\ IsSequence(channel) /\ Streaming(setup.format, Reply, parser, wire, channel, pending, eager, tool)
  BY <1>3 DEF Going
<1>7. answer'.blocks = parser.blocks /\ answer' # NoAnswer
  <2>1. parser.stop # "none"
    BY <1>6 DEF ParserOK, Reasons
  <2> QED
    BY <1>1, <2>1 DEF Answer, NoAnswer
<1>8. PICK blocks : blocks = parser.blocks
  OBVIOUS
<1>9. TheCalls' = Calls(blocks)
  BY <1>7, <1>8 DEF TheCalls
<1>10. recorded = <<>> /\ recorded' = recorded
  BY <1>1 DEF TurnInv, Kept
<1>11. setup.format # "openai" => BlocksOK(blocks) /\ EagerOK(blocks, eager, tool)
  BY <1>6, <1>8 DEF Streaming, Feed
<1>12. TypeOK'
  <2>1. IsSequence(channel') /\ \A x \in DOMAIN channel' : IsEvent(channel'[x])
    BY <1>1, <1>4 DEF Going
  <2> QED
    BY <1>1, <2>1 DEF TurnInv, TypeOK, stream
<1>13. StreamInv'
  <2>1. parser'.closed
    BY <1>1, <1>5 DEF stream, Shut
  <2> QED
    BY <1>1, <1>4, <1>5, <1>7, <2>1, Hears DEF StreamInv, Reply, stream
<1>14. AtRest' /\ Awaited' /\ Early'
  BY <1>1, AwaitedSame DEF TurnInv, AtRest, Early, stream
<1>15. Matched'
  <2>1. ASSUME eager # NoCalls
        PROVE  /\ IsSequence(Calls(blocks))
               /\ \A i, j \in DOMAIN Calls(blocks) : Calls(blocks)[i].id = Calls(blocks)[j].id => i = j
               /\ \A i \in DOMAIN Calls(blocks) : Calls(blocks)[i].id \in DOMAIN eager =>
                    tool[eager[Calls(blocks)[i].id]].call = Calls(blocks)[i]
               /\ \A d \in DOMAIN eager : \E i \in DOMAIN Calls(blocks) : Calls(blocks)[i].id = d
    <3>1. IsSequence(blocks) /\ Apart(blocks) /\ EagerOK(blocks, eager, tool)
      BY <1>11, <2>1 DEF TurnInv, Early, BlocksOK
    <3>2. PICK c : c = Calls(blocks)
      OBVIOUS
    <3>3. /\ IsSequence(c)
          /\ \A i \in DOMAIN c : \E q \in DOMAIN blocks : IsCall(blocks[q]) /\ c[i] = blocks[q]
          /\ \A q \in DOMAIN blocks : IsCall(blocks[q]) => \E i \in DOMAIN c : c[i] = blocks[q]
          /\ \A i, j \in DOMAIN c : c[i].id = c[j].id => i = j
      BY <3>1, <3>2, CallsFacts
    <3>4. ASSUME NEW i \in DOMAIN c, c[i].id \in DOMAIN eager PROVE tool[eager[c[i].id]].call = c[i]
      BY <3>1, <3>3, <3>4 DEF EagerOK, Apart
    <3>5. ASSUME NEW d \in DOMAIN eager PROVE \E i \in DOMAIN c : c[i].id = d
      BY <3>1, <3>3 DEF EagerOK
    <3> QED
      BY <3>2, <3>3, <3>4, <3>5
  <2> QED
    BY <1>1, <1>9, <2>1 DEF Matched
<1>16. Kept' /\ AllKnown'
  BY <1>1, <1>10, NoBlocks DEF TurnInv, Kept, AllKnown
<1>17. OwnArguments'
  <2>1. ASSUME Exact
        PROVE  IsSequence(Calls(blocks)) /\ \A i \in DOMAIN Calls(blocks) : Calls(blocks)[i] \in Range(Reply)
    <3>1. setup.format # "openai" /\ setup.format \in {"anthropic", "gemini"}
      BY <2>1 DEF Exact
    <3>2. WholeBut(blocks, Reply, 0)
      <4>1. 1 \in DOMAIN channel /\ channel[1].type = "message_stop" /\ parser.closed
        BY <1>1, <1>5, <1>6, TailOf DEF Shut
      <4> QED
        BY <1>6, <1>8, <3>1, <4>1 DEF Streaming
    <3>3. IsSequence(blocks) /\ DOMAIN blocks = 1..Len(blocks)
      BY <1>11, <3>1 DEF BlocksOK, IsSequence
    <3> QED
      BY <3>2, <3>3, CallsFacts DEF WholeBut
  <2> QED
    BY <1>1, <1>9, <2>1 DEF TurnInv, OwnArguments, Exact, Reply, stream
<1> QED
  BY <1>12, <1>13, <1>14, <1>15, <1>16, <1>17 DEF TurnInv

LEMMA StreamFailsKeeps ==
  ASSUME TurnInv, StreamFails
  PROVE  TurnInv'
<1>1. /\ at = "read" /\ inline = 0 /\ channel # <<>> /\ Head(channel).type = "error"
      /\ channel' = Tail(channel) /\ err' = Head(channel).name /\ at' = "drain"
      /\ UNCHANGED <<stream, cancelled, attempt, pending, tool, eager, inline, answer, heard, recorded>>
  BY DEF StreamFails, At, Receives, Ev
<1>2. Tail(channel) = <<>> /\ Shut(parser) /\ IsFinal(Head(channel))
  <2>1. Head(channel).type \in Final
    BY <1>1 DEF Final
  <2> QED
    BY <1>1, <2>1, Hears, LastEvent
<1>3. err' \in {"transient", "permanent"} /\ parser.closed
  BY <1>1, <1>2 DEF IsFinal, Kinds, Shut
<1>4. IsSequence(TheCalls') /\ DOMAIN TheCalls' = {}
  <2>1. answer = NoAnswer /\ TheCalls' = TheCalls
    BY <1>1, Hears DEF TheCalls
  <2> QED
    BY <2>1, NoAnswerYet
<1>5. recorded = <<>> /\ recorded' = recorded
  BY <1>1 DEF TurnInv, Kept
<1>6. TypeOK'
  BY <1>1, <1>2, <1>3, NoBlocks DEF TurnInv, TypeOK, stream
<1>7. StreamInv' /\ AtRest'
  BY <1>1, <1>2, <1>3 DEF StreamInv, AtRest, stream
<1>8. Awaited'
  BY <1>1 DEF TurnInv, Awaited, Running
<1>9. Early'
  BY <1>1 DEF TurnInv, Early, stream
<1>10. Matched'
  BY <1>1, <1>3, <1>4 DEF Matched
<1>11. Kept' /\ AllKnown'
  BY <1>1, <1>5, NoBlocks DEF TurnInv, Kept, AllKnown
<1>12. OwnArguments'
  BY <1>1, <1>4 DEF TurnInv, OwnArguments, Exact, Reply, stream
<1> QED
  BY <1>6, <1>7, <1>8, <1>9, <1>10, <1>11, <1>12 DEF TurnInv

LEMMA StreamEndsKeeps ==
  ASSUME TurnInv, StreamEnds
  PROVE  TurnInv'
<1>1. /\ at = "read" /\ inline = 0 /\ channel = <<>> /\ parser.closed /\ at' = "drain"
      /\ answer' = IF answer = NoAnswer /\ heard THEN Answer(<<TextBlock(1)>>, "end") ELSE answer
      /\ err' = IF answer = NoAnswer /\ ~heard THEN "permanent" ELSE "none"
      /\ UNCHANGED <<stream, channel, cancelled, attempt, pending, tool, eager, inline, heard, recorded>>
  BY DEF StreamEnds
<1>2. err' \in {"none", "permanent"} /\ err = "none"
  BY <1>1 DEF TurnInv, StreamInv
<1>3. recorded = <<>> /\ recorded' = recorded
  BY <1>1 DEF TurnInv, Kept
<1>4. answer = NoAnswer => cancelled
  BY <1>1, NoBlocks DEF TurnInv, StreamInv
<1>5. TypeOK'
  BY <1>1, <1>2 DEF TurnInv, TypeOK, stream
<1>6. StreamInv' /\ AtRest'
  BY <1>1 DEF StreamInv, AtRest, stream
<1>7. Awaited'
  BY <1>1 DEF TurnInv, Awaited, Running
<1>8. Early'
  BY <1>1 DEF TurnInv, Early, stream
<1>9. Kept' /\ AllKnown'
  BY <1>1, <1>3, NoBlocks DEF TurnInv, Kept, AllKnown
<1>10. Matched' /\ OwnArguments'
  <2>1. CASE answer = NoAnswer
    <3>1. IsSequence(TheCalls') /\ DOMAIN TheCalls' = {}
      <4>1. CASE heard
        <5>1. answer' = Answer(<<TextBlock(1)>>, "end")
          BY <1>1, <2>1, <4>1
        <5>2. answer'.blocks = <<TextBlock(1)>>
          BY <5>1 DEF Answer
        <5>3. PICK blocks : blocks = <<TextBlock(1)>>
          OBVIOUS
        <5>4. ~IsCall(TextBlock(1))
          BY DEF TextBlock, Text, IsCall
        <5>5. IsSequence(blocks) /\ \A q \in DOMAIN blocks : ~IsCall(blocks[q])
          BY <5>3, <5>4, Single
        <5>6. IsSequence(Calls(blocks)) /\ DOMAIN Calls(blocks) = {}
          BY <5>5, NoCallsOf
        <5> QED
          BY <5>2, <5>3, <5>6 DEF TheCalls
      <4>2. CASE ~heard
        <5>1. TheCalls' = TheCalls
          BY <1>1, <4>2 DEF TheCalls
        <5> QED
          BY <2>1, <5>1, NoAnswerYet
      <4> QED
        BY <4>1, <4>2
    <3>2. cancelled'
      BY <1>1, <1>4, <2>1
    <3>3. Matched'
      BY <3>1, <3>2 DEF Matched
    <3>4. OwnArguments'
      BY <1>1, <3>1 DEF TurnInv, OwnArguments, Exact, Reply, stream
    <3> QED
      BY <3>3, <3>4
  <2>2. CASE answer # NoAnswer
    <3>1. TheCalls' = TheCalls /\ answer' = answer /\ err' = "none"
      BY <1>1, <2>2 DEF TheCalls
    <3>2. Matched'
      BY <1>1, <1>2, <2>2, <3>1 DEF TurnInv, Matched
    <3>3. OwnArguments'
      BY <1>1, <3>1 DEF TurnInv, OwnArguments, Exact, Reply, stream
    <3> QED
      BY <3>2, <3>3
  <2> QED
    BY <2>1, <2>2
<1> QED
  BY <1>5, <1>6, <1>7, <1>8, <1>9, <1>10 DEF TurnInv

LEMMA AnsweredKeeps ==
  ASSUME TurnInv, Answered
  PROVE  TurnInv'
<1>1. /\ at = "drain" /\ Drained
      /\ at' = IF err = "transient" /\ attempt < MaxAttempts THEN "backoff"
               ELSE IF err # "none" THEN "failed"
               ELSE IF answer.stop = "length" \/ TheCalls = <<>> THEN "ended"
               ELSE IF eager # NoCalls THEN "finish"
               ELSE IF Len(TheCalls) > 1 THEN "spawn"
               ELSE "sequence"
      /\ UNCHANGED <<stream, channel, cancelled, attempt, pending, tool, eager, inline, answer, err, heard, recorded>>
  BY DEF Answered, TheCalls
<1>2. /\ at' \in {"backoff", "failed", "ended", "finish", "spawn", "sequence"}
      /\ at' \in {"ended", "finish", "spawn", "sequence"} => err = "none"
      /\ at' = "ended" => answer.stop = "length" \/ TheCalls = <<>>
      /\ at' \in {"spawn", "sequence"} => eager = NoCalls
  BY <1>1
<1>3. TheCalls' = TheCalls /\ Reply' = Reply /\ (Exact' <=> Exact)
  BY <1>1 DEF TheCalls, Reply, Exact, stream
<1>4. recorded = <<>> /\ recorded' = recorded
  BY <1>1 DEF TurnInv, Kept
<1>5. \A k \in DOMAIN tool : ~Running(k) /\ ~Running(k)'
  BY <1>1 DEF TurnInv, Awaited, Drained, Running
<1>6. TypeOK'
  BY <1>1, <1>2 DEF TurnInv, TypeOK, stream
<1>7. StreamInv' /\ AtRest'
  BY <1>1, <1>2 DEF TurnInv, StreamInv, AtRest, stream
<1>8. Awaited'
  BY <1>1, <1>2, <1>5 DEF TurnInv, Awaited
<1>9. Early'
  BY <1>1, <1>2 DEF TurnInv, Early, stream
<1>10. Matched'
  BY <1>1, <1>2, <1>3 DEF TurnInv, Matched
<1>11. Kept'
  BY <1>1, <1>2, <1>3, <1>4, NoBlocks DEF Kept
<1>12. AllKnown'
  BY <1>1, <1>2 DEF TurnInv, AllKnown
<1>13. OwnArguments'
  BY <1>1, <1>2, <1>3 DEF TurnInv, OwnArguments
<1> QED
  BY <1>6, <1>7, <1>8, <1>9, <1>10, <1>11, <1>12, <1>13 DEF TurnInv

-----------------------------------------------------------------------------
\* StreamComplete.

LEMMA AskKeeps ==
  ASSUME IdsDiffer, TurnInv, Ask
  PROVE  TurnInv'
<1>1. /\ at = "ask" /\ setup.streaming /\ at' = "read"
      /\ wire' = Frames(setup.format, setup.reply) /\ parser' = NoParse
      /\ pending' = NoCalls /\ eager' = NoCalls /\ answer' = NoAnswer /\ err' = "none" /\ heard' = FALSE
      /\ UNCHANGED <<setup, channel, cancelled, attempt, tool, inline, recorded>>
  BY DEF Ask
<1>2. channel = <<>> /\ recorded = <<>> /\ (\A k \in DOMAIN tool : ~Running(k)) /\ inline = 0
  BY <1>1 DEF TurnInv, AtRest, Kept, Awaited
<1>3. /\ setup \in Setups /\ setup.format \in Formats /\ IsReply(setup.reply)
  BY SetupFacts DEF TurnInv
<1>4. \A i, j \in DOMAIN setup.reply.blocks :
        IsCall(setup.reply.blocks[i]) /\ IsCall(setup.reply.blocks[j])
        /\ setup.reply.blocks[i].id = setup.reply.blocks[j].id => i = j
  BY <1>3 DEF IdsDiffer
<1>5. Going(setup.format, Reply, parser', wire', channel, NoCalls, NoCalls, tool) /\ ~parser'.closed
  <2>1. PICK w, p : w = Frames(setup.format, setup.reply) /\ p = NoParse
    OBVIOUS
  <2>2. Going(setup.format, setup.reply.blocks, p, w, channel, NoCalls, NoCalls, tool) /\ ~p.closed
    BY <1>2, <1>3, <1>4, <2>1, Asked
  <2> QED
    BY <1>1, <2>1, <2>2 DEF Reply
<1>6. IsSequence(TheCalls') /\ DOMAIN TheCalls' = {}
  <2>1. answer'.blocks = <<>>
    BY <1>1 DEF NoAnswer, Answer
  <2>2. PICK blocks : blocks = answer'.blocks
    OBVIOUS
  <2>3. IsSequence(blocks) /\ \A q \in DOMAIN blocks : ~IsCall(blocks[q])
    BY <2>1, <2>2, NoBlocks
  <2>4. IsSequence(Calls(blocks)) /\ DOMAIN Calls(blocks) = {}
    BY <2>3, NoCallsOf
  <2> QED
    BY <2>2, <2>4 DEF TheCalls
<1>7. DOMAIN eager' = {}
  BY <1>1, NoBlocks
<1>8. TypeOK'
  <2>1. IsSequence(wire') /\ parser'.closed \in BOOLEAN
    BY <1>5 DEF Going, ParserOK
  <2>2. eager' \in [DOMAIN eager' -> DOMAIN tool']
    BY <1>1, <1>7 DEF NoCalls
  <2> QED
    BY <1>1, <2>1, <2>2 DEF TurnInv, TypeOK
<1>9. StreamInv'
  BY <1>1, <1>5 DEF StreamInv, Reply
<1>10. AtRest' /\ Early' /\ Matched'
  BY <1>1, <1>7 DEF AtRest, Early, Matched
<1>11. Awaited'
  BY <1>1, <1>2 DEF Awaited, Running
<1>12. Kept'
  BY <1>1, <1>2, NoBlocks DEF Kept
<1>13. AllKnown'
  <2>1. attempt = 1 => DOMAIN tool = {}
    BY <1>1, NoBlocks DEF TurnInv, AllKnown
  <2> QED
    BY <1>1, <2>1 DEF AllKnown
<1>14. OwnArguments'
  BY <1>1, <1>6 DEF TurnInv, OwnArguments, Exact, Reply
<1> QED
  BY <1>8, <1>9, <1>10, <1>11, <1>12, <1>13, <1>14 DEF TurnInv

\* The answer that comes whole, from the servers that keep the blocks as they are.
LEMMA WholeCalls ==
  ASSUME NEW format, format \in {"anthropic", "gemini"}, NEW reply, IsReply(reply)
  PROVE  /\ IsSequence(Calls(Whole(format, reply).blocks))
         /\ \A i \in DOMAIN Calls(Whole(format, reply).blocks) :
              Calls(Whole(format, reply).blocks)[i] \in Range(reply.blocks)
<1>1. PICK B : B = reply.blocks
  OBVIOUS
<1>2. PICK W : W = [i \in DOMAIN B |-> WithText(B[i])]
  OBVIOUS
<1>3. Whole(format, reply).blocks = W
  BY <1>1, <1>2 DEF Whole, WholeAnthropic, WholeGemini, Answer
<1>4. IsSequence(B) /\ \A i \in DOMAIN B : IsBlock(B[i])
  BY <1>1 DEF IsReply
<1>5. IsSequence(W) /\ DOMAIN W = DOMAIN B
  <2>1. DOMAIN W = DOMAIN B /\ DOMAIN B = 1..Len(B) /\ Len(B) \in Nat
    BY <1>2, <1>4 DEF IsSequence
  <2>2. \A i \in 1..Len(B) : W[i] \in Range(W)
    BY <2>1 DEF Range
  <2> QED
    BY <1>2, <2>1, <2>2 DEF IsSequence
<1>6. ASSUME NEW q \in DOMAIN W, IsCall(W[q]) PROVE W[q] = B[q] /\ q \in DOMAIN B
  <2>1. W[q] = WithText(B[q]) /\ q \in DOMAIN B
    BY <1>2
  <2>2. IsCall(B[q])
    <3>1. CASE ~IsCall(B[q])
      <4>1. W[q].kind = B[q].kind
        BY <1>4, <2>1, <3>1 DEF WithText, IsBlock
      <4> QED
        BY <1>6, <3>1, <4>1 DEF IsCall
    <3> QED
      BY <3>1
  <2> QED
    BY <2>1, <2>2 DEF WithText
<1>7. \A q \in DOMAIN W : IsCall(W[q]) => W[q] \in Range(B)
  BY <1>6 DEF Range
<1>8. IsSequence(Calls(W)) /\ \A i \in DOMAIN Calls(W) : Calls(W)[i] \in Range(B)
  BY <1>5, <1>7, CallsFacts
<1> QED
  BY <1>1, <1>3, <1>8

LEMMA CompleteKeeps ==
  ASSUME TurnInv, Complete
  PROVE  TurnInv'
<1>1. /\ at = "ask" /\ ~setup.streaming /\ at' = "drain"
      /\ answer' = Whole(setup.format, setup.reply)
      /\ UNCHANGED <<stream, channel, cancelled, attempt, pending, tool, eager, inline, err, heard, recorded>>
  BY DEF Complete
<1>2. /\ recorded = <<>> /\ (\A k \in DOMAIN tool : ~Running(k)) /\ inline = 0 /\ eager = NoCalls
  BY <1>1 DEF TurnInv, Kept, Awaited, Early
<1>3. TypeOK'
  BY <1>1 DEF TurnInv, TypeOK, stream
<1>4. StreamInv' /\ AtRest' /\ Early' /\ Matched'
  BY <1>1, <1>2 DEF TurnInv, StreamInv, AtRest, Early, Matched, stream
<1>5. Awaited'
  BY <1>1, <1>2 DEF Awaited, Running
<1>6. Kept'
  BY <1>1, <1>2, NoBlocks DEF Kept
<1>7. AllKnown'
  BY <1>1 DEF TurnInv, AllKnown
<1>8. OwnArguments'
  <2>1. ASSUME Exact PROVE IsSequence(TheCalls') /\ \A i \in DOMAIN TheCalls' : TheCalls'[i] \in Range(Reply)
    <3>1. setup.format \in {"anthropic", "gemini"} /\ IsReply(setup.reply)
      BY <2>1, SetupFacts DEF Exact, TurnInv
    <3>2. PICK W : W = Whole(setup.format, setup.reply).blocks
      OBVIOUS
    <3>3. IsSequence(Calls(W)) /\ \A i \in DOMAIN Calls(W) : Calls(W)[i] \in Range(setup.reply.blocks)
      BY <3>1, <3>2, WholeCalls
    <3>4. TheCalls' = Calls(W)
      BY <1>1, <3>2 DEF TheCalls
    <3> QED
      BY <3>3, <3>4 DEF Reply
  <2> QED
    BY <1>1, <2>1 DEF TurnInv, OwnArguments, Exact, Reply, stream
<1> QED
  BY <1>3, <1>4, <1>5, <1>6, <1>7, <1>8 DEF TurnInv

LEMMA AskFailsKeeps ==
  ASSUME TurnInv, NEW cause \in Causes, AskFails(cause)
  PROVE  TurnInv'
<1>1. /\ at = "ask" /\ err' = Refusal(setup.format, cause)
      /\ at' = IF err' = "transient" /\ attempt < MaxAttempts THEN "backoff" ELSE "failed"
      /\ UNCHANGED <<stream, channel, cancelled, attempt, pending, tool, eager, inline, answer, heard, recorded>>
  BY DEF AskFails
<1>2. err' \in {"transient", "permanent"}
  <2>1. setup.format \in Formats
    BY SetupFacts DEF TurnInv
  <2> QED
    BY <1>1, <2>1 DEF Refusal, Formats, RefusalAnthropic, RefusalOpenAI, RefusalGemini, RefusalResponses, Unless
<1>3. at' \in {"backoff", "failed"} /\ (at' = "backoff" => attempt < MaxAttempts)
  BY <1>1
<1>4. recorded = <<>> /\ (\A k \in DOMAIN tool : ~Running(k)) /\ inline = 0
  BY <1>1 DEF TurnInv, Kept, Awaited
<1>5. TypeOK'
  BY <1>1, <1>2, <1>3 DEF TurnInv, TypeOK, stream
<1>6. StreamInv' /\ AtRest' /\ Early' /\ Matched'
  BY <1>1, <1>3 DEF TurnInv, StreamInv, AtRest, Early, Matched, stream
<1>7. Awaited'
  BY <1>1, <1>3, <1>4 DEF Awaited, Running
<1>8. Kept'
  BY <1>1, <1>3, <1>4, NoBlocks DEF Kept
<1>9. AllKnown' /\ OwnArguments'
  BY <1>1, <1>3 DEF TurnInv, AllKnown, OwnArguments, Exact, Reply, stream
<1> QED
  BY <1>5, <1>6, <1>7, <1>8, <1>9 DEF TurnInv

LEMMA BackoffKeeps ==
  ASSUME TurnInv, Backoff
  PROVE  TurnInv'
<1>1. /\ at = "backoff"
      /\ UNCHANGED <<stream, channel, cancelled, pending, tool, eager, inline, answer, heard, recorded>>
      /\ \/ at' = "ask" /\ attempt' = attempt + 1 /\ err' = err
         \/ at' = "failed" /\ err' = "permanent" /\ attempt' = attempt
  BY DEF Backoff
<1>2. attempt \in 1..MaxAttempts /\ attempt < MaxAttempts /\ MaxAttempts \in Nat
  BY <1>1, TurnAssumption DEF TurnInv, TypeOK, AtRest
<1>3. attempt' \in 1..MaxAttempts /\ (at' = "ask" => attempt' # 1) /\ at' \in {"ask", "failed"}
  BY <1>1, <1>2
<1>4. recorded = <<>> /\ (\A k \in DOMAIN tool : ~Running(k)) /\ inline = 0
  BY <1>1 DEF TurnInv, Kept, Awaited
<1>5. TypeOK'
  BY <1>1, <1>3 DEF TurnInv, TypeOK, stream
<1>6. StreamInv' /\ AtRest' /\ Early' /\ Matched'
  BY <1>1, <1>3 DEF TurnInv, StreamInv, AtRest, Early, Matched, stream
<1>7. Awaited'
  BY <1>1, <1>3, <1>4 DEF Awaited, Running
<1>8. Kept'
  BY <1>1, <1>3, <1>4, NoBlocks DEF Kept
<1>9. AllKnown'
  BY <1>1, <1>3 DEF TurnInv, AllKnown
<1>10. OwnArguments'
  BY <1>1, <1>3 DEF TurnInv, OwnArguments, Exact, Reply, stream
<1> QED
  BY <1>5, <1>6, <1>7, <1>8, <1>9, <1>10 DEF TurnInv

-----------------------------------------------------------------------------
\* The tools of the answer.

\* One more result is recorded.
LEMMA Recorded ==
  ASSUME TypeOK, NEW k, recorded' = Append(recorded, k)
  PROVE  LET n == Len(recorded) + 1 IN
         /\ Len(recorded) \in Nat /\ DOMAIN recorded = 1..Len(recorded)
         /\ DOMAIN recorded' = DOMAIN recorded \cup {n} /\ n \notin DOMAIN recorded
         /\ recorded'[n] = k /\ \A i \in DOMAIN recorded : recorded'[i] = recorded[i] /\ recorded[i] \in DOMAIN tool
         /\ \A T : k \in T /\ DOMAIN tool \subseteq T => recorded' \in Seq(T)
<1>1. recorded \in Seq(DOMAIN tool)
  BY DEF TypeOK
<1>2. PICK more : more = Append(recorded, k)
  OBVIOUS
<1>3. /\ Len(recorded) \in Nat /\ DOMAIN recorded = 1..Len(recorded)
      /\ DOMAIN more = 1..(Len(recorded) + 1) /\ more[Len(recorded) + 1] = k
      /\ \A i \in 1..Len(recorded) : more[i] = recorded[i] /\ recorded[i] \in DOMAIN tool
  BY <1>1, <1>2
<1>4. ASSUME NEW T, k \in T, DOMAIN tool \subseteq T PROVE more \in Seq(T)
  <2>1. recorded \in Seq(T)
    BY <1>1, <1>4, SeqMonotonic
  <2> QED
    BY <1>2, <1>4, <2>1
<1> QED
  BY <1>2, <1>3, <1>4

LEMMA RecordsEarly ==
  ASSUME TurnInv, at = "finish", Unrecorded, NextCall.id \in DOMAIN eager,
         NEW k, k = eager[NextCall.id], recorded' = Append(recorded, k),
         UNCHANGED <<tool, inline, eager>>, RestUnchanged
  PROVE  TurnInv'
<1> DEFINE n == Len(recorded) + 1
<1>1. UNCHANGED <<stream, channel, cancelled, at, attempt, pending, tool, inline, eager, answer, err, heard>>
  BY DEF RestUnchanged
<1>2. TheCalls' = TheCalls /\ Reply' = Reply /\ (Exact' <=> Exact)
  BY <1>1 DEF TheCalls, Reply, Exact, stream
<1>3. eager # NoCalls /\ k \in DOMAIN tool
  <2>1. DOMAIN eager # {}
    OBVIOUS
  <2> QED
    BY <2>1, NoBlocks DEF TurnInv, TypeOK
<1>4. /\ Len(recorded) \in Nat /\ DOMAIN recorded = 1..Len(recorded)
      /\ DOMAIN recorded' = DOMAIN recorded \cup {n} /\ n \notin DOMAIN recorded
      /\ recorded'[n] = k /\ \A i \in DOMAIN recorded : recorded'[i] = recorded[i] /\ recorded[i] \in DOMAIN tool
      /\ recorded' \in Seq(DOMAIN tool)
  BY <1>3, Recorded DEF TurnInv
<1>5. /\ IsSequence(TheCalls)
      /\ \A i, j \in DOMAIN TheCalls : TheCalls[i].id = TheCalls[j].id => i = j
      /\ \A i \in DOMAIN TheCalls : TheCalls[i].id \in DOMAIN eager => tool[eager[TheCalls[i].id]].call = TheCalls[i]
  BY <1>3 DEF TurnInv, Matched
<1>6. n \in DOMAIN TheCalls /\ (\A i \in DOMAIN recorded : i \in DOMAIN TheCalls) /\ NextCall = TheCalls[n]
  <2>1. Len(recorded) < Len(TheCalls)
    BY DEF Unrecorded
  <2>2. DOMAIN TheCalls = 1..Len(TheCalls) /\ Len(TheCalls) \in Nat
    BY <1>5 DEF IsSequence
  <2>3. NextCall = TheCalls[n]
    BY DEF NextCall
  <2> QED
    BY <1>4, <2>1, <2>2, <2>3
<1> HIDE DEF n
<1>7. TypeOK'
  BY <1>1, <1>4 DEF TurnInv, TypeOK, stream
<1>8. StreamInv' /\ AtRest' /\ Early'
  BY <1>1 DEF TurnInv, StreamInv, AtRest, Early, stream
<1>9. Awaited'
  BY <1>1, AwaitedSame DEF TurnInv
<1>10. Matched'
  BY <1>1, <1>2 DEF TurnInv, Matched
<1>11. \A i \in DOMAIN recorded :
         /\ tool[recorded[i]].call = TheCalls[i]
         /\ TheCalls[i].id \in DOMAIN eager => recorded[i] = eager[TheCalls[i].id]
         /\ TheCalls[i].id \notin DOMAIN eager => \A d \in DOMAIN eager : eager[d] # recorded[i]
         /\ \A j \in DOMAIN recorded : recorded[i] = recorded[j] => i = j
  BY DEF TurnInv, Kept
<1>12. \A i \in DOMAIN recorded : recorded[i] # k
  <2>1. ASSUME NEW i \in DOMAIN recorded, recorded[i] = k PROVE FALSE
    <3>1. CASE TheCalls[i].id \in DOMAIN eager
      <4>1. eager[TheCalls[i].id] = eager[TheCalls[n].id]
        BY <1>6, <1>11, <2>1, <3>1
      <4>2. TheCalls[i].id = TheCalls[n].id
        BY <1>6, <3>1, <4>1 DEF TurnInv, Early
      <4> QED
        BY <1>4, <1>5, <1>6, <4>2
    <3>2. CASE TheCalls[i].id \notin DOMAIN eager
      BY <1>6, <1>11, <2>1, <3>2
    <3> QED
      BY <3>1, <3>2
  <2> QED
    BY <2>1
<1>13. tool[k].call = TheCalls[n] /\ TheCalls[n].id \in DOMAIN eager /\ k = eager[TheCalls[n].id]
  BY <1>5, <1>6
<1>14. \A i \in DOMAIN recorded' :
         /\ tool[recorded'[i]].call = TheCalls[i]
         /\ TheCalls[i].id \in DOMAIN eager => recorded'[i] = eager[TheCalls[i].id]
         /\ TheCalls[i].id \notin DOMAIN eager => \A d \in DOMAIN eager : eager[d] # recorded'[i]
         /\ \A j \in DOMAIN recorded' : recorded'[i] = recorded'[j] => i = j
  BY <1>4, <1>11, <1>12, <1>13
<1>15. Kept'
  BY <1>1, <1>2, <1>14 DEF TurnInv, Kept
<1>16. AllKnown'
  BY <1>1, <1>4 DEF TurnInv, AllKnown
<1>17. OwnArguments'
  BY <1>1, <1>2 DEF TurnInv, OwnArguments
<1> QED
  BY <1>7, <1>8, <1>9, <1>10, <1>15, <1>16, <1>17 DEF TurnInv

LEMMA RecordsNew ==
  ASSUME TurnInv, at \in {"finish", "sequence", "spawn"}, inline = 0, Unrecorded,
         NextCall.id \notin DOMAIN eager, NEW alone, Start(NextCall, alone),
         at # "spawn" => Start(NextCall, TRUE),
         NEW k, k = Len(tool) + 1, recorded' = Append(recorded, k),
         UNCHANGED eager, RestUnchanged
  PROVE  TurnInv'
<1> DEFINE n == Len(recorded) + 1
<1>1. UNCHANGED <<stream, channel, cancelled, at, attempt, pending, eager, answer, err, heard>>
  BY DEF RestUnchanged
<1>2. TheCalls' = TheCalls /\ Reply' = Reply /\ (Exact' <=> Exact) /\ NextCall = TheCalls[n]
  BY <1>1 DEF TheCalls, Reply, Exact, stream, NextCall
<1>3. /\ NewTool(tool, tool', NextCall) /\ ToolsOK(tool') /\ (inline' = inline \/ inline' = k)
      /\ at # "spawn" => tool'[k].state = "done" \/ inline' = k
  BY StartsTool, StartsAlone, TypeTools DEF TurnInv
<1>4. /\ DOMAIN tool' = DOMAIN tool \cup {k} /\ k \notin DOMAIN tool /\ k \in Nat /\ Len(tool') = k
      /\ \A j \in DOMAIN tool : tool'[j] = tool[j]
      /\ tool'[k].call = TheCalls[n]
  BY <1>2, <1>3 DEF NewTool
<1>5. /\ Len(recorded) \in Nat /\ DOMAIN recorded = 1..Len(recorded)
      /\ DOMAIN recorded' = DOMAIN recorded \cup {n} /\ n \notin DOMAIN recorded
      /\ recorded'[n] = k /\ \A i \in DOMAIN recorded : recorded'[i] = recorded[i] /\ recorded[i] \in DOMAIN tool
      /\ recorded' \in Seq(DOMAIN tool')
  BY <1>4, Recorded DEF TurnInv
<1>6. \A d \in DOMAIN eager : eager[d] \in DOMAIN tool
  BY DEF TurnInv, TypeOK
<1>7. Len(recorded) < Len(TheCalls)
  BY DEF Unrecorded
<1> HIDE DEF n
<1>8. TypeOK'
  <2>1. inline' \in 0..Len(tool')
    BY <1>3, <1>4
  <2>2. eager' \in [DOMAIN eager' -> DOMAIN tool']
    BY <1>1, <1>4, <1>6 DEF TurnInv, TypeOK
  <2> QED
    BY <1>1, <1>3, <1>5, <2>1, <2>2 DEF TurnInv, TypeOK, stream, ToolsOK, States
<1>9. StreamInv' /\ AtRest' /\ Early'
  BY <1>1 DEF TurnInv, StreamInv, AtRest, Early, stream
<1>10. Awaited'
  <2>1. ASSUME at \in {"finish", "sequence"}, NEW j \in DOMAIN tool', Running(j)' PROVE j = inline'
    <3>1. CASE j = k
      BY <1>3, <2>1, <3>1 DEF Running
    <3>2. CASE j # k
      <4>1. j \in DOMAIN tool /\ Running(j)
        BY <1>4, <2>1, <3>2 DEF Running
      <4>2. j = 0
        BY <2>1, <4>1 DEF TurnInv, Awaited
      <4>3. DOMAIN tool = 1..Len(tool)
        BY <1>3 DEF NewTool
      <4> QED
        BY <4>1, <4>2, <4>3
    <3> QED
      BY <3>1, <3>2
  <2> QED
    BY <1>1, <2>1 DEF Awaited
<1>11. Matched'
  BY <1>1, <1>2, <1>4, <1>6 DEF TurnInv, Matched
<1>12. \A i \in DOMAIN recorded :
         /\ tool[recorded[i]].call = TheCalls[i]
         /\ TheCalls[i].id \in DOMAIN eager => recorded[i] = eager[TheCalls[i].id]
         /\ TheCalls[i].id \notin DOMAIN eager => \A d \in DOMAIN eager : eager[d] # recorded[i]
         /\ \A j \in DOMAIN recorded : recorded[i] = recorded[j] => i = j
  BY DEF TurnInv, Kept
<1>13. TheCalls[n].id \notin DOMAIN eager /\ \A d \in DOMAIN eager : eager[d] # k
  BY <1>2, <1>4, <1>6
<1>14. \A i \in DOMAIN recorded' :
         /\ tool'[recorded'[i]].call = TheCalls[i]
         /\ TheCalls[i].id \in DOMAIN eager => recorded'[i] = eager[TheCalls[i].id]
         /\ TheCalls[i].id \notin DOMAIN eager => \A d \in DOMAIN eager : eager[d] # recorded'[i]
         /\ \A j \in DOMAIN recorded' : recorded'[i] = recorded'[j] => i = j
  BY <1>4, <1>5, <1>12, <1>13
<1>15. Kept'
  <2>1. at' \notin {"ask", "backoff", "read", "drain", "ended"} /\ err' = "none"
    BY <1>1 DEF TurnInv, Kept
  <2> QED
    BY <1>1, <1>2, <1>14, <2>1 DEF Kept
<1>16. AllKnown'
  <2>1. ASSUME attempt = 1, NEW j \in DOMAIN tool'
        PROVE  (\E d \in DOMAIN eager : eager[d] = j) \/ (\E i \in DOMAIN recorded' : recorded'[i] = j)
    <3>1. CASE j = k
      BY <1>5, <3>1
    <3>2. CASE j # k
      BY <1>4, <1>5, <2>1, <3>2 DEF TurnInv, AllKnown
    <3> QED
      BY <3>1, <3>2
  <2> QED
    BY <1>1, <2>1 DEF AllKnown
<1>17. OwnArguments'
  <2>1. ASSUME Exact
        PROVE  /\ \A j \in DOMAIN tool' : tool'[j].call \in Range(Reply)
               /\ IsSequence(TheCalls) /\ \A i \in DOMAIN TheCalls : TheCalls[i] \in Range(Reply)
    <3>1. /\ \A j \in DOMAIN tool : tool[j].call \in Range(Reply)
          /\ IsSequence(TheCalls) /\ \A i \in DOMAIN TheCalls : TheCalls[i] \in Range(Reply)
      BY <2>1 DEF TurnInv, OwnArguments
    <3>2. n \in DOMAIN TheCalls
      <4>1. DOMAIN TheCalls = 1..Len(TheCalls) /\ Len(TheCalls) \in Nat
        BY <3>1 DEF IsSequence
      <4> QED
        BY <1>5, <1>7, <4>1 DEF n
    <3> QED
      BY <1>4, <3>1, <3>2
  <2> QED
    BY <1>2, <2>1 DEF OwnArguments
<1> QED
  BY <1>8, <1>9, <1>10, <1>11, <1>15, <1>16, <1>17 DEF TurnInv

LEMMA FinishKeeps ==
  ASSUME TurnInv, Finish
  PROVE  TurnInv'
<1>1. at = "finish" /\ inline = 0 /\ Unrecorded /\ UNCHANGED eager /\ RestUnchanged
  BY DEF Finish
<1>2. CASE NextCall.id \in DOMAIN eager
  BY <1>1, <1>2, RecordsEarly DEF Finish, Record
<1>3. CASE NextCall.id \notin DOMAIN eager
  <2>1. Start(NextCall, TRUE) /\ recorded' = Append(recorded, Len(tool) + 1)
    BY <1>3 DEF Finish, Record
  <2> QED
    BY <1>1, <1>3, <2>1, RecordsNew
<1> QED
  BY <1>2, <1>3

LEMMA RunNextKeeps ==
  ASSUME TurnInv, RunNext
  PROVE  TurnInv'
<1>1. /\ at = "sequence" /\ inline = 0 /\ Unrecorded /\ UNCHANGED eager /\ RestUnchanged
      /\ Start(NextCall, TRUE) /\ recorded' = Append(recorded, Len(tool) + 1)
  BY DEF RunNext, Record
<1>2. DOMAIN eager = {}
  BY <1>1, NoBlocks DEF TurnInv, Early
<1> QED
  BY <1>1, <1>2, RecordsNew

LEMMA SpawnKeeps ==
  ASSUME TurnInv, Spawn
  PROVE  TurnInv'
<1>1. /\ at = "spawn" /\ inline = 0 /\ Unrecorded /\ UNCHANGED eager /\ RestUnchanged
      /\ Start(NextCall, FALSE) /\ recorded' = Append(recorded, Len(tool) + 1)
  BY DEF Spawn, Record
<1>2. DOMAIN eager = {}
  BY <1>1, NoBlocks DEF TurnInv, Early
<1> QED
  BY <1>1, <1>2, RecordsNew

LEMMA ToolsDoneKeeps ==
  ASSUME TurnInv, ToolsDone
  PROVE  TurnInv'
<1>1. /\ at \in {"finish", "sequence", "spawn"} /\ inline = 0 /\ at' = "ended" /\ ~Unrecorded
      /\ at = "spawn" => \A k \in DOMAIN tool : ~Running(k)
      /\ UNCHANGED <<stream, channel, cancelled, attempt, pending, tool, eager, inline, answer, err, heard, recorded>>
  BY DEF ToolsDone, AllDone
<1>2. TheCalls' = TheCalls /\ Reply' = Reply /\ (Exact' <=> Exact)
  BY <1>1 DEF TheCalls, Reply, Exact, stream
<1>3. TypeOK'
  BY <1>1 DEF TurnInv, TypeOK, stream
<1>4. StreamInv' /\ AtRest' /\ Early'
  BY <1>1 DEF TurnInv, StreamInv, AtRest, Early, stream
<1>5. Awaited'
  <2>1. ASSUME NEW k \in DOMAIN tool PROVE ~Running(k)
    <3>1. k # 0
      BY DEF TurnInv, TypeOK, IsSequence
    <3> QED
      BY <1>1, <3>1 DEF TurnInv, Awaited
  <2>2. \A k \in DOMAIN tool : ~Running(k)'
    BY <1>1, <2>1 DEF Running
  <2> QED
    BY <1>1, <2>2 DEF Awaited
<1>6. Matched'
  <2>1. CASE at = "finish"
    BY <1>1, <1>2, <2>1 DEF TurnInv, Matched
  <2>2. CASE at # "finish"
    BY <1>1, <2>2 DEF TurnInv, Early, Matched
  <2> QED
    BY <2>1, <2>2
<1>7. Kept'
  <2>1. ~Unrecorded'
    BY <1>1, <1>2 DEF Unrecorded
  <2> QED
    BY <1>1, <1>2, <2>1 DEF TurnInv, Kept
<1>8. AllKnown'
  BY <1>1 DEF TurnInv, AllKnown
<1>9. OwnArguments'
  BY <1>1, <1>2 DEF TurnInv, OwnArguments
<1> QED
  BY <1>3, <1>4, <1>5, <1>6, <1>7, <1>8, <1>9 DEF TurnInv

-----------------------------------------------------------------------------
\* The invariant.

LEMMA TurnStarts ==
  ASSUME Init
  PROVE  TurnInv
<1>1. /\ setup \in Setups /\ wire = <<>> /\ channel = <<>> /\ cancelled = FALSE
      /\ at = "ask" /\ attempt = 1 /\ pending = NoCalls /\ tool = <<>> /\ eager = NoCalls /\ inline = 0
      /\ answer = NoAnswer /\ err = "none" /\ heard = FALSE /\ recorded = <<>>
      /\ parser = [NoParse EXCEPT !.closed = TRUE]
  BY DEF Init
<1>2. parser.closed = TRUE
  BY <1>1 DEF NoParse
<1>3. IsSequence(<<>>) /\ DOMAIN <<>> = {} /\ Len(<<>>) = 0 /\ DOMAIN NoCalls = {} /\ <<>> \in Seq({})
  BY NoBlocks, EmptySeq
<1>4. TypeOK
  <2>1. attempt \in 1..MaxAttempts
    BY <1>1, TurnAssumption
  <2>2. eager \in [DOMAIN eager -> DOMAIN tool]
    BY <1>1, <1>3 DEF NoCalls
  <2>3. recorded \in Seq(DOMAIN tool)
    BY <1>1, <1>3
  <2>4. parser.closed \in BOOLEAN /\ cancelled \in BOOLEAN /\ heard \in BOOLEAN
    BY <1>1, <1>2
  <2>5. inline \in 0..Len(tool)
    BY <1>1, <1>3
  <2>6. /\ IsSequence(wire) /\ IsSequence(channel) /\ IsSequence(tool) /\ DOMAIN tool = {} /\ DOMAIN channel = {}
    BY <1>1, <1>3
  <2> QED
    BY <1>1, <2>1, <2>2, <2>3, <2>4, <2>5, <2>6 DEF TypeOK
<1>5. StreamInv /\ AtRest
  BY <1>1, <1>2 DEF StreamInv, AtRest
<1>6. Awaited /\ Early /\ Matched
  BY <1>1, <1>3 DEF Awaited, Early, Matched
<1>7. Kept /\ AllKnown
  BY <1>1, <1>3 DEF Kept, AllKnown
<1>8. OwnArguments
  BY <1>1, <1>3 DEF OwnArguments
<1> QED
  BY <1>4, <1>5, <1>6, <1>7, <1>8 DEF TurnInv

LEMMA TurnStutters ==
  ASSUME TurnInv, UNCHANGED vars
  PROVE  TurnInv'
<1>1. UNCHANGED <<setup, wire, parser, channel, cancelled, at, attempt, pending, tool, eager,
                  inline, answer, err, heard, recorded>>
  BY DEF vars
<1>2. TypeOK'
  BY <1>1 DEF TurnInv, TypeOK
<1>3. StreamInv' /\ AtRest'
  BY <1>1 DEF TurnInv, StreamInv, AtRest, Reply
<1>4. Awaited'
  BY <1>1, AwaitedSame DEF TurnInv
<1>5. Early' /\ Matched' /\ Kept' /\ AllKnown' /\ OwnArguments'
  BY <1>1, <1>2, TurnSame, SameKept
<1> QED
  BY <1>2, <1>3, <1>4, <1>5 DEF TurnInv

\* Every step keeps the invariant.
LEMMA TurnSteps ==
  ASSUME IdsDiffer, TurnInv, [Next]_vars
  PROVE  TurnInv'
<1>1. CASE Cancel
  BY <1>1, CancelKeeps
<1>2. CASE Ask
  BY <1>2, AskKeeps
<1>3. CASE Complete
  BY <1>3, CompleteKeeps
<1>4. CASE Backoff
  BY <1>4, BackoffKeeps
<1>5. CASE Reader
  BY <1>5, ReaderKeeps
<1>6. CASE Consume
  BY <1>6, ListenKeeps, BlockStartsKeeps, InputArrivesKeeps, BlockStopsKeeps, MessageStopsKeeps,
     StreamFailsKeeps, StreamEndsKeeps, AnsweredKeeps DEF Consume
<1>7. CASE RunTools
  BY <1>7, FinishKeeps, RunNextKeeps, SpawnKeeps, ToolsDoneKeeps DEF RunTools
<1>8. CASE \E cause \in Causes : AskFails(cause)
  BY <1>8, AskFailsKeeps
<1>9. CASE \E k \in DOMAIN tool : Goroutine(k)
  BY <1>9, GoroutineKeeps
<1>10. CASE UNCHANGED vars
  BY <1>10, TurnStutters
<1> QED
  BY <1>1, <1>2, <1>3, <1>4, <1>5, <1>6, <1>7, <1>8, <1>9, <1>10 DEF Next

\* The variables have values of their kinds, and what is on its way, pending,
\* started and recorded agrees with the reply, whatever the servers and the
\* goroutines do (loop.go:285-348, 765-1089 and the four parsers).
THEOREM TurnInvariant ==
  ASSUME IdsDiffer
  PROVE  Spec => []TurnInv
<1>1. Init => TurnInv
  BY TurnStarts
<1>2. TurnInv /\ [Next]_vars => TurnInv'
  BY TurnSteps
<1> QED
  BY <1>1, <1>2, PTL DEF Spec

\* A run never goes on, to an attempt, a turn or a failure, while a tool that it
\* started for this answer is at work (loop.go:1027-1041).
THEOREM NoToolLeft ==
  ASSUME IdsDiffer
  PROVE  Spec => []NoToolLeftRunning
<1>1. TurnInv => NoToolLeftRunning
  BY DEF TurnInv, Awaited, NoToolLeftRunning
<1> QED
  BY <1>1, TurnInvariant, PTL

LEMMA CountTo ==
  ASSUME NEW n \in Nat
  PROVE  IsFiniteSet(1..n) /\ Cardinality(1..n) = n
<1>1. 1 \in Int /\ n \in Int
  OBVIOUS
<1>2. /\ IsFiniteSet(1..n)
      /\ Cardinality(1..n) = IF 1 > n THEN 0 ELSE n - 1 + 1
  BY <1>1, FS_Interval
<1>3. (IF 1 > n THEN 0 ELSE n - 1 + 1) = n
  OBVIOUS
<1> QED
  BY <1>2, <1>3

LEMMA SameNumber ==
  ASSUME TypeOK,
         \A i, j \in DOMAIN recorded : recorded[i] = recorded[j] => i = j,
         \A k \in DOMAIN tool : \E i \in DOMAIN recorded : recorded[i] = k
  PROVE  Len(tool) = Len(recorded)
<1> DEFINE S == DOMAIN recorded
           T == DOMAIN tool
<1>1. recorded \in Seq(T) /\ Len(recorded) \in Nat /\ S = 1..Len(recorded)
  BY DEF TypeOK
<1>2. Len(tool) \in Nat /\ T = 1..Len(tool)
  BY DEF TypeOK, IsSequence
<1>3. recorded \in [S -> T]
  BY <1>1
<1>4. recorded \in Surjection(S, T) /\ recorded \in Injection(S, T)
  BY <1>3 DEF Surjection, Injection, IsInjective
<1>5. /\ IsFiniteSet(S) /\ Cardinality(S) = Len(recorded)
      /\ Cardinality(T) = Len(tool)
  <2>1. PICK n : n = Len(recorded)
    OBVIOUS
  <2>2. PICK m : m = Len(tool)
    OBVIOUS
  <2>3. n \in Nat /\ m \in Nat
    BY <1>1, <1>2, <2>1, <2>2
  <2>4. /\ IsFiniteSet(1..n) /\ Cardinality(1..n) = n
        /\ Cardinality(1..m) = m
    BY <2>3, CountTo
  <2>5. S = 1..n /\ T = 1..m
    BY <1>1, <1>2, <2>1, <2>2
  <2> HIDE DEF S, T
  <2> QED
    BY <2>1, <2>2, <2>4, <2>5
<1>6. Cardinality(T) = Cardinality(S)
  BY <1>4, <1>5, FS_Surjection
<1> QED
  BY <1>5, <1>6

\* The results stored behind an answer are those of its calls, each once and in
\* order, and in the first attempt no other tool was run, whichever of the
\* three ways the tools were run (loop.go:799-919, 960-1089).
THEOREM ToolsAndAnswer ==
  ASSUME IdsDiffer
  PROVE  Spec => []ToolsMatchAnswer
<1>1. ASSUME TurnInv PROVE ResultsMatchCalls
  BY <1>1 DEF TurnInv, Kept, ResultsMatchCalls
<1>2. ASSUME TurnInv, at = "ended", attempt = 1, ~cancelled, answer.stop # "length"
      PROVE  Len(tool) = Len(recorded)
  <2>1. \A i, j \in DOMAIN recorded : recorded[i] = recorded[j] => i = j
    BY <1>2 DEF TurnInv, Kept
  <2>2. ASSUME NEW k \in DOMAIN tool PROVE \E i \in DOMAIN recorded : recorded[i] = k
    <3>1. ASSUME NEW d \in DOMAIN eager, eager[d] = k PROVE \E i \in DOMAIN recorded : recorded[i] = k
      <4>1. eager # NoCalls /\ err = "none"
        BY <1>2, NoBlocks DEF TurnInv, Kept
      <4>2. IsSequence(TheCalls) /\ \A e \in DOMAIN eager : \E i \in DOMAIN TheCalls : TheCalls[i].id = e
        BY <1>2, <4>1 DEF TurnInv, Matched
      <4>3. PICK i \in DOMAIN TheCalls : TheCalls[i].id = d
        BY <4>2
      <4>4. ~Unrecorded
        <5>1. TheCalls # <<>>
          BY <4>3, NoBlocks
        <5> QED
          BY <1>2, <5>1 DEF TurnInv, Kept
      <4>5. i \in DOMAIN recorded
        <5>1. DOMAIN TheCalls = 1..Len(TheCalls) /\ Len(TheCalls) \in Nat
          BY <4>2 DEF IsSequence
        <5>2. DOMAIN recorded = 1..Len(recorded) /\ Len(recorded) \in Nat
          BY <1>2 DEF TurnInv, TypeOK
        <5> QED
          BY <4>3, <4>4, <5>1, <5>2 DEF Unrecorded
      <4>6. recorded[i] = eager[d]
        BY <1>2, <4>3, <4>5 DEF TurnInv, Kept
      <4> QED
        BY <3>1, <4>5, <4>6
    <3>2. (\E d \in DOMAIN eager : eager[d] = k) \/ (\E i \in DOMAIN recorded : recorded[i] = k)
      BY <1>2 DEF TurnInv, AllKnown
    <3> QED
      BY <3>1, <3>2
  <2> QED
    BY <1>2, <2>1, <2>2, SameNumber DEF TurnInv
<1>3. TurnInv => ToolsMatchAnswer
  BY <1>1, <1>2 DEF ToolsMatchAnswer, NothingElseRun
<1> QED
  BY <1>3, TurnInvariant, PTL

\* From the two providers that tell a complete block from one that was cut, no
\* tool is given a part of the arguments of its call (anthropic.go:716-728,
\* gemini.go).
THEOREM CompleteCalls ==
  ASSUME IdsDiffer
  PROVE  Spec => []CompleteCallsRun
<1>1. TurnInv => CompleteCallsRun
  BY DEF TurnInv, OwnArguments, Exact, Reply, Range, CompleteCallsRun, ArgumentsWhole
<1> QED
  BY <1>1, TurnInvariant, PTL

-----------------------------------------------------------------------------
\* The places.

Slotted ==
  /\ \A k \in DOMAIN tool : tool[k].state = "run" /\ k # inline => tool[k].slot
  /\ Cardinality(Using) <= Slots

\* The tools are finitely many.
LEMMA UsingFinite ==
  ASSUME NEW tl, IsSequence(tl)
  PROVE  IsFiniteSet({k \in DOMAIN tl : tl[k].slot})
<1>1. PICK n : n = Len(tl)
  OBVIOUS
<1>2. n \in Nat /\ DOMAIN tl = 1..n
  BY <1>1 DEF IsSequence
<1>3. IsFiniteSet(DOMAIN tl)
  BY <1>2, CountTo
<1>4. {k \in DOMAIN tl : tl[k].slot} \subseteq DOMAIN tl
  OBVIOUS
<1> QED
  BY <1>3, <1>4, FS_Subset

\* A tool that starts holds no place.
LEMMA StartSlotted ==
  ASSUME TypeOK, Slotted, inline = 0, NEW call, NEW alone, Start(call, alone)
  PROVE  Slotted'
<1>1. PICK state, now : /\ tool' = Append(tool, Started(call, state, FALSE))
                        /\ state = "run" => inline' = Len(tool) + 1
                        /\ inline' = inline \/ inline' = Len(tool) + 1
  <2>1. \A s \in {"done", "wait"} : s # "run"
    OBVIOUS
  <2> QED
    BY <2>1 DEF Start
<1>2. PICK e : e = Started(call, state, FALSE)
  OBVIOUS
<1>3. PICK more : more = Append(tool, e)
  OBVIOUS
<1>4. Len(tool) \in Nat /\ DOMAIN tool = 1..Len(tool)
  BY DEF TypeOK, IsSequence
<1>5. /\ DOMAIN more = 1..(Len(tool) + 1)
      /\ \A j \in 1..Len(tool) : more[j] = tool[j]
      /\ more[Len(tool) + 1] = e
  BY <1>3, <1>4 DEF TypeOK, IsSequence
<1>6. tool' = more /\ e.slot = FALSE /\ e.state = state
  BY <1>1, <1>2, <1>3 DEF Started
<1>7. Using' = Using
  BY <1>4, <1>5, <1>6 DEF Using
<1>8. ASSUME NEW k \in DOMAIN more, more[k].state = "run", k # inline'
      PROVE  more[k].slot
  <2>1. CASE k = Len(tool) + 1
    BY <1>1, <1>5, <1>6, <1>8, <2>1
  <2>2. CASE k # Len(tool) + 1
    <3>1. k \in 1..Len(tool) /\ more[k] = tool[k] /\ k # 0
      BY <1>4, <1>5, <1>8, <2>2
    <3> QED
      BY <1>4, <1>8, <3>1 DEF Slotted
  <2> QED
    BY <2>1, <2>2
<1> QED
  BY <1>6, <1>7, <1>8 DEF Slotted

\* A place is taken only when one is free.
LEMMA GoroutineSlotted ==
  ASSUME TypeOK, Slotted, NEW k \in DOMAIN tool, Goroutine(k)
  PROVE  Slotted'
<1>1. IsFiniteSet(Using)
  BY UsingFinite DEF TypeOK, Using
<1>2. tool[k] = Started(tool[k].call, tool[k].state, tool[k].slot) /\ Slots \in Nat
  BY TurnAssumption DEF TypeOK
<1>3. \A S \in SUBSET Using : IsFiniteSet(S) /\ Cardinality(S) <= Slots
  <2>1. ASSUME NEW S \in SUBSET Using PROVE IsFiniteSet(S) /\ Cardinality(S) <= Slots
    <3>1. IsFiniteSet(S) /\ Cardinality(S) <= Cardinality(Using)
      BY <1>1, FS_Subset
    <3>2. Cardinality(S) \in Nat /\ Cardinality(Using) \in Nat /\ Cardinality(Using) <= Slots
      BY <1>1, <3>1, FS_CardinalityType DEF Slotted
    <3> QED
      BY <1>2, <3>1, <3>2
  <2> QED
    BY <2>1
<1>4. CASE TakeSlot(k)
  <2>1. /\ DOMAIN tool' = DOMAIN tool /\ inline' = inline
        /\ tool'[k].slot = TRUE /\ \A j \in DOMAIN tool : j # k => tool'[j] = tool[j]
    BY <1>2, <1>4 DEF TakeSlot, Started
  <2>2. Using' = Using \cup {k}
    BY <2>1 DEF Using
  <2>3. Cardinality(Using) \in Nat /\ Cardinality(Using) < Slots
    BY <1>1, <1>4, FS_CardinalityType DEF TakeSlot
  <2>4. Cardinality(Using \cup {k}) <= Cardinality(Using) + 1 /\ Cardinality(Using \cup {k}) \in Nat
    <3>1. PICK U : U = Using
      OBVIOUS
    <3>2. IsFiniteSet(U \cup {k}) /\ Cardinality(U \cup {k}) = IF k \in U THEN Cardinality(U) ELSE Cardinality(U) + 1
      BY <1>1, <3>1, FS_AddElement
    <3>3. Cardinality(U) \in Nat
      BY <2>3, <3>1
    <3> QED
      BY <3>1, <3>2, <3>3
  <2>5. Cardinality(Using') <= Slots
    BY <1>2, <2>2, <2>3, <2>4
  <2> QED
    BY <2>1, <2>5 DEF Slotted
<1>5. CASE GiveUp(k)
  <2>1. /\ DOMAIN tool' = DOMAIN tool /\ inline' = inline /\ tool'[k].state = "done" /\ tool'[k].slot = tool[k].slot
        /\ \A j \in DOMAIN tool : j # k => tool'[j] = tool[j]
    BY <1>2, <1>5 DEF GiveUp, Started
  <2>2. Using' = Using
    BY <2>1 DEF Using
  <2>3. "done" # "run"
    OBVIOUS
  <2> QED
    BY <2>1, <2>2, <2>3 DEF Slotted
<1>6. CASE ToolEnds(k)
  <2>1. /\ DOMAIN tool' = DOMAIN tool /\ (inline' = inline \/ inline = k)
        /\ tool'[k].state = "done" /\ tool'[k].slot = FALSE
        /\ \A j \in DOMAIN tool : j # k => tool'[j] = tool[j]
    BY <1>2, <1>6 DEF ToolEnds, Started
  <2>2. Using' \in SUBSET Using
    BY <2>1 DEF Using
  <2>3. Cardinality(Using') <= Slots
    BY <1>3, <2>2
  <2>4. "done" # "run"
    OBVIOUS
  <2> QED
    BY <2>1, <2>3, <2>4 DEF Slotted
<1> QED
  BY <1>4, <1>5, <1>6 DEF Goroutine

\* Beside the tool that the run executes itself no more than Slots tools run at
\* once: the semaphore counts all of them (loop.go:858-883, 942-1014).
THEOREM BoundedTools ==
  ASSUME IdsDiffer
  PROVE  Spec => []AtMostSlots
<1>1. Init => Slotted
  <2>1. ASSUME Init PROVE Slotted
    <3>1. DOMAIN tool = {}
      BY <2>1, EmptySeq DEF Init
    <3>2. Using = {} /\ Slots \in Nat
      BY <3>1, TurnAssumption DEF Using
    <3>3. Cardinality({}) = 0
      BY FS_EmptySet
    <3> QED
      BY <3>1, <3>2, <3>3 DEF Slotted
  <2> QED
    BY <2>1
<1>2. ASSUME TurnInv, Slotted, [Next]_vars PROVE Slotted'
  <2>1. TypeOK
    BY <1>2 DEF TurnInv
  <2>2. CASE UNCHANGED <<tool, inline>>
    BY <1>2, <2>2 DEF Slotted, Using
  <2>3. CASE inline = 0 /\ \E call, alone : Start(call, alone)
    BY <1>2, <2>1, <2>3, StartSlotted
  <2>4. CASE \E k \in DOMAIN tool : Goroutine(k)
    BY <1>2, <2>1, <2>4, GoroutineSlotted
  <2>5. CASE Cancel \/ Ask \/ Complete \/ Backoff \/ \E cause \in Causes : AskFails(cause)
    BY <2>2, <2>5 DEF Cancel, Ask, Complete, Backoff, AskFails
  <2>6. CASE Reader
    BY <2>2, <2>6 DEF Reader, ReadFrame, ReadErrorFrame, ReadEnd, ReadBreaks, TurnVars
  <2>7. CASE BlockStops
    BY <2>2, <2>3, <2>7 DEF BlockStops, At
  <2>8. CASE Listen \/ BlockStarts \/ InputArrives \/ MessageStops \/ StreamFails \/ StreamEnds \/ Answered
    BY <2>2, <2>8 DEF Listen, BlockStarts, InputArrives, MessageStops, StreamFails, StreamEnds, Answered
  <2>9. CASE Finish \/ RunNext \/ Spawn
    BY <2>2, <2>3, <2>9 DEF Finish, RunNext, Spawn
  <2>10. CASE ToolsDone
    BY <2>2, <2>10 DEF ToolsDone
  <2>11. CASE UNCHANGED vars
    BY <2>2, <2>11 DEF vars
  <2> QED
    BY <1>2, <2>4, <2>5, <2>6, <2>7, <2>8, <2>9, <2>10, <2>11 DEF Next, Consume, RunTools
<1>3. TurnInv /\ Slotted => AtMostSlots
  <2>1. ASSUME TurnInv, Slotted PROVE AtMostSlots
    <3> DEFINE S == {k \in DOMAIN tool : tool[k].state = "run" /\ k # inline}
    <3>1. S \subseteq Using
      BY <2>1 DEF Slotted, Using
    <3>2. IsFiniteSet(Using)
      BY <2>1, UsingFinite DEF TurnInv, TypeOK, Using
    <3>3. IsFiniteSet(S) /\ Cardinality(S) <= Cardinality(Using)
      BY <3>1, <3>2, FS_Subset
    <3>4. Cardinality(S) \in Nat /\ Cardinality(Using) \in Nat /\ Slots \in Nat
      BY <3>2, <3>3, FS_CardinalityType, TurnAssumption
    <3> HIDE DEF S
    <3>5. Cardinality(S) <= Slots
      BY <2>1, <3>3, <3>4 DEF Slotted
    <3> QED
      BY <3>5 DEF AtMostSlots, S
  <2> QED
    BY <2>1
<1> QED
  BY <1>1, <1>2, <1>3, TurnInvariant, PTL DEF Spec
=============================================================================
