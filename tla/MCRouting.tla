----------------------------- MODULE MCRouting -----------------------------
(* Two requests, three providers one of which signs in with ChatGPT; routed *)
(* by learned weights, and by configured ones with a fallback chain.        *)
EXTENDS Routing

CONSTANTS chatgpt, nim, gone, spare
MCWeights(on) == [p \in Providers |-> IF p \in on THEN 1 ELSE 0]
MCSetups ==
  {[weights |-> MCWeights({chatgpt, nim}), fallback |-> <<gone, nim, spare, chatgpt>>, rewards |-> FALSE],
   [weights |-> MCWeights({nim, spare}), fallback |-> <<spare, nim>>, rewards |-> TRUE]}
=============================================================================
