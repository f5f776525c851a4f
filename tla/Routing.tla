------------------------------ MODULE Routing ------------------------------
(***************************************************************************)
(* Requests to several providers: the Router (provider.go) picks one by    *)
(* weight and tries the fallback chain when it fails; the RewardRouter     *)
(* (reward_router.go) has answers scored in the background and gives       *)
(* weights by the scores.  A request to a ChatGPT provider first gets its  *)
(* token (Tokens).                                                         *)
(***************************************************************************)
EXTENDS Tokens, FiniteSets, SequencesExt

CONSTANTS
  Providers,     \* registered providers
  ByToken,       \* those of them that sign in with ChatGPT
  Active,        \* the provider that is asked without weights
  Setups,        \* [weights, fallback, rewards] as configured
  Scores,        \* scores the reward model gives
  MaxScores,     \* maxConcurrentScores
  UpdateEvery,   \* scores between two changes of the weights
  MaxScored,     \* bound: scores given
  MaxRequests    \* bound: requests made

ASSUME RoutingAssumption ==
  /\ Active \in Providers /\ ByToken \subseteq Providers
  /\ Scores \subseteq Nat
  /\ MaxScores \in Nat /\ UpdateEvery \in Nat \ {0}
  /\ \A s \in Setups : s.fallback \in Seq(Range(s.fallback))

VARIABLES
  setup,
  weights,     \* per provider, 0 for none
  request,     \* per caller: [at, to, passed, tried]
  requests,    \* requests made
  scorer,      \* per place of scoreSem: [at, of, learned]
  stats,       \* per provider: [total, count]
  scored       \* scores received

routeVars == <<setup, weights, request, requests, scorer, stats, scored>>
vars == <<tokenVars, routeVars>>
ledger == <<stats, scored>>

NoWeights == [p \in Providers |-> 0]
NoRequest == [at |-> "idle", to |-> Active, passed |-> 0, tried |-> <<>>]
Free == [at |-> "free", of |-> Active, learned |-> NoWeights]

Init ==
  /\ TokensInit
  /\ setup \in Setups
  /\ weights = setup.weights
  /\ request = [c \in Callers |-> NoRequest]
  /\ requests = 0
  /\ scorer = [i \in 1..MaxScores |-> Free]
  /\ stats = [p \in Providers |-> [total |-> 0, count |-> 0]]
  /\ scored = 0

-----------------------------------------------------------------------------
\* The Router.

\* pick: a provider with a weight, by chance; without weights the active one.
Picks == IF weights = NoWeights THEN {Active} ELSE {p \in Providers : weights[p] > 0}

\* fallback: the places of the chain that r has not come to, without the
\* provider that was asked first.  Mutant: that one as well.
FallbackAny(r) == {i \in r.passed + 1..Len(setup.fallback) : setup.fallback[i] \in Providers}
Fallback(r) ==
  {i \in r.passed + 1..Len(setup.fallback) :
     setup.fallback[i] \in Providers /\ setup.fallback[i] # r.tried[1]}

\* A provider is asked, in the case of ChatGPT with the token of the moment.
SendTo(c, p, place) ==
  /\ request' = [request EXCEPT ![c] = [at |-> IF p \in ByToken THEN "auth" ELSE "sent",
                                        to |-> p, passed |-> place,
                                        tried |-> Append(request[c].tried, p)]]
  /\ auth' = [auth EXCEPT ![c] = IF p \in ByToken THEN "load" ELSE "out"]
  /\ held' = [held EXCEPT ![c] = NoCreds]

Ask(c) ==
  /\ request[c].at = "idle" /\ login = "in"
  /\ requests < MaxRequests
  /\ requests' = requests + 1
  /\ \E p \in Picks : SendTo(c, p, 0)
  /\ UNCHANGED <<start, file, mutex, expiring, server, mishap,
                 setup, weights, scorer, ledger>>

GetToken(c) ==
  /\ request[c].at = "auth"
  /\ Authorize(c)
  /\ request' = IF auth'[c] = "in" THEN [request EXCEPT ![c].at = "sent"] ELSE request
  /\ UNCHANGED <<setup, weights, requests, scorer, ledger>>

\* The next provider of the chain is asked, until it is at its end.
Fails(c) ==
  LET r == request[c]
      ahead == Fallback(r)
  IN /\ r.at = "sent"
     /\ \/ \E i \in ahead :
             /\ \A j \in ahead : i <= j
             /\ SendTo(c, setup.fallback[i], i)
        \/ /\ ahead = {}
           /\ request' = [request EXCEPT ![c].at = "failed"]
           /\ UNCHANGED <<auth, held>>
     /\ UNCHANGED <<start, file, mutex, expiring, server, mishap,
                    setup, weights, requests, scorer, ledger>>

\* tryScoreAsync: an answer with text is scored if a place is free, under the
\* name of the provider that gave it.
Attributed(c) == request[c].to

ScoreAsync(c) ==
  LET free == {i \in 1..MaxScores : scorer[i].at = "free"}
  IN \/ UNCHANGED scorer
     \/ /\ setup.rewards /\ free # {} /\ scored < MaxScored
        /\ scorer' = [scorer EXCEPT ![CHOOSE i \in free : \A j \in free : i <= j] =
                        [Free EXCEPT !.at = "ask", !.of = Attributed(c)]]

Answers(c) ==
  /\ request[c].at = "sent"
  /\ request' = [request EXCEPT ![c].at = "answered"]
  /\ ScoreAsync(c)
  /\ UNCHANGED <<tokenVars, setup, weights, requests, ledger>>

Return(c) ==
  /\ request[c].at \in {"answered", "failed"}
  /\ request' = [request EXCEPT ![c] = NoRequest]
  /\ auth' = [auth EXCEPT ![c] = "out"]
  /\ held' = [held EXCEPT ![c] = NoCreds]
  /\ UNCHANGED <<start, file, mutex, expiring, server, mishap,
                 setup, weights, requests, scorer, ledger>>

-----------------------------------------------------------------------------
\* scoreAndUpdate, in goroutines of its own.

\* Who reads the scores keeps who would write them waiting, and is not kept
\* waiting by others who read.
Readers == {i \in 1..MaxScores : scorer[i].at = "install"}

\* Mutant: scores are written while others read them.
ScoreArrivesAnyway(i) ==
  /\ scorer[i].at = "ask" /\ scored < MaxScored
  /\ \E s \in Scores :
       stats' = [stats EXCEPT ![scorer[i].of] = [total |-> @.total + s, count |-> @.count + 1]]
  /\ scored' = scored + 1
  /\ scorer' = [scorer EXCEPT ![i] = IF scored' % UpdateEvery = 0 THEN [@ EXCEPT !.at = "read"] ELSE Free]
  /\ UNCHANGED <<tokenVars, setup, weights, request, requests>>

ScoreArrives(i) ==
  /\ scorer[i].at = "ask" /\ scored < MaxScored
  /\ Readers = {}
  /\ \E s \in Scores :
       stats' = [stats EXCEPT ![scorer[i].of] = [total |-> @.total + s, count |-> @.count + 1]]
  /\ scored' = scored + 1
  /\ scorer' = [scorer EXCEPT ![i] = IF scored' % UpdateEvery = 0 THEN [@ EXCEPT !.at = "read"] ELSE Free]
  /\ UNCHANGED <<tokenVars, setup, weights, request, requests>>

\* The reward model fails, takes more than ten seconds or gives no number.
NoScore(i) ==
  /\ scorer[i].at = "ask"
  /\ scorer' = [scorer EXCEPT ![i] = Free]
  /\ UNCHANGED <<tokenVars, setup, weights, request, requests, ledger>>

\* recalculateWeights: averages are shifted so that the least of them gets the
\* weight 100, and a point more is worth another 100.
Scored == {p \in Providers : stats[p].count > 0}
Above(p, q) ==    \* hundredths by which the average of p is above that of q
  (100 * (stats[p].total * stats[q].count - stats[q].total * stats[p].count))
    \div (stats[p].count * stats[q].count)
Worst == CHOOSE q \in Scored : \A p \in Scored :
           stats[q].total * stats[p].count <= stats[p].total * stats[q].count
Learned == [p \in Providers |-> IF p \in Scored THEN Above(p, Worst) + 100 ELSE 0]

ReadStats(i) ==
  /\ scorer[i].at = "read"
  /\ scorer' = [scorer EXCEPT ![i] = IF Cardinality(Scored) < 2 THEN Free
                                     ELSE [@ EXCEPT !.at = "install", !.learned = Learned]]
  /\ UNCHANGED <<tokenVars, setup, weights, request, requests, ledger>>

Install(i) ==
  /\ scorer[i].at = "install"
  /\ weights' = scorer[i].learned
  /\ scorer' = [scorer EXCEPT ![i] = Free]
  /\ UNCHANGED <<tokenVars, setup, request, requests, ledger>>

Score(i) == ScoreArrives(i) \/ NoScore(i) \/ ReadStats(i) \/ Install(i)

-----------------------------------------------------------------------------
Request(c) == Ask(c) \/ GetToken(c) \/ Fails(c) \/ Answers(c) \/ Return(c)

Next ==
  \/ LogIn /\ UNCHANGED routeVars
  \/ Age /\ UNCHANGED routeVars
  \/ \E c \in Callers : Request(c)
  \/ \E i \in 1..MaxScores : Score(i)

\* Servers answer or the client gives up on them (openai_oauth.go:344, a
\* timeout of 30 s), and mutexes are granted to whoever waits.
Fairness ==
  /\ \A c \in Callers : /\ WF_vars(Request(c))
                        /\ SF_vars(request[c].at = "auth" /\ GetToken(c))
  /\ \A i \in 1..MaxScores : WF_vars(Score(i))

Spec == Init /\ [][Next]_vars
FairSpec == Spec /\ Fairness

-----------------------------------------------------------------------------
(* Properties.                                                             *)

\* Every variable has values of its kind; a place is only taken by a scoring
\* that is under way.
TypeOK ==
  /\ TokensTypeOK
  /\ setup \in Setups
  /\ weights \in [Providers -> Nat]
  /\ request \in [Callers -> [at : {"idle", "auth", "sent", "answered", "failed"}, to : Providers,
                              passed : Nat, tried : Seq(Providers)]]
  /\ scorer \in [1..MaxScores -> [at : {"free", "ask", "read", "install"}, of : Providers,
                                  learned : [Providers -> Nat]]]
  /\ scored <= MaxScored

\* A request fails only when the provider picked and every other one of the
\* fallback chain have failed, and asks none of them twice that the chain does
\* not name twice (provider.go:120-152).
FailedAfterAll ==
  \A c \in Callers :
    LET tried == request[c].tried
    IN /\ IsInjective(setup.fallback) => IsInjective(tried)
       /\ request[c].at = "failed" => Range(setup.fallback) \cap Providers \subseteq Range(tried)

\* The weights put in place are those of the scores at that moment: with
\* several goroutines at it, no older ones replace newer ones
\* (reward_router.go:186-239).
WeightsFollowScores == [][weights' # weights => weights' = Learned]_<<weights, stats>>

\* Every request comes back, though it may wait for the token of another.
RequestsEnd == \A c \in Callers : request[c].at \in {"auth", "sent"} ~> request[c].at = "idle"

=============================================================================
