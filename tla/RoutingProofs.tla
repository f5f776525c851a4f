---------------------------- MODULE RoutingProofs ----------------------------
(***************************************************************************)
(* Theorems of Routing, for any number of requests, providers and tokens.  *)
(*                                                                         *)
(* The login: whoever is between Lock and Save is alone there, so what it  *)
(* read from the file under the lock is still there when it posts it, and  *)
(* is what the server takes.  The fallback: the place of the chain that a  *)
(* request has come to says what it has asked.  The weights: the scorer    *)
(* that is about to install weights holds those of the scores.             *)
(***************************************************************************)
EXTENDS Routing, TLAPS

CredsSet == [access : Nat, refresh : Nat, account : BOOLEAN]
Stages == {"out", "load", "lock", "reload", "post", "save", "in"}
Logins == {"none", "bind", "callback", "paste", "exchange", "in", "refused"}
Locked == {"reload", "post", "save"}
Busy == {"load", "lock"} \cup Locked

TokensTyped ==
  /\ login \in Logins
  /\ file \in CredsSet /\ key \in Nat
  /\ mutex \in Callers \cup {NoCaller}
  /\ auth \in [Callers -> Stages]
  /\ held \in [Callers -> CredsSet]
  /\ issued \in Nat /\ valid \in Nat /\ expiring \in Nat
  /\ known \in BOOLEAN /\ mishap \in BOOLEAN

\* A request is a record; what its fields hold does not matter here.
RequestShaped ==
  /\ request = [c \in Callers |-> request[c]]
  /\ \A c \in Callers :
       request[c] = [at |-> request[c].at, to |-> request[c].to,
                     passed |-> request[c].passed, tried |-> request[c].tried]

Alone == \A c \in Callers : auth[c] \in Locked <=> mutex = c
InStep == \A c \in Callers :
  /\ request[c].at = "auth" <=> auth[c] \in Busy
  /\ auth[c] # "out" \/ request[c].at # "idle" => login = "in"

\* What the lock protects, while nothing went wrong.
BeforeLogin == login # "in" => file = NoCreds /\ valid = 0 /\ ~known
Usable == login = "in" => file.refresh # 0
AtPost == \A c \in Callers : auth[c] = "post" => held[c] = file
AtSave == \A c \in Callers :
  auth[c] = "save" => held[c].refresh = valid /\ held[c].refresh # 0 /\ (known => held[c].account)
Current ==
  login = "in" /\ (\A c \in Callers : auth[c] # "save")
    => file.refresh = valid /\ (known => file.account)
Kept == BeforeLogin /\ Usable /\ AtPost /\ AtSave /\ Current /\ reused = {}

Inv == TokensTyped /\ RequestShaped /\ Alone /\ InStep /\ (~mishap => Kept)

rest == <<start, file, mutex, expiring, server, mishap>>

-----------------------------------------------------------------------------
LEMMA NoCredsTyped == NoCreds \in CredsSet
  BY DEF NoCreds, Creds, CredsSet

LEMMA InitInv == Init => Inv
<1> SUFFICES ASSUME Init PROVE Inv
  OBVIOUS
<1> USE DEF Init, TokensInit
<1>1. Creds(1, 1, TRUE) \in CredsSet
  BY DEF Creds, CredsSet
<1>2. TokensTyped
  <2>1. file \in CredsSet
    BY <1>1, NoCredsTyped
  <2>3. (key = 0 /\ login = "none") \/ (key = 1 /\ login = "in")
    OBVIOUS
  <2>4. key \in Nat /\ login \in Logins
    BY <2>3 DEF Logins
  <2>2. known \in BOOLEAN
    BY <2>1 DEF CredsSet
  <2> QED
    BY <2>1, <2>2, <2>4, NoCredsTyped DEF TokensTyped, Stages
<1>3. RequestShaped
  BY DEF RequestShaped, NoRequest
<1>4. Alone /\ InStep
  BY TokensAssumption DEF Alone, InStep, Locked, Busy, NoRequest
<1>5. Kept
  BY DEF Kept, BeforeLogin, Usable, AtPost, AtSave, Current, NoCreds, Creds
<1> QED
  BY <1>2, <1>3, <1>4, <1>5 DEF Inv

\* Nothing here changes when neither the login nor a request does.
LEMMA QuietStep == Inv /\ UNCHANGED <<tokenVars, request>> => Inv'
  BY DEF Inv, tokenVars, start, server, TokensTyped, RequestShaped, Alone, InStep, Kept,
         BeforeLogin, Usable, AtPost, AtSave, Current

\* A request outside the lock may move and get other credentials.
LEMMA MoveStep ==
  ASSUME Inv, NEW c \in Callers, login = "in", auth[c] \notin Busy,
         NEW a \in {"out", "load"}, NEW q,
         q = [at |-> q.at, to |-> q.to, passed |-> q.passed, tried |-> q.tried],
         q.at = "auth" <=> a = "load",
         request' = [request EXCEPT ![c] = q],
         auth' = [auth EXCEPT ![c] = a],
         held' = [held EXCEPT ![c] = NoCreds],
         UNCHANGED rest
  PROVE  Inv'
<1> USE DEF rest, start, server
<1>1. TokensTyped'
  BY NoCredsTyped DEF Inv, TokensTyped, Stages
<1>2. RequestShaped'
  BY DEF Inv, RequestShaped
<1>3. Alone'
  BY DEF Inv, TokensTyped, Alone, Busy, Locked
<1>4. InStep'
  BY DEF Inv, TokensTyped, RequestShaped, InStep, Busy, Locked
<1>5. ~mishap => Kept'
  <2> SUFFICES ASSUME ~mishap PROVE Kept'
    OBVIOUS
  <2>1. auth[c] # "save" /\ auth'[c] \notin {"save", "post"}
    BY DEF Inv, TokensTyped, Busy, Locked
  <2>2. \A d \in Callers : d # c => auth'[d] = auth[d] /\ held'[d] = held[d]
    BY DEF Inv, TokensTyped
  <2> QED
    BY <2>1, <2>2 DEF Inv, Kept, BeforeLogin, Usable, AtPost, AtSave, Current
<1> QED
  BY <1>1, <1>2, <1>3, <1>4, <1>5 DEF Inv

LEMMA SendToStep ==
  ASSUME Inv, NEW c \in Callers, login = "in", auth[c] \notin Busy, NEW p, NEW place,
         SendTo(c, p, place), UNCHANGED rest
  PROVE  Inv'
<1> DEFINE q == [at |-> IF p \in ByToken THEN "auth" ELSE "sent",
                 to |-> p, passed |-> place, tried |-> Append(request[c].tried, p)]
           a == IF p \in ByToken THEN "load" ELSE "out"
<1>1. request' = [request EXCEPT ![c] = q] /\ auth' = [auth EXCEPT ![c] = a]
      /\ held' = [held EXCEPT ![c] = NoCreds]
  BY DEF SendTo
<1>2. q = [at |-> q.at, to |-> q.to, passed |-> q.passed, tried |-> q.tried]
      /\ (q.at = "auth" <=> a = "load") /\ a \in {"out", "load"}
  OBVIOUS
<1> HIDE DEF q, a
<1> QED
  BY <1>1, <1>2, MoveStep

\* A request outside the lock goes on to another place outside.
LEMMA AtStep ==
  ASSUME Inv, NEW c \in Callers, login = "in", auth[c] \notin Busy,
         NEW at, at # "auth", request' = [request EXCEPT ![c].at = at],
         UNCHANGED <<rest, auth, held>>
  PROVE  Inv'
<1> USE DEF rest, start, server
<1>1. TokensTyped' /\ Alone' /\ (~mishap => Kept')
  BY DEF Inv, TokensTyped, Alone, Kept, BeforeLogin, Usable, AtPost, AtSave, Current
<1>2. request'[c] = [at |-> at, to |-> request[c].to, passed |-> request[c].passed,
                     tried |-> request[c].tried]
  BY DEF Inv, RequestShaped
<1>3. \A d \in Callers : d # c => request'[d] = request[d]
  BY DEF Inv, RequestShaped
<1>4. request' = [d \in Callers |-> request'[d]]
  BY DEF Inv, RequestShaped
<1>5. RequestShaped' /\ InStep'
  BY <1>2, <1>3, <1>4 DEF Inv, RequestShaped, InStep
<1> QED
  BY <1>1, <1>5 DEF Inv

LEMMA AskStep == ASSUME Inv, NEW c \in Callers, Ask(c) PROVE Inv'
<1>1. auth[c] \notin Busy
  BY DEF Ask, Inv, InStep
<1> QED
  BY <1>1, SendToStep DEF Ask, rest

LEMMA FailsStep == ASSUME Inv, NEW c \in Callers, Fails(c) PROVE Inv'
<1>1. auth[c] \notin Busy /\ login = "in"
  BY DEF Fails, Inv, InStep
<1>2. CASE \E p, place : SendTo(c, p, place)
  BY <1>1, <1>2, SendToStep DEF Fails, rest
<1>3. CASE request' = [request EXCEPT ![c].at = "failed"] /\ UNCHANGED <<auth, held>>
  BY <1>1, <1>3, AtStep DEF Fails, rest
<1> QED
  BY <1>2, <1>3 DEF Fails

LEMMA AnswersStep == ASSUME Inv, NEW c \in Callers, Answers(c) PROVE Inv'
<1>1. auth[c] \notin Busy /\ login = "in"
  BY DEF Answers, Inv, InStep
<1> QED
  BY <1>1, AtStep DEF Answers, rest, tokenVars, start, server

LEMMA ReturnStep == ASSUME Inv, NEW c \in Callers, Return(c) PROVE Inv'
<1>1. auth[c] \notin Busy /\ login = "in"
  BY DEF Return, Inv, InStep
<1>2. NoRequest = [at |-> NoRequest.at, to |-> NoRequest.to, passed |-> NoRequest.passed,
                   tried |-> NoRequest.tried] /\ NoRequest.at # "auth"
  BY DEF NoRequest
<1> QED
  BY <1>1, <1>2, MoveStep DEF Return, rest

-----------------------------------------------------------------------------
LEMMA AgeStep == Inv /\ Age /\ UNCHANGED request => Inv'
  BY DEF Inv, Age, server, start, TokensTyped, RequestShaped, Alone, InStep, Kept,
         BeforeLogin, Usable, AtPost, AtSave, Current

\* A login: no request has begun.
LEMMA LogInStep == Inv /\ LogIn /\ UNCHANGED request => Inv'
<1> SUFFICES ASSUME Inv, LogIn, UNCHANGED request PROVE Inv'
  OBVIOUS
<1> USE DEF server, start
<1>1. login # "in"
  BY DEF LogIn, Begin, Bind, Callback, Paste, Exchange
<1>2. \A c \in Callers : auth[c] = "out" /\ request[c].at = "idle"
  BY <1>1 DEF Inv, InStep
<1>3. CASE Begin \/ Bind \/ Callback \/ Paste
  <2>1. login' \in Logins /\ login' # "in"
    BY <1>3 DEF Begin, Bind, Callback, Paste, Logins
  <2>2. UNCHANGED <<file, key, mutex, auth, held, expiring, issued, valid, known, reused, mishap>>
    BY <1>3 DEF Begin, Bind, Callback, Paste
  <2> QED
    BY <1>1, <1>2, <2>1, <2>2 DEF Inv, TokensTyped, RequestShaped, Alone, InStep, Kept,
         BeforeLogin, Usable, AtPost, AtSave, Current
<1>4. CASE Exchange
  <2>1. UNCHANGED <<mutex, auth, held, expiring, reused>>
    BY <1>4 DEF Exchange
  <2>2. CASE login' = "refused" /\ UNCHANGED <<file, key, issued, valid, known, mishap>>
    BY <1>1, <1>2, <2>1, <2>2 DEF Inv, TokensTyped, RequestShaped, Alone, InStep, Kept,
         BeforeLogin, Usable, AtPost, AtSave, Current, Logins
  <2>3. ASSUME login' = "in",
               NEW creds \in Issued, Issue(creds), creds.refresh > 0, key' = creds.access,
               (file' = creds /\ UNCHANGED mishap) \/ (mishap' = TRUE /\ UNCHANGED file)
        PROVE  Inv'
    <3>1. creds \in CredsSet
      BY <2>3 DEF Issued, CredsSet, Inv, TokensTyped
    <3>2. issued' \in Nat /\ valid' \in Nat /\ known' \in BOOLEAN
      BY <2>3, <3>1 DEF Issue, Inv, TokensTyped, CredsSet
    <3>3. TokensTyped'
      BY <2>1, <2>3, <3>1, <3>2 DEF Inv, TokensTyped, CredsSet, Logins
    <3>4. RequestShaped' /\ Alone' /\ InStep'
      BY <1>2, <2>1, <2>3 DEF Inv, RequestShaped, Alone, InStep, Busy, Locked
    <3>5. ASSUME ~mishap' PROVE Kept'
      <4>1. Kept /\ file' = creds
        BY <2>3, <3>5 DEF Inv
      <4>2. creds.refresh = valid' /\ (known' <=> creds.account)
        BY <1>1, <2>3, <4>1, <3>1 DEF Issue, Kept, BeforeLogin, CredsSet, Inv, TokensTyped
      <4> QED
        BY <1>2, <2>1, <2>3, <4>1, <4>2, <3>1 DEF Kept, BeforeLogin, Usable, AtPost, AtSave, Current, CredsSet
    <3> QED
      BY <3>3, <3>4, <3>5 DEF Inv
  <2> QED
    BY <1>4, <2>2, <2>3 DEF Exchange
<1> QED
  BY <1>3, <1>4 DEF LogIn

-----------------------------------------------------------------------------
\* auth() of one request, one step at a time.  Where it is afterwards is all
\* that InStep asks of the request itself.
LEMMA StageStep ==
  ASSUME Inv, NEW c \in Callers, request[c].at = "auth",
         NEW a \in Stages \ {"out"}, auth' = [auth EXCEPT ![c] = a],
         request' = IF auth'[c] = "in" THEN [request EXCEPT ![c].at = "sent"] ELSE request,
         login' = login
  PROVE  RequestShaped' /\ InStep'
<1>1. auth'[c] = a /\ \A d \in Callers : d # c => auth'[d] = auth[d]
  BY DEF Inv, TokensTyped
<1>2. login = "in"
  BY DEF Inv, InStep
<1>3. CASE a = "in"
  <2>1. request' = [request EXCEPT ![c].at = "sent"]
    BY <1>1, <1>3
  <2>2. request'[c] = [at |-> "sent", to |-> request[c].to, passed |-> request[c].passed,
                       tried |-> request[c].tried]
    BY <2>1 DEF Inv, RequestShaped
  <2>3. \A d \in Callers : d # c => request'[d] = request[d]
    BY <2>1 DEF Inv, RequestShaped
  <2>4. request' = [d \in Callers |-> request'[d]]
    BY <2>1 DEF Inv, RequestShaped
  <2> QED
    BY <1>1, <1>2, <1>3, <2>2, <2>3, <2>4 DEF Inv, RequestShaped, InStep, Busy, Locked
<1>4. CASE a # "in"
  BY <1>1, <1>2, <1>4 DEF Inv, RequestShaped, InStep, Busy, Locked, Stages
<1> QED
  BY <1>3, <1>4

LEMMA AuthorizedHeld ==
  ASSUME Inv, NEW c \in Callers, NEW creds \in CredsSet, Authorized(c, creds)
  PROVE  /\ auth' = [auth EXCEPT ![c] = "in"]
         /\ held' \in [Callers -> CredsSet]
         /\ \A d \in Callers : d # c => held'[d] = held[d]
<1>1. [creds EXCEPT !.access = key] \in CredsSet
  BY DEF Inv, TokensTyped, CredsSet
<1> QED
  BY <1>1 DEF Inv, TokensTyped, Authorized

\* A step of auth() with which nobody enters or leaves the section in which
\* the file is written: nothing that Kept speaks of changes but for the others.
LEMMA LoadStep ==
  ASSUME Inv, NEW c \in Callers, Load(c)
  PROVE  TokensTyped' /\ Alone' /\ (~mishap' => Kept')
         /\ \E a \in Stages \ {"out"} : auth' = [auth EXCEPT ![c] = a]
<1> USE DEF server, start
<1>1. UNCHANGED <<start, file, mutex, expiring, server, mishap>> /\ auth[c] = "load"
  BY DEF Load
<1>2. held' \in [Callers -> CredsSet] /\ (\A d \in Callers : d # c => held'[d] = held[d])
      /\ \E a \in {"in", "lock"} : auth' = [auth EXCEPT ![c] = a]
  BY AuthorizedHeld DEF Load, Inv, TokensTyped
<1>3. PICK a \in {"in", "lock"} : auth' = [auth EXCEPT ![c] = a]
  BY <1>2
<1>4. TokensTyped' /\ a \in Stages \ {"out"}
  BY <1>1, <1>2, <1>3 DEF Inv, TokensTyped, Stages
<1>5. auth'[c] = a /\ \A d \in Callers : d # c => auth'[d] = auth[d]
  BY <1>3 DEF Inv, TokensTyped
<1>6. Alone'
  BY <1>1, <1>5 DEF Inv, Alone, Locked
<1>7. ~mishap => Kept'
  BY <1>1, <1>2, <1>5 DEF Inv, Kept, BeforeLogin, Usable, AtPost, AtSave, Current
<1> QED
  BY <1>1, <1>3, <1>4, <1>6, <1>7

LEMMA LockStep ==
  ASSUME Inv, NEW c \in Callers, Lock(c)
  PROVE  TokensTyped' /\ Alone' /\ (~mishap' => Kept')
         /\ \E a \in Stages \ {"out"} : auth' = [auth EXCEPT ![c] = a]
<1> USE DEF server, start, Lock
<1>1. TokensTyped'
  BY DEF Inv, TokensTyped, Stages
<1>2. auth'[c] = "reload" /\ \A d \in Callers : d # c => auth'[d] = auth[d]
  BY DEF Inv, TokensTyped
<1>3. Alone'
  BY <1>2, TokensAssumption DEF Inv, Alone, Locked
<1>4. ~mishap => Kept'
  BY <1>2 DEF Inv, Kept, BeforeLogin, Usable, AtPost, AtSave, Current
<1> QED
  BY <1>1, <1>3, <1>4 DEF Stages

\* What has been read under the lock is what is posted.
LEMMA ReloadStep ==
  ASSUME Inv, NEW c \in Callers, Reload(c)
  PROVE  TokensTyped' /\ Alone' /\ (~mishap' => Kept')
         /\ \E a \in Stages \ {"out"} : auth' = [auth EXCEPT ![c] = a]
<1> USE DEF server, start
<1>1. UNCHANGED <<start, file, expiring, server, mishap>> /\ auth[c] = "reload" /\ mutex = c
  BY DEF Reload, Inv, Alone, Locked
<1>2. file \in CredsSet /\ held \in [Callers -> CredsSet] /\ auth \in [Callers -> Stages]
  BY DEF Inv, TokensTyped
<1>3. CASE Authorized(c, file) /\ mutex' = NoCaller
  <2>1. auth' = [auth EXCEPT ![c] = "in"] /\ held' \in [Callers -> CredsSet]
        /\ \A d \in Callers : d # c => held'[d] = held[d]
    BY <1>2, <1>3, AuthorizedHeld
  <2>2. auth'[c] = "in" /\ \A d \in Callers : d # c => auth'[d] = auth[d]
    BY <1>2, <2>1
  <2>3. TokensTyped'
    BY <1>1, <1>3, <2>1 DEF Inv, TokensTyped, Stages
  <2>4. Alone'
    BY <1>1, <1>3, <2>2, TokensAssumption DEF Inv, Alone, Locked
  <2>5. ~mishap => Kept'
    BY <1>1, <2>1, <2>2 DEF Inv, Kept, BeforeLogin, Usable, AtPost, AtSave, Current
  <2> QED
    BY <1>1, <2>1, <2>3, <2>4, <2>5 DEF Stages
<1>4. CASE auth' = [auth EXCEPT ![c] = "post"] /\ held' = [held EXCEPT ![c] = file] /\ UNCHANGED mutex
  <2>1. held'[c] = file /\ \A d \in Callers : d # c => held'[d] = held[d]
    BY <1>2, <1>4
  <2>2. auth'[c] = "post" /\ \A d \in Callers : d # c => auth'[d] = auth[d]
    BY <1>2, <1>4
  <2>3. TokensTyped'
    BY <1>1, <1>2, <1>4 DEF Inv, TokensTyped, Stages
  <2>4. Alone'
    BY <1>1, <1>4, <2>2 DEF Inv, Alone, Locked
  <2>5. ~mishap => Kept'
    BY <1>1, <2>1, <2>2 DEF Inv, Kept, BeforeLogin, Usable, AtPost, AtSave, Current
  <2> QED
    BY <1>1, <1>4, <2>3, <2>4, <2>5 DEF Stages
<1> QED
  BY <1>3, <1>4 DEF Reload

\* The server takes what was read under the lock, and nobody else is there.
LEMMA RefreshStep ==
  ASSUME Inv, NEW c \in Callers, Refresh(c)
  PROVE  TokensTyped' /\ Alone' /\ (~mishap' => Kept')
         /\ \E a \in Stages \ {"out"} : auth' = [auth EXCEPT ![c] = a]
<1> USE DEF server, start
<1>1. UNCHANGED <<start, file, mutex, expiring, reused, mishap>> /\ auth[c] = "post" /\ mutex = c
      /\ held[c].refresh = valid /\ auth' = [auth EXCEPT ![c] = "save"]
  BY DEF Refresh, Inv, Alone, Locked
<1>2. file \in CredsSet /\ held \in [Callers -> CredsSet] /\ auth \in [Callers -> Stages]
      /\ issued \in Nat /\ valid \in Nat /\ known \in BOOLEAN
  BY DEF Inv, TokensTyped
<1>3. PICK creds \in Issued : Issue(creds) /\ held' = [held EXCEPT ![c] = Merged(held[c], creds)]
  BY DEF Refresh
<1>4. creds \in CredsSet
  BY <1>2 DEF Issued, CredsSet
<1>5. Merged(held[c], creds) \in CredsSet
  BY <1>2, <1>4 DEF Merged, Creds, CredsSet
<1>6. issued' \in Nat /\ valid' \in Nat /\ known' \in BOOLEAN
  BY <1>2, <1>3, <1>4 DEF Issue, CredsSet
<1>7. held'[c] = Merged(held[c], creds) /\ held' \in [Callers -> CredsSet]
      /\ \A d \in Callers : d # c => held'[d] = held[d]
  BY <1>2, <1>3, <1>5
<1>8. auth'[c] = "save" /\ \A d \in Callers : d # c => auth'[d] = auth[d]
  BY <1>1, <1>2
<1>9. TokensTyped'
  BY <1>1, <1>2, <1>6, <1>7 DEF Inv, TokensTyped, Stages
<1>10. Alone'
  BY <1>1, <1>8 DEF Inv, Alone, Locked
<1>11. ASSUME ~mishap PROVE Kept'
  <2>1. \A d \in Callers : d # c => auth[d] \notin Locked
    BY <1>1 DEF Inv, Alone
  <2>2. login = "in" /\ Kept /\ \A d \in Callers : auth[d] # "save"
    BY <1>1, <1>11, <2>1 DEF Inv, InStep, Locked
  <2>3. held[c] = file /\ file.refresh # 0 /\ (known => file.account)
    BY <1>1, <2>2 DEF Kept, AtPost, Usable, Current
  <2>4. held'[c].refresh = valid' /\ held'[c].refresh # 0 /\ (known' => held'[c].account)
    BY <1>1, <1>2, <1>3, <1>4, <1>7, <2>3 DEF Merged, Creds, Issue, CredsSet
  <2>5. AtPost' /\ AtSave'
    BY <1>8, <2>1, <2>4 DEF AtPost, AtSave, Locked
  <2>6. BeforeLogin' /\ Usable' /\ Current' /\ reused' = {}
    BY <1>1, <1>8, <2>2 DEF Kept, BeforeLogin, Usable, Current
  <2> QED
    BY <2>5, <2>6 DEF Kept
<1> QED
  BY <1>1, <1>9, <1>10, <1>11 DEF Stages

\* The server may have spent the token posted: then a mishap is on record.
LEMMA RefreshFailsStep ==
  ASSUME Inv, NEW c \in Callers, RefreshFails(c)
  PROVE  TokensTyped' /\ Alone' /\ (~mishap' => Kept')
         /\ \E a \in Stages \ {"out"} : auth' = [auth EXCEPT ![c] = a]
<1> USE DEF server, start
<1>1. UNCHANGED <<start, file, expiring>> /\ auth[c] = "post" /\ mutex = c /\ mutex' = NoCaller
      /\ Authorized(c, held[c]) /\ Posted(c)
  BY DEF RefreshFails, Inv, Alone, Locked
<1>2. file \in CredsSet /\ held \in [Callers -> CredsSet] /\ auth \in [Callers -> Stages]
      /\ issued \in Nat /\ valid \in Nat /\ known \in BOOLEAN /\ mishap \in BOOLEAN
  BY DEF Inv, TokensTyped
<1>3. UNCHANGED <<issued, valid, known, mishap>>
      \/ (mishap' = TRUE /\ \E creds \in Issued : Issue(creds))
  BY DEF RefreshFails
<1>4. issued' \in Nat /\ valid' \in Nat /\ known' \in BOOLEAN /\ mishap' \in BOOLEAN
  <2>1. CASE UNCHANGED <<issued, valid, known, mishap>>
    BY <1>2, <2>1
  <2>2. ASSUME NEW creds \in Issued, Issue(creds), mishap' = TRUE
        PROVE  issued' \in Nat /\ valid' \in Nat /\ known' \in BOOLEAN /\ mishap' \in BOOLEAN
    <3>1. creds \in CredsSet
      BY <1>2 DEF Issued, CredsSet
    <3> QED
      BY <1>2, <2>2, <3>1 DEF Issue, CredsSet
  <2> QED
    BY <1>3, <2>1, <2>2
<1>5. auth' = [auth EXCEPT ![c] = "in"] /\ held' \in [Callers -> CredsSet]
      /\ \A d \in Callers : d # c => held'[d] = held[d]
  BY <1>1, <1>2, AuthorizedHeld
<1>6. auth'[c] = "in" /\ \A d \in Callers : d # c => auth'[d] = auth[d]
  BY <1>2, <1>5
<1>7. TokensTyped'
  BY <1>1, <1>2, <1>4, <1>5 DEF Inv, TokensTyped, Stages
<1>8. Alone'
  BY <1>1, <1>6, TokensAssumption DEF Inv, Alone, Locked
<1>9. ASSUME ~mishap' PROVE Kept'
  <2>1. UNCHANGED <<issued, valid, known, mishap>> /\ Kept
    BY <1>3, <1>9 DEF Inv
  <2>2. \A d \in Callers : d # c => auth[d] \notin Locked
    BY <1>1 DEF Inv, Alone
  <2>3. login = "in" /\ \A d \in Callers : auth[d] # "save"
    BY <1>1, <2>2 DEF Inv, InStep, Locked
  <2>4. held[c].refresh = valid
    BY <1>1, <2>1, <2>3 DEF Kept, AtPost, Current
  <2>5. reused' = {}
    BY <1>1, <1>2, <2>1, <2>4 DEF Posted, Kept
  <2> QED
    BY <1>1, <1>6, <2>1, <2>2, <2>3, <2>5
       DEF Kept, BeforeLogin, Usable, AtPost, AtSave, Current, Locked
<1> QED
  BY <1>5, <1>7, <1>8, <1>9 DEF Stages

\* What the server takes is on file again before the lock is free.
LEMMA SaveStep ==
  ASSUME Inv, NEW c \in Callers, Save(c)
  PROVE  TokensTyped' /\ Alone' /\ (~mishap' => Kept')
         /\ \E a \in Stages \ {"out"} : auth' = [auth EXCEPT ![c] = a]
<1> USE DEF server, start
<1>1. UNCHANGED <<start, expiring, server>> /\ auth[c] = "save" /\ mutex = c /\ mutex' = NoCaller
      /\ Authorized(c, held[c])
      /\ ((file' = held[c] /\ UNCHANGED mishap) \/ (mishap' = TRUE /\ UNCHANGED file))
  BY DEF Save, Inv, Alone, Locked
<1>2. file \in CredsSet /\ held \in [Callers -> CredsSet] /\ auth \in [Callers -> Stages]
  BY DEF Inv, TokensTyped
<1>3. auth' = [auth EXCEPT ![c] = "in"] /\ held' \in [Callers -> CredsSet]
      /\ \A d \in Callers : d # c => held'[d] = held[d]
  BY <1>1, <1>2, AuthorizedHeld
<1>4. auth'[c] = "in" /\ \A d \in Callers : d # c => auth'[d] = auth[d]
  BY <1>2, <1>3
<1>5. TokensTyped'
  BY <1>1, <1>2, <1>3 DEF Inv, TokensTyped, Stages
<1>6. Alone'
  BY <1>1, <1>4, TokensAssumption DEF Inv, Alone, Locked
<1>7. ASSUME ~mishap' PROVE Kept'
  <2>1. file' = held[c] /\ Kept
    BY <1>1, <1>7 DEF Inv
  <2>2. \A d \in Callers : d # c => auth[d] \notin Locked
    BY <1>1 DEF Inv, Alone
  <2>3. login = "in"
    BY <1>1 DEF Inv, InStep
  <2>4. file'.refresh = valid /\ file'.refresh # 0 /\ (known => file'.account)
    BY <1>1, <2>1 DEF Kept, AtSave
  <2> QED
    BY <1>1, <1>4, <2>1, <2>2, <2>3, <2>4
       DEF Kept, BeforeLogin, Usable, AtPost, AtSave, Current, Locked
<1> QED
  BY <1>3, <1>5, <1>6, <1>7 DEF Stages

LEMMA GetTokenStep == ASSUME Inv, NEW c \in Callers, GetToken(c) PROVE Inv'
<1>1. TokensTyped' /\ Alone' /\ (~mishap' => Kept')
      /\ \E a \in Stages \ {"out"} : auth' = [auth EXCEPT ![c] = a]
  BY LoadStep, LockStep, ReloadStep, RefreshStep, RefreshFailsStep, SaveStep
     DEF GetToken, Authorize
<1>2. PICK a \in Stages \ {"out"} : auth' = [auth EXCEPT ![c] = a]
  BY <1>1
<1>3. login' = login
  BY DEF GetToken, Authorize, Load, Lock, Reload, Refresh, RefreshFails, Save, start
<1>4. request[c].at = "auth"
      /\ request' = IF auth'[c] = "in" THEN [request EXCEPT ![c].at = "sent"] ELSE request
  BY DEF GetToken
<1>5. RequestShaped' /\ InStep'
  BY <1>2, <1>3, <1>4, StageStep
<1> QED
  BY <1>1, <1>5 DEF Inv

\* A scoring touches neither.
LEMMA ScoreStep == ASSUME Inv, NEW i \in 1..MaxScores, Score(i) PROVE Inv'
<1>1. UNCHANGED <<tokenVars, request>>
  BY DEF Score, ScoreArrives, NoScore, ReadStats, Install
<1> QED
  BY <1>1, QuietStep

-----------------------------------------------------------------------------
LEMMA NextStep == Inv /\ [Next]_vars => Inv'
<1> SUFFICES ASSUME Inv, [Next]_vars PROVE Inv'
  OBVIOUS
<1>1. CASE UNCHANGED vars
  BY <1>1, QuietStep DEF vars, routeVars
<1>2. CASE LogIn /\ UNCHANGED routeVars
  BY <1>2, LogInStep DEF routeVars
<1>3. CASE Age /\ UNCHANGED routeVars
  BY <1>3, AgeStep DEF routeVars
<1>4. ASSUME NEW c \in Callers, Request(c) PROVE Inv'
  BY <1>4, AskStep, GetTokenStep, FailsStep, AnswersStep, ReturnStep DEF Request
<1>5. ASSUME NEW i \in 1..MaxScores, Score(i) PROVE Inv'
  BY <1>5, ScoreStep
<1> QED
  BY <1>1, <1>2, <1>3, <1>4, <1>5 DEF Next

\* Whoever is between Lock and Save (openai_oauth.go:98-136) is alone there
\* and has the credentials of the file in hand.
THEOREM LockProtects == Spec => []Inv
<1>1. Init => Inv
  BY InitInv
<1>2. Inv /\ [Next]_vars => Inv'
  BY NextStep
<1> QED
  BY <1>1, <1>2, PTL DEF Spec

\* However many requests find their token about to expire at once, none posts
\* a refresh token that has been replaced, unless an answer of the server was
\* lost or could not be stored (openai_oauth.go:98-100).
THEOREM RefreshSpentOnce == Spec => []RefreshedOnce
<1>1. Inv => RefreshedOnce
  BY DEF Inv, Kept, RefreshedOnce
<1> QED
  BY <1>1, LockProtects, PTL

\* Whatever the answers to a refresh leave out (openai_oauth.go:130), what is
\* stored can be refreshed, and keeps the account.
THEOREM CredentialsStay == Spec => []CredentialsKept
<1>1. Inv => CredentialsKept
  <2> SUFFICES ASSUME Inv, ~mishap, file # NoCreds
               PROVE  file.refresh # 0 /\ (known /\ mutex = NoCaller => file.account)
    BY DEF CredentialsKept
  <2>1. login = "in" /\ file.refresh # 0
    BY DEF Inv, Kept, BeforeLogin, Usable
  <2>2. mutex = NoCaller => \A c \in Callers : auth[c] # "save"
    BY TokensAssumption DEF Inv, Alone, Locked
  <2> QED
    BY <2>1, <2>2 DEF Inv, Kept, Current
<1> QED
  BY <1>1, LockProtects, PTL

-----------------------------------------------------------------------------
(* The fallback chain: what a request has asked is the provider picked and   *)
(* the registered ones of the chain up to the place it has come to.          *)

chain == setup.fallback

Chained(r, order) ==
  /\ r.tried \in Seq(Providers) /\ (r.at = "idle" <=> r.tried = <<>>)
  /\ r.passed \in 0..Len(order)
  /\ \A i \in 1..r.passed :
       order[i] \in Providers => \E k \in 1..Len(r.tried) : r.tried[k] = order[i]
  /\ \A k \in 2..Len(r.tried) :
       r.tried[k] # r.tried[1] /\ \E i \in 1..r.passed : r.tried[k] = order[i]
  /\ IsInjective(order) =>
       \A k, l \in 1..Len(r.tried) : r.tried[k] = r.tried[l] => k = l
  /\ r.at = "failed" =>
       \A i \in (r.passed + 1)..Len(order) : order[i] \in Providers => order[i] = r.tried[1]

ChainInv == setup \in Setups /\ \A c \in Callers : Chained(request[c], chain)

LEMMA ChainIsSequence ==
  setup \in Setups => Len(chain) \in Nat /\ DOMAIN chain = 1..Len(chain)
  BY RoutingAssumption DEF chain

\* A request that is nowhere yet, and one that has asked its first provider.
LEMMA NotAsked == setup \in Setups => Chained(NoRequest, chain)
  BY ChainIsSequence DEF Chained, NoRequest

LEMMA AskedOnce ==
  ASSUME setup \in Setups, NEW p \in Providers, NEW r,
         r.tried = <<p>>, r.passed = 0, r.at \in {"auth", "sent"}
  PROVE  Chained(r, chain)
  BY ChainIsSequence DEF Chained

LEMMA ChainInit == Init => ChainInv
  BY NotAsked DEF Init, ChainInv

\* What is said of a request says nothing of the others.
LEMMA OtherChains ==
  ASSUME ChainInv, UNCHANGED setup, NEW c \in Callers, Chained(request[c], chain)',
         \A d \in Callers : d # c => request'[d] = request[d]
  PROVE  ChainInv'
<1>1. ASSUME NEW d \in Callers, d # c PROVE Chained(request[d], chain)'
  BY <1>1 DEF ChainInv, chain
<1> QED
  BY <1>1 DEF ChainInv, chain

\* A request that goes on at the place it is at.
LEMMA SamePlace ==
  ASSUME ChainInv, RequestShaped, UNCHANGED setup, NEW c \in Callers, request[c].at # "idle",
         NEW at, at \notin {"idle", "failed"} \/ (at = "failed" /\ Fallback(request[c]) = {}),
         request' = [request EXCEPT ![c].at = at]
  PROVE  ChainInv'
<1>1. request'[c] = [at |-> at, to |-> request[c].to, passed |-> request[c].passed,
                     tried |-> request[c].tried]
      /\ \A d \in Callers : d # c => request'[d] = request[d]
  BY DEF RequestShaped
<1>2. Chained(request[c], chain)'
  BY <1>1 DEF ChainInv, Chained, chain, Fallback
<1> QED
  BY <1>1, <1>2, OtherChains

\* The provider picked is asked first.
LEMMA AskChain ==
  ASSUME ChainInv, RequestShaped, NEW c \in Callers, Ask(c)
  PROVE  ChainInv'
<1>1. PICK p \in Picks : SendTo(c, p, 0)
  BY DEF Ask
<1>2. p \in Providers /\ request[c].tried = <<>> /\ UNCHANGED setup
  BY RoutingAssumption DEF Picks, Ask, ChainInv, Chained
<1>3. /\ request'[c].tried = Append(<<>>, p) /\ request'[c].passed = 0
      /\ request'[c].at \in {"auth", "sent"}
      /\ \A d \in Callers : d # c => request'[d] = request[d]
  BY <1>1, <1>2 DEF SendTo, RequestShaped
<1>4. Chained(request[c], chain)'
  <2>1. Append(<<>>, p) = <<p>>
    OBVIOUS
  <2> QED
    BY <1>2, <1>3, <2>1, AskedOnce DEF ChainInv, chain
<1> QED
  BY <1>2, <1>3, <1>4, OtherChains

\* The next one of the chain is asked.
LEMMA NextOfChain ==
  ASSUME ChainInv, RequestShaped, UNCHANGED setup, NEW c \in Callers, request[c].at = "sent",
         NEW i \in Fallback(request[c]), \A j \in Fallback(request[c]) : i <= j,
         SendTo(c, chain[i], i)
  PROVE  ChainInv'
<1> DEFINE r == request[c]
           n == Len(r.tried)
           tried == Append(r.tried, chain[i])
<1>0. Chained(r, chain) /\ setup \in Setups
  BY DEF ChainInv
<1>1. /\ n \in Nat \ {0} /\ r.tried \in Seq(Providers)
      /\ i \in (r.passed + 1)..Len(chain) /\ chain[i] \in Providers /\ chain[i] # r.tried[1]
      /\ Len(chain) \in Nat /\ DOMAIN chain = 1..Len(chain) /\ r.passed \in Nat
  <2>1. r.tried \in Seq(Providers) /\ r.tried # <<>> /\ r.passed \in 0..Len(chain)
    BY <1>0 DEF Chained
  <2>2. Len(chain) \in Nat /\ DOMAIN chain = 1..Len(chain)
    BY <1>0, ChainIsSequence
  <2>3. i \in (r.passed + 1)..Len(chain) /\ chain[i] \in Providers /\ chain[i] # r.tried[1]
    BY DEF Fallback, chain
  <2> QED
    BY <2>1, <2>2, <2>3
<1>2. \A j \in (r.passed + 1)..(i - 1) : chain[j] \in Providers => chain[j] = r.tried[1]
  BY <1>1 DEF Fallback, chain
<1>3. /\ tried \in Seq(Providers) /\ Len(tried) = n + 1 /\ tried[n + 1] = chain[i]
      /\ \A k \in 1..n : tried[k] = r.tried[k]
  BY <1>1
<1>4. /\ request'[c].tried = tried /\ request'[c].passed = i /\ request'[c].at \in {"auth", "sent"}
      /\ \A d \in Callers : d # c => request'[d] = request[d]
  BY DEF SendTo, RequestShaped
<1> HIDE DEF tried, n
<1>5. \A j \in 1..i : chain[j] \in Providers => \E k \in 1..(n + 1) : tried[k] = chain[j]
  <2> SUFFICES ASSUME NEW j \in 1..i, chain[j] \in Providers
               PROVE  \E k \in 1..(n + 1) : tried[k] = chain[j]
    OBVIOUS
  <2>1. CASE j = i
    BY <1>1, <1>3, <2>1
  <2>2. CASE j \in (r.passed + 1)..(i - 1)
    BY <1>1, <1>2, <1>3, <2>2
  <2>3. CASE j \in 1..r.passed
    <3>1. PICK k \in 1..n : r.tried[k] = chain[j]
      BY <1>0, <1>1, <2>3 DEF Chained, n
    <3> QED
      BY <1>1, <1>3, <3>1
  <2> QED
    BY <1>1, <2>1, <2>2, <2>3
<1>6. \A k \in 2..(n + 1) : tried[k] # tried[1] /\ \E j \in 1..i : tried[k] = chain[j]
  <2> SUFFICES ASSUME NEW k \in 2..(n + 1)
               PROVE  tried[k] # tried[1] /\ \E j \in 1..i : tried[k] = chain[j]
    OBVIOUS
  <2>1. CASE k = n + 1
    BY <1>1, <1>3, <2>1
  <2>2. CASE k \in 2..n
    <3>1. r.tried[k] # r.tried[1] /\ \E j \in 1..r.passed : r.tried[k] = chain[j]
      BY <1>0, <1>1, <2>2 DEF Chained, n
    <3> QED
      BY <1>1, <1>3, <2>2, <3>1
  <2> QED
    BY <1>1, <2>1, <2>2
<1>7. ASSUME IsInjective(chain), NEW k \in 1..(n + 1), NEW l \in 1..(n + 1), tried[k] = tried[l]
      PROVE  k = l
  <2>1. ASSUME NEW m \in 1..n PROVE r.tried[m] # chain[i]
    <3>1. CASE m = 1
      BY <1>1, <3>1
    <3>2. CASE m \in 2..n
      <4>1. PICK j \in 1..r.passed : r.tried[m] = chain[j]
        BY <1>0, <1>1, <3>2 DEF Chained, n
      <4> QED
        BY <1>1, <1>7, <4>1 DEF IsInjective
    <3> QED
      BY <1>1, <3>1, <3>2
  <2>2. \A m, o \in 1..n : r.tried[m] = r.tried[o] => m = o
    BY <1>0, <1>1, <1>7 DEF Chained, n
  <2>3. CASE k \in 1..n /\ l \in 1..n
    BY <1>3, <1>7, <2>2, <2>3
  <2>4. CASE k \in 1..n /\ l = n + 1
    BY <1>3, <1>7, <2>1, <2>4
  <2>5. CASE k = n + 1 /\ l \in 1..n
    BY <1>3, <1>7, <2>1, <2>5
  <2> QED
    BY <1>1, <2>3, <2>4, <2>5
<1>8. Chained(request[c], chain)'
  <2>1. chain' = chain /\ request'[c].passed \in 0..Len(chain) /\ tried # <<>>
    BY <1>1, <1>3, <1>4 DEF chain
  <2> QED
    BY <1>3, <1>4, <1>5, <1>6, <1>7, <2>1 DEF Chained
<1> QED
  BY <1>4, <1>8, OtherChains

LEMMA ChainStep == ChainInv /\ RequestShaped /\ [Next]_vars => ChainInv'
<1> SUFFICES ASSUME ChainInv, RequestShaped, [Next]_vars PROVE ChainInv'
  OBVIOUS
<1>1. CASE UNCHANGED <<setup, request>>
  BY <1>1 DEF ChainInv, Chained, chain, Fallback
<1>2. CASE UNCHANGED vars \/ (LogIn /\ UNCHANGED routeVars) \/ (Age /\ UNCHANGED routeVars)
  BY <1>1, <1>2 DEF vars, routeVars
<1>3. ASSUME NEW i \in 1..MaxScores, Score(i) PROVE ChainInv'
  BY <1>1, <1>3 DEF Score, ScoreArrives, NoScore, ReadStats, Install
<1>4. ASSUME NEW c \in Callers, Ask(c) PROVE ChainInv'
  BY <1>4, AskChain
<1>5. ASSUME NEW c \in Callers, GetToken(c) PROVE ChainInv'
  <2>1. request[c].at # "idle" /\ UNCHANGED setup
    BY <1>5 DEF GetToken
  <2> QED
    BY <1>1, <1>5, <2>1, SamePlace DEF GetToken
<1>6. ASSUME NEW c \in Callers, Fails(c) PROVE ChainInv'
  <2>1. request[c].at = "sent" /\ UNCHANGED setup
    BY <1>6 DEF Fails
  <2> QED
    BY <1>6, <2>1, NextOfChain, SamePlace DEF Fails, chain
<1>7. ASSUME NEW c \in Callers, Answers(c) PROVE ChainInv'
  BY <1>7, SamePlace DEF Answers
<1>8. ASSUME NEW c \in Callers, Return(c) PROVE ChainInv'
  <2>1. UNCHANGED setup /\ \A d \in Callers : request'[d] = IF d = c THEN NoRequest ELSE request[d]
    BY <1>8 DEF Return, RequestShaped
  <2>2. Chained(request[c], chain)'
    BY <2>1, NotAsked DEF ChainInv, chain
  <2> QED
    BY <2>1, <2>2, OtherChains
<1> QED
  BY <1>1, <1>2, <1>3, <1>4, <1>5, <1>6, <1>7, <1>8 DEF Next, Request

\* However long the chain is and whatever it names, a request fails only when
\* everything registered of it was asked (provider.go:140-161).
THEOREM ChainExhausted == Spec => []FailedAfterAll
<1>1. Inv => RequestShaped
  BY DEF Inv
<1>2. ChainInv => FailedAfterAll
  <2> SUFFICES ASSUME ChainInv, NEW c \in Callers
               PROVE  LET r == request[c]
                      IN /\ IsInjective(chain) => IsInjective(r.tried)
                         /\ r.at = "failed" => Range(chain) \cap Providers \subseteq Range(r.tried)
    BY DEF FailedAfterAll, chain
  <2> DEFINE r == request[c]
  <2>0. Chained(r, chain) /\ r.tried \in Seq(Providers)
    BY DEF ChainInv, Chained
  <2>1. /\ DOMAIN r.tried = 1..Len(r.tried) /\ Len(r.tried) \in Nat
        /\ DOMAIN chain = 1..Len(chain) /\ Len(chain) \in Nat
    BY <2>0, ChainIsSequence DEF ChainInv
  <2>2. ASSUME IsInjective(chain) PROVE IsInjective(r.tried)
    BY <2>0, <2>1, <2>2 DEF Chained, IsInjective
  <2>3. ASSUME r.at = "failed", NEW i \in 1..Len(chain), chain[i] \in Providers
        PROVE  \E k \in 1..Len(r.tried) : r.tried[k] = chain[i]
    <3>1. CASE i \in 1..r.passed
      BY <2>0, <2>1, <2>3, <3>1 DEF Chained
    <3>2. CASE i \in (r.passed + 1)..Len(chain)
      <4>1. chain[i] = r.tried[1]
        BY <2>0, <2>1, <2>3, <3>2 DEF Chained, Fallback, chain
      <4>2. 1 \in 1..Len(r.tried)
        BY <2>0, <2>1, <2>3 DEF Chained
      <4> QED
        BY <4>1, <4>2
    <3> QED
      BY <2>0, <2>1, <3>1, <3>2 DEF Chained
  <2> QED
    BY <2>0, <2>1, <2>2, <2>3 DEF Range
<1> QED
  BY <1>1, <1>2, ChainInit, ChainStep, LockProtects, PTL DEF Spec

-----------------------------------------------------------------------------
(* The scores: nobody changes them between ReadStats and Install.            *)

ScorerInv ==
  /\ scorer = [i \in 1..MaxScores |-> scorer[i]]
  /\ \A i \in 1..MaxScores :
       /\ scorer[i] = [at |-> scorer[i].at, of |-> scorer[i].of, learned |-> scorer[i].learned]
       /\ scorer[i].at = "install" => scorer[i].learned = Learned

LEMMA LearnedFollows == UNCHANGED stats => UNCHANGED Learned
  BY DEF Learned, Scored, Above, Worst

LEMMA FreeShaped ==
  Free = [at |-> Free.at, of |-> Free.of, learned |-> Free.learned] /\ Free.at = "free"
  BY DEF Free

\* What an update of a place of scoreSem leaves there.
LEMMA AskShape ==
  ASSUME NEW at, NEW of, NEW learned, NEW a, NEW b,
         NEW p, p = [at |-> at, of |-> of, learned |-> learned],
         NEW q, q = [p EXCEPT !.at = a, !.of = b]
  PROVE  q = [at |-> a, of |-> b, learned |-> learned]
  OBVIOUS

LEMMA InstallShape ==
  ASSUME NEW at, NEW of, NEW learned, NEW a, NEW b,
         NEW p, p = [at |-> at, of |-> of, learned |-> learned],
         NEW q, q = [p EXCEPT !.at = a, !.learned = b]
  PROVE  q = [at |-> a, of |-> of, learned |-> b]
  OBVIOUS

LEMMA ScorerInit == Init => ScorerInv
  BY FreeShaped DEF Init, ScorerInv

LEMMA PlaceStep ==
  ASSUME ScorerInv, NEW i \in 1..MaxScores, NEW q,
         q = [at |-> q.at, of |-> q.of, learned |-> q.learned],
         q.at = "install" => q.learned = Learned,
         scorer' = [scorer EXCEPT ![i] = q], UNCHANGED stats
  PROVE  ScorerInv'
  BY LearnedFollows DEF ScorerInv

LEMMA ScorerStep == ScorerInv /\ [Next]_vars => ScorerInv'
<1> SUFFICES ASSUME ScorerInv, [Next]_vars PROVE ScorerInv'
  OBVIOUS
<1>1. CASE UNCHANGED <<scorer, stats>>
  BY <1>1, LearnedFollows DEF ScorerInv
<1>2. CASE UNCHANGED vars \/ (LogIn /\ UNCHANGED routeVars) \/ (Age /\ UNCHANGED routeVars)
  BY <1>1, <1>2 DEF vars, routeVars, ledger
<1>3. ASSUME NEW c \in Callers, Request(c) PROVE ScorerInv'
  <2>1. CASE Answers(c)
    <3>1. UNCHANGED stats /\ ScoreAsync(c)
      BY <2>1 DEF Answers, ledger
    <3>2. CASE UNCHANGED scorer
      BY <1>1, <3>1, <3>2
    <3>3. CASE ~ UNCHANGED scorer
      <4> DEFINE free == {i \in 1..MaxScores : scorer[i].at = "free"}
                 i == CHOOSE k \in free : \A j \in free : k <= j
                 q == [Free EXCEPT !.at = "ask", !.of = Attributed(c)]
      <4>1. scorer' = [scorer EXCEPT ![i] = q]
        BY <3>1, <3>3 DEF ScoreAsync
      <4> HIDE DEF i
      <4>2. q = [at |-> "ask", of |-> Attributed(c), learned |-> NoWeights]
        <5>1. Free = [at |-> "free", of |-> Active, learned |-> NoWeights]
          BY DEF Free
        <5>2. q = [Free EXCEPT !.at = "ask", !.of = Attributed(c)]
          OBVIOUS
        <5> HIDE DEF q
        <5> QED
          BY <5>1, <5>2, AskShape
      <4> HIDE DEF q
      <4>3. CASE i \in 1..MaxScores
        <5>1. q = [at |-> q.at, of |-> q.of, learned |-> q.learned] /\ q.at = "ask"
          BY <4>2
        <5> QED
          BY <3>1, <4>1, <4>3, <5>1, PlaceStep
      <4>4. CASE i \notin 1..MaxScores
        BY <1>1, <3>1, <4>1, <4>4 DEF ScorerInv
      <4> QED
        BY <4>3, <4>4
    <3> QED
      BY <3>2, <3>3
  <2>2. CASE Ask(c) \/ GetToken(c) \/ Fails(c) \/ Return(c)
    BY <1>1, <2>2 DEF Ask, GetToken, Fails, Return, ledger
  <2> QED
    BY <1>3, <2>1, <2>2 DEF Request
<1>4. ASSUME NEW i \in 1..MaxScores, ScoreArrives(i) PROVE ScorerInv'
  <2> DEFINE q == IF scored' % UpdateEvery = 0 THEN [scorer[i] EXCEPT !.at = "read"] ELSE Free
  <2>1. /\ scorer' = [scorer EXCEPT ![i] = q]
        /\ \A j \in 1..MaxScores : scorer[j].at # "install"
    BY <1>4 DEF ScoreArrives, Readers
  <2>2. q = [at |-> q.at, of |-> q.of, learned |-> q.learned] /\ q.at # "install"
    BY FreeShaped DEF ScorerInv
  <2> HIDE DEF q
  <2> QED
    BY <2>1, <2>2 DEF ScorerInv
<1>5. ASSUME NEW i \in 1..MaxScores, ReadStats(i) PROVE ScorerInv'
  <2> DEFINE q == IF Cardinality(Scored) < 2 THEN Free
                  ELSE [scorer[i] EXCEPT !.at = "install", !.learned = Learned]
  <2>1. scorer' = [scorer EXCEPT ![i] = q] /\ UNCHANGED stats
    BY <1>5 DEF ReadStats, ledger
  <2>2. q = [at |-> q.at, of |-> q.of, learned |-> q.learned]
        /\ (q.at = "install" => q.learned = Learned)
    <3>1. CASE q = Free
      BY <3>1, FreeShaped
    <3>2. CASE q = [scorer[i] EXCEPT !.at = "install", !.learned = Learned]
      <4>1. q = [at |-> "install", of |-> scorer[i].of, learned |-> Learned]
        <5>1. scorer[i] = [at |-> scorer[i].at, of |-> scorer[i].of, learned |-> scorer[i].learned]
          BY DEF ScorerInv
        <5> HIDE DEF q
        <5> QED
          BY <3>2, <5>1, InstallShape
      <4> QED
        BY <4>1
    <3> QED
      BY <3>1, <3>2
  <2> HIDE DEF q
  <2> QED
    BY <2>1, <2>2, PlaceStep
<1>6. ASSUME NEW i \in 1..MaxScores, NoScore(i) \/ Install(i) PROVE ScorerInv'
  BY <1>6, FreeShaped, PlaceStep DEF NoScore, Install, ledger
<1> QED
  BY <1>1, <1>2, <1>3, <1>4, <1>5, <1>6 DEF Next, Score

\* However many goroutines score at once, the weights put in place are those of
\* the scores of the moment (reward_router.go:186-239).
THEOREM WeightsFollow == Spec => WeightsFollowScores
<1>1. ScorerInv /\ [Next]_vars => [weights' # weights => weights' = Learned]_<<weights, stats>>
  <2> SUFFICES ASSUME ScorerInv, [Next]_vars, weights' # weights PROVE weights' = Learned
    OBVIOUS
  <2>1. PICK i \in 1..MaxScores : Install(i)
    BY DEF Next, vars, routeVars, Request, Ask, GetToken, Fails, Answers, Return, Score,
           ScoreArrives, NoScore, ReadStats
  <2> QED
    BY <2>1 DEF ScorerInv, Install
<1> QED
  BY <1>1, ScorerInit, ScorerStep, PTL DEF Spec, WeightsFollowScores

=============================================================================
