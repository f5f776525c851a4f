------------------------------- MODULE Tokens -------------------------------
(***************************************************************************)
(* "Sign in with ChatGPT" (openai_oauth.go, openai_chatgpt.go): the        *)
(* credentials are made by a login when the program starts                 *)
(* (cmd/main.go:191-230) and refreshed by the requests that use them.  The *)
(* server may hand out a new refresh token with each refresh and then      *)
(* refuses the old one.  Tokens are numbered in the order they are issued. *)
(***************************************************************************)
EXTENDS Naturals, Sequences

CONSTANTS
  Callers,     \* requests to the provider, of the agent and its sub-agents
  NoCaller,
  MaxIssued    \* bound: access tokens issued

ASSUME TokensAssumption == NoCaller \notin Callers /\ MaxIssued \in Nat \ {0}

VARIABLES
  login,       \* the login: "none", "bind", "callback", "paste", "exchange", "in" or "refused"
  file,        \* openai_auth.json
  key,         \* the token the program was started with
  mutex,       \* holder of openaiAuthMu
  auth,        \* per request: where its call of auth() is
  held,        \* per request: the credentials it has in hand
  issued,      \* access tokens issued
  expiring,    \* access tokens up to this one have no more than five minutes left
  valid,       \* the refresh token the server takes
  known,       \* the account has been named by the server
  reused,      \* refresh tokens posted after they had been replaced
  mishap       \* an answer of the server was lost, or a file not written

tokenVars == <<login, file, key, mutex, auth, held, issued, expiring, valid, known, reused, mishap>>
server == <<issued, valid, known, reused>>
start == <<login, key>>

\* Number 0 stands for a token that is missing.
Creds(access, refresh, account) == [access |-> access, refresh |-> refresh, account |-> account]
NoCreds == Creds(0, 0, FALSE)
Expiring(creds) == creds.access <= expiring

TokensInit ==
  /\ \/ file = NoCreds /\ key = 0 /\ login = "none"
     \/ file = Creds(1, 1, TRUE) /\ key = 1 /\ login = "in"      \* of an earlier login
  /\ mutex = NoCaller
  /\ auth = [c \in Callers |-> "out"]
  /\ held = [c \in Callers |-> NoCreds]
  /\ issued = key /\ valid = key /\ expiring = 0 /\ known = file.account
  /\ reused = {} /\ mishap = FALSE

\* Time passes until the tokens issued so far are about to expire.
Age ==
  /\ expiring < issued
  /\ expiring' = issued
  /\ UNCHANGED <<start, file, mutex, auth, held, server, mishap>>

-----------------------------------------------------------------------------
\* The token endpoint: an access token, a refresh token unless the old one
\* stays good, and an id token that need not name the account.
Issue(creds) ==
  /\ issued < MaxIssued
  /\ issued' = issued + 1
  /\ \/ /\ valid' = valid + 1 /\ creds.refresh = valid'
     \/ /\ valid > 0 /\ creds.refresh = 0 /\ UNCHANGED valid
  /\ creds.access = issued'
  /\ known' = (known \/ creds.account)

Issued == [access : {issued + 1}, refresh : {0, valid + 1}, account : BOOLEAN]

-----------------------------------------------------------------------------
\* The login.

Begin ==
  /\ login = "none"
  /\ login' \in {"bind", "paste"}         \* TORUS_OAUTH_HEADLESS
  /\ UNCHANGED <<file, key, mutex, auth, held, expiring, server, mishap>>

\* One of the two ports for the callback, or else the code is pasted.
Bind ==
  /\ login = "bind"
  /\ login' \in {"callback", "paste"}
  /\ UNCHANGED <<file, key, mutex, auth, held, expiring, server, mishap>>

\* A code that belongs to this login; otherwise, or after five minutes, the
\* program ends.
Callback ==
  /\ login = "callback"
  /\ login' \in {"exchange", "refused"}
  /\ UNCHANGED <<file, key, mutex, auth, held, expiring, server, mishap>>

\* A code without a state is taken as well.
Paste ==
  /\ login = "paste"
  /\ login' \in {"exchange", "refused"}
  /\ UNCHANGED <<file, key, mutex, auth, held, expiring, server, mishap>>

\* A login that cannot be stored lasts as long as the program does.
Exchange ==
  /\ login = "exchange"
  /\ \/ /\ \E creds \in Issued :
             /\ Issue(creds) /\ creds.refresh > 0
             /\ key' = creds.access
             /\ \/ file' = creds /\ UNCHANGED mishap
                \/ mishap' = TRUE /\ UNCHANGED file
        /\ login' = "in"
     \/ /\ login' = "refused" /\ UNCHANGED <<file, key, issued, valid, known, mishap>>
  /\ UNCHANGED <<mutex, auth, held, expiring, reused>>

LogIn == Begin \/ Bind \/ Callback \/ Paste \/ Exchange

-----------------------------------------------------------------------------
\* auth(): a request gets its token.

Authorized(c, creds) ==
  /\ held' = [held EXCEPT ![c] = IF creds.access = 0 THEN [creds EXCEPT !.access = key] ELSE creds]
  /\ auth' = [auth EXCEPT ![c] = "in"]

\* The credentials are loaded before any lock is taken.
Load(c) ==
  /\ auth[c] = "load"
  /\ \/ /\ ~Expiring(file) \/ file.refresh = 0
        /\ Authorized(c, file)
     \/ /\ Expiring(file) /\ file.refresh # 0
        /\ auth' = [auth EXCEPT ![c] = "lock"]
        /\ held' = [held EXCEPT ![c] = file]
  /\ UNCHANGED <<start, file, mutex, expiring, server, mishap>>

\* Mutant: what was loaded before the lock is used after it.
LockTrusting(c) ==
  /\ auth[c] = "lock" /\ mutex = NoCaller
  /\ mutex' = c
  /\ auth' = [auth EXCEPT ![c] = "post"]
  /\ UNCHANGED <<start, file, held, expiring, server, mishap>>

Lock(c) ==
  /\ auth[c] = "lock" /\ mutex = NoCaller
  /\ mutex' = c
  /\ auth' = [auth EXCEPT ![c] = "reload"]
  /\ UNCHANGED <<start, file, held, expiring, server, mishap>>

\* Somebody else may have refreshed them in the meantime.
Reload(c) ==
  /\ auth[c] = "reload"
  /\ \/ /\ ~Expiring(file) \/ file.refresh = 0
        /\ Authorized(c, file)
        /\ mutex' = NoCaller
     \/ /\ Expiring(file) /\ file.refresh # 0
        /\ auth' = [auth EXCEPT ![c] = "post"]
        /\ held' = [held EXCEPT ![c] = file]
        /\ UNCHANGED mutex
  /\ UNCHANGED <<start, file, expiring, server, mishap>>

\* What the answer omits is kept.  Mutant: it is not.
MergedAsSent(old, new) == new
Merged(old, new) ==
  Creds(new.access, IF new.refresh = 0 THEN old.refresh ELSE new.refresh, old.account \/ new.account)

Posted(c) == reused' = IF held[c].refresh < valid THEN reused \cup {held[c].refresh} ELSE reused

Refresh(c) ==
  /\ auth[c] = "post"
  /\ held[c].refresh = valid
  /\ \E creds \in Issued :
       /\ Issue(creds)
       /\ held' = [held EXCEPT ![c] = Merged(held[c], creds)]
  /\ auth' = [auth EXCEPT ![c] = "save"]
  /\ UNCHANGED <<start, file, mutex, expiring, reused, mishap>>

\* The refresh fails, or its answer is lost: the old token is used.  Mutant:
\* the lock is kept.
RefreshFailsLocked(c) ==
  /\ auth[c] = "post"
  /\ Posted(c) /\ auth' = [auth EXCEPT ![c] = "in"]
  /\ UNCHANGED <<start, file, mutex, held, expiring, issued, valid, known, mishap>>

RefreshFails(c) ==
  /\ auth[c] = "post"
  /\ Posted(c)
  /\ \/ UNCHANGED <<issued, valid, known, mishap>>
     \/ /\ held[c].refresh = valid
        /\ \E creds \in Issued : creds.refresh > 0 /\ Issue(creds)
        /\ mishap' = TRUE
  /\ Authorized(c, held[c])
  /\ mutex' = NoCaller
  /\ UNCHANGED <<start, file, expiring>>

\* The new credentials replace the file at once, or not at all.
Save(c) ==
  /\ auth[c] = "save"
  /\ \/ file' = held[c] /\ UNCHANGED mishap
     \/ mishap' = TRUE /\ UNCHANGED file
  /\ Authorized(c, held[c])
  /\ mutex' = NoCaller
  /\ UNCHANGED <<start, expiring, server>>

Authorize(c) == Load(c) \/ Lock(c) \/ Reload(c) \/ Refresh(c) \/ RefreshFails(c) \/ Save(c)

-----------------------------------------------------------------------------
TokensTypeOK ==
  /\ login \in {"none", "bind", "callback", "paste", "exchange", "in", "refused"}
  /\ auth \in [Callers -> {"out", "load", "lock", "reload", "post", "save", "in"}]
  /\ mutex \in Callers \cup {NoCaller}
  /\ {file} \cup {held[c] : c \in Callers}
       \subseteq [access : 0..MaxIssued, refresh : 0..MaxIssued, account : BOOLEAN]
  /\ \A c \in Callers : auth[c] \in {"reload", "post", "save"} <=> mutex = c

\* openai_oauth.go:98-100: requests in parallel do not each post the rotating
\* refresh token.  Unless an answer was lost or could not be stored, no
\* refresh token is posted once it has been replaced.
RefreshedOnce == ~mishap => reused = {}

\* "The refresh response may omit fields we already have" (openai_oauth.go:130):
\* stored credentials can always be refreshed, and keep the account once the
\* server has named it.
CredentialsKept ==
  ~mishap /\ file # NoCreds => file.refresh # 0 /\ (known /\ mutex = NoCaller => file.account)

=============================================================================
