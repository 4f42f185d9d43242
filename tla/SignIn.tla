-------------------------------- MODULE SignIn --------------------------------
(***************************************************************************)
(* Sign-in to the operator console.  One browser, with its tabs, holds two  *)
(* cookies: the transaction of the sign-in it last started and the session. *)
(* The middleware mounts login, callback and logout of the OIDC library,    *)
(* the proxy puts the access token of the session on requests to the API,   *)
(* and the API checks the token again.  Requests overlap: each carries the  *)
(* cookies the browser had when it was sent, and sets its own when its      *)
(* answer arrives.                                                          *)
(***************************************************************************)
EXTENDS Integers, FiniteSets

CONSTANTS
  AUTH_SESSION_SECONDS, AUTH_TRANSACTION_SECONDS, maxTokenAge, clockTolerance,
  Lifetimes,    \* lifetimes of access tokens the provider may be set to
  MaxAttempts,  \* bound: sign-ins started
  MaxTime,      \* bound: the clock
  MaxOpen,      \* bound: requests under way at a time
  None

VARIABLES
  now,
  txn,       \* transaction cookie: the attempt and when it was set
  session,   \* session cookie
  attempts,  \* sign-ins started
  started,   \* when each of them was, None before
  codes,     \* attempts whose authorization code was not exchanged yet
  open,      \* requests under way, with the cookies they were sent with
  had,       \* attempts that ever gave the browser a session
  accepted   \* the last request the API accepted: when, and on which token

vars == <<now, txn, session, attempts, started, codes, open, had, accepted>>

Attempts == 1..MaxAttempts

ASSUME SignInAssumption ==
  /\ MaxAttempts \in Nat /\ Lifetimes \subseteq Nat
  /\ AUTH_TRANSACTION_SECONDS \in Nat /\ maxTokenAge \in Nat /\ clockTolerance \in Nat
  /\ None \notin Nat
  /\ None \notin [attempt : Attempts, at : Nat, lifetime : Lifetimes,
                  claims : [mfa : BOOLEAN, provisioned : BOOLEAN]]

Init ==
  /\ now = 0 /\ txn = None /\ session = None /\ attempts = 0 /\ started = [a \in Attempts |-> None]
  /\ codes = {} /\ open = {} /\ had = {} /\ accepted = None

-----------------------------------------------------------------------------
(* Conditions                                                               *)

(* assertMfaIdentity and assertProvisionedIdentity on the claims.           *)
IdentityOf(claims) == claims.mfa /\ claims.provisioned

(* The state of the callback is that of the one transaction cookie.         *)
TransactionFits(cookie, a) ==
  cookie # None /\ cookie.attempt = a /\ now < cookie.at + AUTH_TRANSACTION_SECONDS

(* getSession, getAccessToken: not rolling, and no refresh token is kept.   *)
SessionLives(s) ==
  s # None /\ now < s.at + AUTH_SESSION_SECONDS /\ now < s.at + s.lifetime

(* Mutant of TokenVerifies: only the expiry the provider chose.             *)
TokenVerifiesByExp(s) == now < s.at + s.lifetime + clockTolerance

(* jwtVerify: exp and maxTokenAge, each with clockTolerance.                *)
TokenVerifies(s) ==
  /\ now < s.at + s.lifetime + clockTolerance
  /\ now - s.at <= maxTokenAge + clockTolerance

-----------------------------------------------------------------------------
(* Requests of the browser                                                  *)

Send(r) == Cardinality(open) < MaxOpen /\ open' = open \cup {r}
Done(r) == r \in open /\ open' = open \ {r}

(* GET /auth/login: a new transaction replaces the one before it.           *)
Login ==
  /\ attempts < MaxAttempts /\ attempts' = attempts + 1
  /\ Send([kind |-> "login", attempt |-> attempts + 1])
  /\ UNCHANGED <<now, txn, session, started, codes, had, accepted>>

(* The answer sets the cookie and leads to the provider.                    *)
LoginAnswered(r) ==
  /\ Done(r) /\ r.kind = "login"
  /\ txn' = [attempt |-> r.attempt, at |-> now] /\ codes' = codes \cup {r.attempt}
  /\ started' = [started EXCEPT ![r.attempt] = now]
  /\ UNCHANGED <<now, session, attempts, had, accepted>>

(* The provider sends a tab back, or a tab repeats the callback.            *)
Callback(a) ==
  /\ a <= attempts /\ Send([kind |-> "callback", attempt |-> a, cookie |-> txn])
  /\ UNCHANGED <<now, txn, session, attempts, started, codes, had, accepted>>

(* The code is exchanged once; beforeSessionSaved looks at the identity.    *)
SignedIn(r) ==
  /\ Done(r) /\ r.kind = "callback"
  /\ TransactionFits(r.cookie, r.attempt) /\ r.attempt \in codes
  /\ codes' = codes \ {r.attempt}
  /\ \E claims \in [mfa : BOOLEAN, provisioned : BOOLEAN], lifetime \in Lifetimes :
       /\ IdentityOf(claims)
       /\ session' = [attempt |-> r.attempt, at |-> now, lifetime |-> lifetime, claims |-> claims]
  /\ txn' = None /\ had' = had \cup {r.attempt}
  /\ UNCHANGED <<now, attempts, started, accepted>>

(* The transaction is refused, the provider or the identity fails: the      *)
(* middleware clears the transaction, preserving any existing session.      *)
CallbackFails(r) ==
  /\ Done(r) /\ r.kind = "callback"
  /\ txn' = None /\ codes' \in {codes, codes \ {r.attempt}}
  /\ UNCHANGED <<now, session, attempts, started, had, accepted>>

(* POST /auth/logout from the application itself.                           *)
Logout ==
  /\ Send([kind |-> "logout"])
  /\ UNCHANGED <<now, txn, session, attempts, started, codes, had, accepted>>

(* The cookie goes whether or not the provider's address is trusted.        *)
LogoutAnswered(r) ==
  /\ Done(r) /\ r.kind = "logout" /\ session' = None
  /\ UNCHANGED <<now, txn, attempts, started, codes, had, accepted>>

(* A request through the proxy, with the session it was sent with.          *)
Request ==
  /\ session # None /\ Send([kind |-> "request", cookie |-> session, forwarded |-> FALSE])
  /\ UNCHANGED <<now, txn, session, attempts, started, codes, had, accepted>>

Forward(r) ==
  /\ r.kind = "request" /\ ~r.forwarded /\ SessionLives(r.cookie)
  /\ open' = (open \ {r}) \cup {[r EXCEPT !.forwarded = TRUE]}
  /\ UNCHANGED <<now, txn, session, attempts, started, codes, had, accepted>>

(* AuthGuard and AuthService.verifyBearer of the API.                       *)
Accept(r) ==
  /\ Done(r) /\ r.kind = "request" /\ r.forwarded /\ TokenVerifies(r.cookie)
  /\ accepted' = [at |-> now, token |-> r.cookie]
  /\ UNCHANGED <<now, txn, session, attempts, started, codes, had>>

(* Mutant of Answered: every answer sets the session again.                 *)
AnsweredRolling(r) ==
  /\ Done(r) /\ r.kind = "request"
  /\ session' = IF SessionLives(r.cookie) THEN r.cookie ELSE session
  /\ UNCHANGED <<now, txn, attempts, started, codes, had, accepted>>

(* A request is refused, times out, or its answer sets no cookie.           *)
Answered(r) ==
  /\ Done(r) /\ r.kind = "request"
  /\ UNCHANGED <<now, txn, session, attempts, started, codes, had, accepted>>

(* Any answer may be lost with the cookies it would have set.               *)
Lost(r) ==
  /\ Done(r)
  /\ \/ UNCHANGED codes
     \/ r.kind = "callback" /\ codes' = codes \ {r.attempt}
  /\ UNCHANGED <<now, txn, session, attempts, started, had, accepted>>

(* Time passes, and the browser drops a cookie that is too old.             *)
Tick ==
  /\ now < MaxTime /\ now' = now + 1
  /\ txn' = IF txn # None /\ now' >= txn.at + AUTH_TRANSACTION_SECONDS THEN None ELSE txn
  /\ session' = IF session # None /\ now' >= session.at + AUTH_SESSION_SECONDS THEN None ELSE session
  /\ UNCHANGED <<attempts, started, codes, open, had, accepted>>

Next ==
  \/ Login \/ Logout \/ Request \/ Tick
  \/ \E a \in Attempts : Callback(a)
  \/ \E r \in open : \/ LoginAnswered(r) \/ SignedIn(r) \/ CallbackFails(r) \/ LogoutAnswered(r)
                     \/ Forward(r) \/ Accept(r) \/ Answered(r) \/ Lost(r)

Spec == Init /\ [][Next]_vars
-----------------------------------------------------------------------------
(* Properties                                                               *)

(* What the API accepts goes back to a sign-in this very browser started,   *)
(* completed before its transaction ran out, with a second factor and       *)
(* provisioned access, and not longer ago than a token may be old, however  *)
(* old the tab, the callback or the request under way is.                   *)
AcceptedIsSignedIn ==
  accepted # None =>
    LET t == accepted.token
    IN /\ t.claims.mfa /\ t.claims.provisioned
       /\ started[t.attempt] # None /\ t.at < started[t.attempt] + AUTH_TRANSACTION_SECONDS
       /\ accepted.at <= t.at + maxTokenAge + clockTolerance

(* A session that was ended by signing out, by its age or by another        *)
(* sign-in does not come back: not with the answer of a request that was    *)
(* under way, and not with a callback or a code used before.  A callback    *)
(* that fails ends none ("preserving any existing session").                *)
SessionsDoNotReturn ==
  [][/\ session' \notin {session, None} => session'.attempt \notin had
     /\ session # None /\ session' = None =>
          \/ now' # now
          \/ \E r \in open : r.kind = "logout" /\ r \notin open']_vars
=============================================================================
