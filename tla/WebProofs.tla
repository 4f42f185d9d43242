----------------------------- MODULE WebProofs -----------------------------
(***************************************************************************)
(* What the web application and the accounts behind it keep, for any values *)
(* of the constants, part by part: sign-ins (SignIn), the public page of a  *)
(* passport (Disclosure), accounts (Provisioning), the pages that send      *)
(* commands (SuppliersPage, Console, ModelPage, IntakeForm, DossierPage),   *)
(* the authority to publish (Authority) and organisations (Bootstrap).      *)
(*                                                                         *)
(* The arguments are alike.  Something travels and comes back late, or is   *)
(* read first and used later: a cookie, an answer, a load, a tick, a record *)
(* of the Registry.  The invariants say that wherever it is it still says   *)
(* what was true when it was made, and whose it is.                         *)
(***************************************************************************)
EXTENDS MCWeb, TLAPS

Claims == [mfa : BOOLEAN, provisioned : BOOLEAN]

(* A transaction cookie says when its sign-in began.                        *)
TransactionOf(t) == t.attempt \in Attempts /\ started[t.attempt] # None /\ t.at = started[t.attempt]

(* A session is one of a sign-in that was completed in time.                *)
SessionOf(s) ==
  /\ s \in [attempt : Attempts, at : Nat, lifetime : Lifetimes, claims : Claims]
  /\ IdentityOf(s.claims)
  /\ started[s.attempt] # None /\ s.at < started[s.attempt] + AUTH_TRANSACTION_SECONDS

(* What a request under way carries.                                        *)
Carries(r) ==
  \/ \E a \in Attempts : r = [kind |-> "login", attempt |-> a] /\ a <= attempts /\ started[a] = None
  \/ \E a \in Attempts, t \in {None, r.cookie} :
       r = [kind |-> "callback", attempt |-> a, cookie |-> t] /\ (t # None => TransactionOf(t))
  \/ r = [kind |-> "logout"]
  \/ \E s \in {r.cookie}, f \in BOOLEAN :
       r = [kind |-> "request", cookie |-> s, forwarded |-> f] /\ SessionOf(s)

Types ==
  /\ now \in Nat /\ attempts \in Nat /\ attempts <= MaxAttempts
  /\ started \in [Attempts -> Nat \cup {None}]
  /\ \A a \in Attempts : started[a] # None => a <= attempts /\ started[a] <= now
  /\ codes \subseteq {a \in Attempts : started[a] # None}
  /\ had \subseteq {a \in Attempts : started[a] # None} \ codes

Cookies ==
  /\ txn # None => TransactionOf(txn)
  /\ session # None => SessionOf(session)
  /\ \A r \in open : Carries(r)

Accepted ==
  accepted # None =>
    SessionOf(accepted.token) /\ accepted.at <= accepted.token.at + maxTokenAge + clockTolerance

SInv == Types /\ Cookies /\ Accepted

-----------------------------------------------------------------------------
LEMMA InitHolds == ASSUME Init PROVE SInv
  BY SignInAssumption DEF Init, SInv, Types, Cookies, Accepted, Attempts

(* As long as sign-ins that have begun stay as they are, cookies stay true. *)
LEMMA CookiesStay ==
  ASSUME SInv, \A a \in Attempts : started[a] # None => started'[a] = started[a]
  PROVE  /\ \A t : TransactionOf(t) => TransactionOf(t)'
         /\ \A s : SessionOf(s) => SessionOf(s)'
<1>1. ASSUME NEW t, TransactionOf(t) PROVE TransactionOf(t)'
  BY <1>1 DEF TransactionOf
<1>2. ASSUME NEW s, SessionOf(s) PROVE SessionOf(s)'
  BY <1>2 DEF SessionOf
<1> QED
  BY <1>1, <1>2

LEMMA RequestsStay ==
  ASSUME SInv, started' = started, attempts' >= attempts, attempts' \in Nat, NEW r, Carries(r)
  PROVE  Carries(r)'
<1>1. /\ \A t : TransactionOf(t) => TransactionOf(t)'
      /\ \A s : SessionOf(s) => SessionOf(s)'
  BY CookiesStay
<1>2. CASE \E a \in Attempts : r = [kind |-> "login", attempt |-> a] /\ a <= attempts /\ started[a] = None
  BY <1>2 DEF Carries, SInv, Types, Attempts
<1>3. CASE \E a \in Attempts, t \in {None, r.cookie} :
             r = [kind |-> "callback", attempt |-> a, cookie |-> t] /\ (t # None => TransactionOf(t))
  BY <1>1, <1>3 DEF Carries
<1>4. CASE r = [kind |-> "logout"]
  BY <1>4 DEF Carries
<1>5. CASE \E s \in {r.cookie}, f \in BOOLEAN :
             r = [kind |-> "request", cookie |-> s, forwarded |-> f] /\ SessionOf(s)
  BY <1>1, <1>5 DEF Carries
<1> QED
  BY <1>2, <1>3, <1>4, <1>5 DEF Carries

(* What a request carries, by its kind.                                     *)
LEMMA ByKind ==
  ASSUME NEW r, Carries(r)
  PROVE  /\ r.kind = "login" => r = [kind |-> "login", attempt |-> r.attempt] /\ r.attempt \in Attempts
                                  /\ r.attempt <= attempts /\ started[r.attempt] = None
         /\ r.kind = "callback" => r.attempt \in Attempts /\ (r.cookie # None => TransactionOf(r.cookie))
         /\ r.kind = "request" => SessionOf(r.cookie)
                                  /\ [r EXCEPT !.forwarded = TRUE] = [kind |-> "request", cookie |-> r.cookie, forwarded |-> TRUE]
<1>1. CASE r.kind = "login"
  BY <1>1 DEF Carries
<1>2. CASE r.kind = "callback"
  BY <1>2 DEF Carries
<1>3. CASE r.kind = "request"
  <2>1. PICK f \in BOOLEAN : r = [kind |-> "request", cookie |-> r.cookie, forwarded |-> f] /\ SessionOf(r.cookie)
    BY <1>3 DEF Carries
  <2>2. PICK C : C = {r.cookie}
    OBVIOUS
  <2>3. r \in [kind : {"request"}, cookie : C, forwarded : BOOLEAN]
    BY <2>1, <2>2
  <2>4. [r EXCEPT !.forwarded = TRUE] \in [kind : {"request"}, cookie : C, forwarded : {TRUE}]
    BY <2>3
  <2>5. [r EXCEPT !.forwarded = TRUE] = [kind |-> "request", cookie |-> r.cookie, forwarded |-> TRUE]
    <3>1. PICK q : q = [r EXCEPT !.forwarded = TRUE]
      OBVIOUS
    <3>2. q = [kind |-> "request", cookie |-> r.cookie, forwarded |-> TRUE]
      BY <2>2, <2>4, <3>1
    <3> QED
      BY <3>1, <3>2
  <2> QED
    BY <1>3, <2>1, <2>5
<1> QED
  BY <1>1, <1>2, <1>3

-----------------------------------------------------------------------------
(* An action that begins no sign-in, and keeps or drops cookies.            *)
LEMMA Quietly ==
  ASSUME SInv, started' = started, attempts' = attempts, had' = had, accepted' = accepted,
         now' \in Nat, now <= now', codes' \subseteq codes, txn' \in {txn, None}, session' \in {session, None},
         \A r \in open' : Carries(r)
  PROVE  SInv'
<1>1. Types'
  BY SignInAssumption DEF SInv, Types
<1>2. \A r \in open' : Carries(r)'
  BY RequestsStay DEF SInv, Types
<1>3. Cookies' /\ Accepted'
  BY <1>2, CookiesStay DEF SInv, Cookies, Accepted
<1> QED
  BY <1>1, <1>3 DEF SInv

LEMMA LoginHolds == ASSUME SInv, Login PROVE SInv'
<1>0. PICK a \in {attempts + 1} : TRUE
  OBVIOUS
<1>1. /\ attempts < MaxAttempts /\ attempts' = a /\ open' = open \cup {[kind |-> "login", attempt |-> a]}
      /\ UNCHANGED <<now, txn, session, started, codes, had, accepted>>
  BY <1>0 DEF Login, Send
<1>2. a \in Attempts /\ started[a] = None /\ attempts' \in Nat /\ attempts' <= MaxAttempts
  BY <1>0, <1>1, SignInAssumption DEF SInv, Types, Attempts
<1>3. Types'
  BY <1>0, <1>1, <1>2, SignInAssumption DEF SInv, Types, Attempts
<1>4. Carries([kind |-> "login", attempt |-> a])'
  BY <1>1, <1>2 DEF Carries, SInv, Types
<1>5. \A r \in open : Carries(r)'
  BY <1>1, <1>2, RequestsStay DEF SInv, Types, Cookies
<1>6. Cookies' /\ Accepted'
  BY <1>1, <1>4, <1>5, CookiesStay DEF SInv, Cookies, Accepted
<1> QED
  BY <1>3, <1>6 DEF SInv

LEMMA LoginAnsweredHolds == ASSUME SInv, NEW r \in open, LoginAnswered(r) PROVE SInv'
<1> DEFINE a == r.attempt
<1>1. /\ open' = open \ {r} /\ r.kind = "login"
      /\ txn' = [attempt |-> a, at |-> now] /\ codes' = codes \cup {a}
      /\ started' = [started EXCEPT ![a] = now]
      /\ UNCHANGED <<now, session, attempts, had, accepted>>
  BY DEF LoginAnswered, Done
<1>2. r = [kind |-> "login", attempt |-> a] /\ a \in Attempts /\ a <= attempts /\ started[a] = None
  BY <1>1, ByKind DEF SInv, Cookies
<1>3. /\ started'[a] = now /\ \A b \in Attempts : b # a => started'[b] = started[b]
      /\ started' \in [Attempts -> Nat \cup {None}] /\ now \in Nat /\ now # None
  BY <1>1, <1>2, SignInAssumption DEF SInv, Types
<1>4. Types'
  <2>1. \A b \in Attempts : started'[b] # None => b <= attempts' /\ started'[b] <= now'
    BY <1>1, <1>2, <1>3 DEF SInv, Types
  <2>2. codes' \subseteq {b \in Attempts : started'[b] # None}
    BY <1>1, <1>2, <1>3 DEF SInv, Types
  <2>3. had' \subseteq {b \in Attempts : started'[b] # None} \ codes'
    BY <1>1, <1>2, <1>3 DEF SInv, Types
  <2> QED
    BY <1>1, <1>3, <2>1, <2>2, <2>3 DEF SInv, Types
<1>5. /\ \A t : TransactionOf(t) => TransactionOf(t)'
      /\ \A s : SessionOf(s) => SessionOf(s)'
  BY <1>2, <1>3, CookiesStay
<1>6. ASSUME NEW q \in open' PROVE Carries(q)'
  <2>1. q \in open /\ q # r /\ Carries(q)
    BY <1>1 DEF SInv, Cookies
  <2>2. CASE \E b \in Attempts : q = [kind |-> "login", attempt |-> b] /\ b <= attempts /\ started[b] = None
    BY <2>1, <2>2, <1>1, <1>2, <1>3 DEF Carries
  <2>3. CASE \E b \in Attempts, t \in {None, q.cookie} :
               q = [kind |-> "callback", attempt |-> b, cookie |-> t] /\ (t # None => TransactionOf(t))
    BY <2>3, <1>5 DEF Carries
  <2>4. CASE q = [kind |-> "logout"]
    BY <2>4 DEF Carries
  <2>5. CASE \E s \in {q.cookie}, f \in BOOLEAN :
               q = [kind |-> "request", cookie |-> s, forwarded |-> f] /\ SessionOf(s)
    BY <2>5, <1>5 DEF Carries
  <2> QED
    BY <2>1, <2>2, <2>3, <2>4, <2>5 DEF Carries
<1>7. TransactionOf(txn)'
  BY <1>1, <1>2, <1>3 DEF TransactionOf
<1>8. Cookies' /\ Accepted'
  BY <1>1, <1>5, <1>6, <1>7 DEF SInv, Cookies, Accepted
<1> QED
  BY <1>4, <1>8 DEF SInv

LEMMA CallbackHolds == ASSUME SInv, NEW a \in Attempts, Callback(a) PROVE SInv'
<1> DEFINE r == [kind |-> "callback", attempt |-> a, cookie |-> txn]
<1>1. open' = open \cup {r} /\ UNCHANGED <<now, txn, session, attempts, started, codes, had, accepted>>
  BY DEF Callback, Send
<1>2. r.cookie = txn
  OBVIOUS
<1>3. Carries(r)
  BY <1>2 DEF Carries, SInv, Cookies
<1> QED
  BY <1>1, <1>3, Quietly DEF SInv, Types, Cookies

LEMMA SignedInHolds ==
  ASSUME SInv, NEW r \in open, SignedIn(r)
  PROVE  SInv' /\ session'.attempt \notin had /\ session' # None
<1>1. PICK claims \in Claims, lifetime \in Lifetimes :
        /\ IdentityOf(claims)
        /\ session' = [attempt |-> r.attempt, at |-> now, lifetime |-> lifetime, claims |-> claims]
  BY DEF SignedIn, Claims
<1>2. /\ open' = open \ {r} /\ r.kind = "callback"
      /\ r.cookie # None /\ r.cookie.attempt = r.attempt /\ now < r.cookie.at + AUTH_TRANSACTION_SECONDS
      /\ r.attempt \in codes /\ codes' = codes \ {r.attempt}
      /\ txn' = None /\ had' = had \cup {r.attempt} /\ UNCHANGED <<now, attempts, started, accepted>>
  BY DEF SignedIn, Done, TransactionFits
<1>3. r.attempt \in Attempts /\ TransactionOf(r.cookie)
  BY <1>2, ByKind DEF SInv, Cookies
<1>4. SessionOf(session)'
  BY <1>1, <1>2, <1>3 DEF SessionOf, TransactionOf, SInv, Types
<1>5. Types'
  BY <1>2, <1>3 DEF SInv, Types, TransactionOf
<1>6. \A q \in open' : Carries(q)'
  BY <1>2, RequestsStay DEF SInv, Types, Cookies
<1>7. Cookies' /\ Accepted'
  BY <1>2, <1>4, <1>6, CookiesStay DEF SInv, Cookies, Accepted
<1>8. session'.attempt \notin had
  BY <1>1, <1>2 DEF SInv, Types
<1>9. session' # None
  BY <1>4, SignInAssumption DEF SessionOf, Claims
<1> QED
  BY <1>5, <1>7, <1>8, <1>9 DEF SInv

LEMMA ForwardHolds == ASSUME SInv, NEW r \in open, Forward(r) PROVE SInv'
<1>1. /\ r.kind = "request" /\ open' = (open \ {r}) \cup {[r EXCEPT !.forwarded = TRUE]}
      /\ UNCHANGED <<now, txn, session, attempts, started, codes, had, accepted>>
  BY DEF Forward
<1> DEFINE q == [kind |-> "request", cookie |-> r.cookie, forwarded |-> TRUE]
<1>2. [r EXCEPT !.forwarded = TRUE] = q /\ SessionOf(r.cookie)
  BY <1>1, ByKind DEF SInv, Cookies
<1>3. q.cookie = r.cookie
  OBVIOUS
<1>4. Carries(q)
  BY <1>2, <1>3 DEF Carries
<1>5. \A x \in open' : Carries(x)
  BY <1>1, <1>2, <1>4 DEF SInv, Cookies
<1> QED
  BY <1>1, <1>5, Quietly DEF SInv, Types

LEMMA RequestHolds == ASSUME SInv, Request PROVE SInv'
<1> DEFINE r == [kind |-> "request", cookie |-> session, forwarded |-> FALSE]
<1>1. /\ session # None /\ open' = open \cup {r}
      /\ UNCHANGED <<now, txn, session, attempts, started, codes, had, accepted>>
  BY DEF Request, Send
<1>2. r.cookie = session
  OBVIOUS
<1>3. Carries(r)
  BY <1>1, <1>2 DEF Carries, SInv, Cookies
<1>4. \A x \in open' : Carries(x)
  BY <1>1, <1>3 DEF SInv, Cookies
<1> QED
  BY <1>1, <1>4, Quietly DEF SInv, Types

LEMMA AcceptHolds == ASSUME SInv, NEW r \in open, Accept(r) PROVE SInv'
<1>1. /\ open' = open \ {r} /\ r.kind = "request" /\ TokenVerifies(r.cookie)
      /\ accepted' = [at |-> now, token |-> r.cookie]
      /\ UNCHANGED <<now, txn, session, attempts, started, codes, had>>
  BY DEF Accept, Done
<1>2. SessionOf(r.cookie)
  BY <1>1, ByKind DEF SInv, Cookies
<1>3. now <= r.cookie.at + maxTokenAge + clockTolerance
  BY <1>1, <1>2, SignInAssumption DEF TokenVerifies, SessionOf, SInv, Types
<1>4. Types'
  BY <1>1 DEF SInv, Types
<1>5. \A q \in open' : Carries(q)'
  BY <1>1, RequestsStay DEF SInv, Types, Cookies
<1>6. Cookies'
  BY <1>1, <1>5, CookiesStay DEF SInv, Cookies
<1>7. Accepted'
  BY <1>1, <1>2, <1>3, CookiesStay DEF Accepted
<1> QED
  BY <1>4, <1>6, <1>7 DEF SInv

(* Every step keeps the invariant, and what it does to the session.         *)
LEMMA NextHolds ==
  ASSUME SInv, [Next]_vars
  PROVE  /\ SInv'
         /\ session' \notin {session, None} => session'.attempt \notin had
         /\ session # None /\ session' = None =>
              now' # now \/ \E r \in open : r.kind = "logout" /\ r \notin open'
<1> DEFINE Kept == session' = session
<1>1. CASE Login
  BY <1>1, LoginHolds DEF Login
<1>2. CASE Logout
  <2>1. Carries([kind |-> "logout"])
    BY DEF Carries
  <2> QED
    BY <1>2, <2>1, Quietly DEF Logout, Send, SInv, Types, Cookies
<1>3. CASE Request
  BY <1>3, RequestHolds DEF Request
<1>4. CASE Tick
  <2>1. /\ now' = now + 1 /\ txn' \in {txn, None} /\ session' \in {session, None}
        /\ UNCHANGED <<attempts, started, codes, open, had, accepted>>
    BY <1>4 DEF Tick
  <2>2. now' \in Nat /\ now <= now' /\ now' # now
    BY <2>1 DEF SInv, Types
  <2> QED
    BY <2>1, <2>2, Quietly DEF SInv, Types, Cookies
<1>5. ASSUME NEW a \in Attempts, Callback(a) PROVE SInv' /\ Kept
  BY <1>5, CallbackHolds DEF Callback
<1>6. ASSUME NEW r \in open, LoginAnswered(r) PROVE SInv' /\ Kept
  BY <1>6, LoginAnsweredHolds DEF LoginAnswered
<1>7. ASSUME NEW r \in open, SignedIn(r) PROVE SInv' /\ session'.attempt \notin had /\ session' # None
  BY <1>7, SignedInHolds
<1>8. ASSUME NEW r \in open, CallbackFails(r) \/ Answered(r) \/ Lost(r) PROVE SInv' /\ Kept
  <2>1. /\ open' = open \ {r} /\ codes' \subseteq codes /\ txn' \in {txn, None}
        /\ UNCHANGED <<now, session, attempts, started, had, accepted>>
    BY <1>8 DEF CallbackFails, Answered, Lost, Done
  <2> QED
    BY <2>1, Quietly DEF SInv, Types, Cookies
<1>9. ASSUME NEW r \in open, LogoutAnswered(r)
      PROVE  SInv' /\ session' = None /\ r.kind = "logout" /\ r \notin open'
  <2>1. /\ open' = open \ {r} /\ r.kind = "logout" /\ session' = None
        /\ UNCHANGED <<now, txn, attempts, started, codes, had, accepted>>
    BY <1>9 DEF LogoutAnswered, Done
  <2> QED
    BY <2>1, Quietly DEF SInv, Types, Cookies
<1>10. ASSUME NEW r \in open, Forward(r) PROVE SInv' /\ Kept
  BY <1>10, ForwardHolds DEF Forward
<1>11. ASSUME NEW r \in open, Accept(r) PROVE SInv' /\ Kept
  BY <1>11, AcceptHolds DEF Accept
<1>12. CASE UNCHANGED vars
  BY <1>12, Quietly DEF vars, SInv, Types, Cookies
<1> QED
  BY <1>1, <1>2, <1>3, <1>4, <1>5, <1>6, <1>7, <1>8, <1>9, <1>10, <1>11, <1>12 DEF Next, Login, Logout, Request

-----------------------------------------------------------------------------
(* Whatever is under way and however old it is, the API accepts only what   *)
(* goes back to a sign-in of this browser that was completed in time, with  *)
(* a second factor, and not too long ago (auth.service.ts, middleware.ts).  *)
THEOREM OnlySessionsAreAccepted == Spec => []AcceptedIsSignedIn
<1>1. Init => SInv
  BY InitHolds
<1>2. SInv /\ [Next]_vars => SInv'
  BY NextHolds
<1>3. SInv => AcceptedIsSignedIn
  BY DEF SInv, Accepted, AcceptedIsSignedIn, SessionOf, IdentityOf
<1> QED
  BY <1>1, <1>2, <1>3, PTL DEF Spec

(* A session that was ended does not come back, and a callback that fails   *)
(* ends none (middleware.ts).                                               *)
THEOREM EndedSessionsStayEnded == Spec => SessionsDoNotReturn
<1>1. Init => SInv
  BY InitHolds
<1>2. SInv /\ [Next]_vars => SInv'
  BY NextHolds
<1>3. SInv /\ [Next]_vars =>
        [/\ session' \notin {session, None} => session'.attempt \notin had
         /\ session # None /\ session' = None =>
              \/ now' # now
              \/ \E r \in open : r.kind = "logout" /\ r \notin open']_vars
  BY NextHolds
<1> QED
  BY <1>1, <1>2, <1>3, PTL DEF Spec, SessionsDoNotReturn

-----------------------------------------------------------------------------
(* Disclosure                                                               *)

(* A catalogue lets who holds the tier see what is in json.                 *)
Lets(catalogue, tier, json) ==
  /\ json.lifecycleStatus => Public!DecideAccess(catalogue[Status], tier)
  /\ \A f \in DOMAIN json.values : Public!DecideAccess(catalogue[f], tier)

ValuesAreInsides(json) == \A f \in DOMAIN json.values : json.values[f] \in Public!Insides

IsReader(x) == x = [item |-> x.item, by |-> x.by, answer |-> x.answer, page |-> x.page]

AnswerLets(told) ==
  ValuesAreInsides(told.json) /\ \A catalogue \in told.catalogues : Lets(catalogue, "public", told.json)

PageLets(page) ==
  \A catalogue \in page.catalogues :
    /\ page.status => Public!DecideAccess(catalogue[Status], page.tier)
    /\ page.shown # None => \A f \in DOMAIN page.shown :
         /\ Public!DecideAccess(catalogue[f], page.tier)
         /\ page.tier = "public" => page.shown[f] = "plain"

(* A snapshot shows what its release lets everyone see.                     *)
SnapshotsLet ==
  /\ DOMAIN snapshot = publicItems /\ DOMAIN issued = publicItems
  /\ \A i \in publicItems : snapshot[i] # None =>
       ValuesAreInsides(snapshot[i]) /\ Lets(issued[i], "public", snapshot[i])

ReadersAreLet ==
  /\ DOMAIN reader = visitors
  /\ \A r \in visitors :
       /\ IsReader(reader[r]) /\ reader[r].item \in publicItems \cup {None}
       /\ reader[r].answer # None => AnswerLets(reader[r].answer)
       /\ reader[r].page # None => PageLets(reader[r].page)

DInv == SnapshotsLet /\ ReadersAreLet

(* A projection lets through what the catalogue does, and adds nothing.     *)
LEMMA Projection ==
  ASSUME NEW catalogue, NEW tier \in Public!CapabilityTiers \cup {"public"}, NEW json,
         NEW p, p = Public!ProjectPassport(catalogue, tier, json)
  PROVE  /\ Lets(catalogue, tier, p)
         /\ p.lifecycleStatus => json.lifecycleStatus
         /\ \A f \in DOMAIN p.values : f \in DOMAIN json.values /\ p.values[f] = json.values[f]
<1>1. /\ p.lifecycleStatus = (json.lifecycleStatus /\ Status \in Public!Allowed(catalogue, tier))
      /\ p.values = [f \in DOMAIN json.values \cap Public!Allowed(catalogue, tier) |-> json.values[f]]
  BY DEF Public!ProjectPassport
<1>2. \A f \in Public!Allowed(catalogue, tier) : Public!DecideAccess(catalogue[f], tier)
  BY DEF Public!Allowed, Public!DecideAccess, Public!CapabilityTiers
<1> QED
  BY <1>1, <1>2 DEF Lets

LEMMA DInvInit ==
  ASSUME Public!Init
  PROVE  DInv
<1>1. \A r \in visitors : reader[r] = Public!Nobody
  BY DEF Public!Init
<1>2. IsReader(Public!Nobody) /\ Public!Nobody.item = None /\ Public!Nobody.answer = None /\ Public!Nobody.page = None
  BY DEF IsReader, Public!Nobody
<1> QED
  BY <1>1, <1>2 DEF Public!Init, DInv, SnapshotsLet, ReadersAreLet

LEMMA PublishKeepsDInv ==
  ASSUME DInv, NEW i \in publicItems, NEW entries, NEW fs, entries \in [fs -> Public!Insides], Public!Publish(i, entries)
  PROVE  DInv'
<1> DEFINE json == Public!ProjectPassport(api, "public", Public!Canonical(entries))
<1>1. /\ snapshot' = [snapshot EXCEPT ![i] = json] /\ issued' = [issued EXCEPT ![i] = api] /\ reader' = reader
  BY DEF Public!Publish
<1>2. Lets(api, "public", json) /\ ValuesAreInsides(json)
  <2>1. /\ Lets(api, "public", json)
        /\ \A f \in DOMAIN json.values : f \in DOMAIN Public!Canonical(entries).values
                                       /\ json.values[f] = Public!Canonical(entries).values[f]
    BY Projection
  <2> QED
    BY <2>1 DEF ValuesAreInsides, Public!Canonical
<1> HIDE DEF json
<1> QED
  BY <1>1, <1>2 DEF DInv, SnapshotsLet, ReadersAreLet

(* A step of a reader keeps the invariant if it keeps the reader's part.    *)
LEMMA ReaderKeepsDInv ==
  ASSUME DInv, NEW r \in visitors, NEW x, reader' = [reader EXCEPT ![r] = x], UNCHANGED <<snapshot, issued>>,
         IsReader(x), x.item \in publicItems \cup {None},
         x.answer # None => AnswerLets(x.answer), x.page # None => PageLets(x.page)
  PROVE  DInv'
<1>1. SnapshotsLet'
  BY DEF DInv, SnapshotsLet
<1>2. DOMAIN reader' = visitors /\ reader'[r] = x /\ \A q \in visitors \ {r} : reader'[q] = reader[q]
  BY DEF DInv, ReadersAreLet
<1> QED
  BY <1>1, <1>2 DEF DInv, ReadersAreLet

LEMMA VisitKeepsDInv ==
  ASSUME DInv, NEW r \in visitors, NEW i \in publicItems, Public!Visit(r, i)
  PROVE  DInv'
<1> DEFINE x == [item |-> i, by |-> web, answer |-> None, page |-> None]
<1>1. reader' = [reader EXCEPT ![r] = x] /\ UNCHANGED <<snapshot, issued>>
  BY DEF Public!Visit
<1>2. IsReader(x) /\ x.item = i /\ x.answer = None /\ x.page = None
  BY DEF IsReader
<1> HIDE DEF x
<1> QED
  BY <1>1, <1>2, ReaderKeepsDInv

LEMMA ResolveKeepsDInv ==
  ASSUME DInv, NEW r \in visitors, Public!Resolve(r)
  PROVE  DInv'
<1> DEFINE i == reader[r].item
           json == Public!ProjectPassport(api, "public", snapshot[i])
           answered == [json |-> json, catalogues |-> {api, issued[i]}]
           x == [reader[r] EXCEPT !.answer = answered]
<1>1. i \in publicItems /\ snapshot[i] # None /\ IsReader(reader[r]) /\ (reader[r].page # None => PageLets(reader[r].page))
  BY DEF Public!Resolve, DInv, ReadersAreLet
<1>2. reader' = [reader EXCEPT ![r] = x] /\ UNCHANGED <<snapshot, issued>>
  BY DEF Public!Resolve
<1>3. /\ Lets(api, "public", json) /\ (json.lifecycleStatus => snapshot[i].lifecycleStatus)
      /\ \A f \in DOMAIN json.values : f \in DOMAIN snapshot[i].values /\ json.values[f] = snapshot[i].values[f]
  BY Projection
<1>4. ValuesAreInsides(snapshot[i]) /\ Lets(issued[i], "public", snapshot[i])
  BY <1>1 DEF DInv, SnapshotsLet
<1> HIDE DEF json, i
<1>5. ValuesAreInsides(json) /\ Lets(issued[i], "public", json)
  BY <1>3, <1>4 DEF ValuesAreInsides, Lets
<1>6. AnswerLets(answered)
  BY <1>3, <1>5 DEF AnswerLets
<1> HIDE DEF answered
<1>7. IsReader(x) /\ x.item = reader[r].item /\ x.answer = answered /\ x.page = reader[r].page
  BY <1>1 DEF IsReader
<1> HIDE DEF x
<1> QED
  BY <1>1, <1>2, <1>6, <1>7, ReaderKeepsDInv DEF i

LEMMA RenderKeepsDInv ==
  ASSUME DInv, NEW r \in visitors, Public!Render(r)
  PROVE  DInv'
<1> DEFINE answer0 == reader[r].answer
           by == reader[r].by
           json == answer0.json
           show == Public!ProjectPublicPassport(by, json)
           new == [shown |-> show, status |-> FALSE, tier |-> "public", catalogues |-> answer0.catalogues \cup {by}]
           x == [Public!Nobody EXCEPT !.page = new]
<1>1. answer0 # None /\ AnswerLets(answer0)
  BY DEF Public!Render, DInv, ReadersAreLet
<1>2. reader' = [reader EXCEPT ![r] = x] /\ UNCHANGED <<snapshot, issued>>
  BY DEF Public!Render
<1>3. /\ ValuesAreInsides(json)
      /\ \A catalogue \in answer0.catalogues : \A f \in DOMAIN json.values : Public!DecideAccess(catalogue[f], "public")
  BY <1>1 DEF AnswerLets, Lets
<1> HIDE DEF json, by, answer0
<1>4. ASSUME show # None, NEW f \in DOMAIN show
      PROVE  f \in DOMAIN json.values /\ show[f] = "plain" /\ Public!DecideAccess(by[f], "public")
  <2> DEFINE fields == DOMAIN json.values \cap Public!Allowed(by, "public")
  <2>1. show = [g \in fields |-> Public!PublicValue(json.values[g])] /\ ~ \E g \in fields : json.values[g] = "deep"
    BY <1>4 DEF Public!ProjectPublicPassport
  <2>2. f \in fields /\ show[f] = Public!PublicValue(json.values[f]) /\ json.values[f] # "deep"
    BY <1>4, <2>1
  <2>3. json.values[f] \in {"plain", "keyed"}
    BY <1>3, <2>2 DEF ValuesAreInsides, Public!Insides
  <2> QED
    BY <2>2, <2>3 DEF Public!PublicValue, Public!Allowed, Public!DecideAccess
<1> HIDE DEF show
<1>5. PageLets(new)
  BY <1>3, <1>4 DEF PageLets
<1> HIDE DEF new
<1>6. IsReader(x) /\ x.item = None /\ x.answer = None /\ x.page = new
  BY DEF IsReader, Public!Nobody
<1> HIDE DEF x
<1> QED
  BY <1>2, <1>5, <1>6, ReaderKeepsDInv

LEMMA UnavailableKeepsDInv ==
  ASSUME DInv, NEW r \in visitors, Public!Unavailable(r)
  PROVE  DInv'
<1>1. reader' = [reader EXCEPT ![r] = Public!Nobody] /\ UNCHANGED <<snapshot, issued>>
  BY DEF Public!Unavailable
<1>2. IsReader(Public!Nobody) /\ Public!Nobody.item = None /\ Public!Nobody.answer = None /\ Public!Nobody.page = None
  BY DEF IsReader, Public!Nobody
<1> QED
  BY <1>1, <1>2, ReaderKeepsDInv

LEMMA SessionKeepsDInv ==
  ASSUME DInv, NEW r \in visitors, NEW i \in publicItems, NEW tier \in Public!CapabilityTiers, Public!Session(r, i, tier)
  PROVE  DInv'
<1> DEFINE json == Public!ProjectPassport(api, tier, version[i])
           new == [shown |-> json.values, status |-> json.lifecycleStatus, tier |-> tier, catalogues |-> {api}]
           x == [reader[r] EXCEPT !.page = new]
<1>1. reader' = [reader EXCEPT ![r] = x] /\ UNCHANGED <<snapshot, issued>>
  BY DEF Public!Session
<1>2. Lets(api, tier, json) /\ tier # "public"
  BY Projection DEF Public!CapabilityTiers
<1> HIDE DEF json
<1>3. PageLets(new)
  BY <1>2 DEF PageLets, Lets
<1> HIDE DEF new
<1>4. /\ IsReader(reader[r]) /\ reader[r].item \in publicItems \cup {None}
      /\ reader[r].answer # None => AnswerLets(reader[r].answer)
  BY DEF DInv, ReadersAreLet
<1>5. IsReader(x) /\ x.item = reader[r].item /\ x.answer = reader[r].answer /\ x.page = new
  BY <1>4 DEF IsReader
<1> HIDE DEF x
<1> QED
  BY <1>1, <1>3, <1>4, <1>5, ReaderKeepsDInv

LEMMA DInvNext ==
  ASSUME DInv, [Public!Next]_(Public!vars)
  PROVE  DInv'
<1>1. CASE UNCHANGED Public!vars
  BY <1>1 DEF Public!vars, DInv, SnapshotsLet, ReadersAreLet
<1>2. ASSUME NEW i \in publicItems, NEW fs \in SUBSET Fields, NEW entries \in [fs -> Public!Insides], Public!Publish(i, entries)
      PROVE  DInv'
  BY <1>2, PublishKeepsDInv
<1>3. ASSUME NEW r \in Releases, Public!DeployApi(r) \/ Public!DeployWeb(r)
      PROVE  DInv'
  BY <1>3 DEF Public!DeployApi, Public!DeployWeb, DInv, SnapshotsLet, ReadersAreLet
<1>4. ASSUME NEW r \in visitors, Public!Resolve(r) \/ Public!Render(r) \/ Public!Unavailable(r)
      PROVE  DInv'
  BY <1>4, ResolveKeepsDInv, RenderKeepsDInv, UnavailableKeepsDInv
<1>5. ASSUME NEW r \in visitors, NEW i \in publicItems,
             Public!Visit(r, i) \/ \E tier \in Public!CapabilityTiers : Public!Session(r, i, tier)
      PROVE  DInv'
  BY <1>5, VisitKeepsDInv, SessionKeepsDInv
<1> QED
  BY <1>1, <1>2, <1>3, <1>4, <1>5 DEF Public!Next

(* Whatever the catalogues, items and readers: no release that is deployed  *)
(* or brought back, in the API or in the web application, shows a reader    *)
(* what a catalogue the answer passed withholds (passport-projection.ts,    *)
(* public-passport.ts).                                                     *)
THEOREM ReadersSeeWhatTheyMay == MCSpec => []NothingWithheldIsShown
<1>1. MCInit => DInv
  BY DInvInit DEF MCInit
<1>2. DInv /\ [MCNext]_all => DInv'
  <2>1. [MCNext]_all => [Public!Next]_(Public!vars)
    BY DEF MCNext, all, public, Public!vars
  <2> QED
    BY <2>1, DInvNext
<1>3. DInv => NothingWithheldIsShown
  BY DEF DInv, ReadersAreLet, AnswerLets, PageLets, Lets, NothingWithheldIsShown, Public!NothingWithheldIsShown
<1> QED
  BY <1>1, <1>2, <1>3, PTL DEF MCSpec

-----------------------------------------------------------------------------
(* Provisioning                                                             *)

(* A token of the repository's flow has no claims or those administrators   *)
(* wrote.                                                                   *)
TokenIsProvisioned ==
  claimed # None /\ claimed.flow \in {"repository", "none"} =>
    \/ claimed.claims = None
    \/ /\ claimed.metadata # None /\ claimed.claims = claimed.metadata
       /\ claimed.metadata.organisation \in Organisations /\ claimed.metadata.role \in userRoles

IsInspection(a) == a = [at |-> a.at, version |-> a.version, passed |-> a.passed, flow |-> a.flow]

(* The version an audit remembers runs the repository's code, and stays     *)
(* what it is; a flow it let pass ran that code.                            *)
InspectionSaw ==
  /\ deployed \in Seq({"repository", "other"})
  /\ IsInspection(inspection)
  /\ inspection.version # None => inspection.version \in 1..Len(deployed) /\ deployed[inspection.version] = "repository"
  /\ "login_binding" \in inspection.passed => inspection.flow = "repository"

PInv == TokenIsProvisioned /\ InspectionSaw

LEMMA PInvInit ==
  ASSUME Audited!Init
  PROVE  PInv
<1>1. /\ IsInspection(Audited!Idle) /\ Audited!Idle.version = None /\ Audited!Idle.passed = {}
  BY DEF Audited!Idle, IsInspection
<1> QED
  BY <1>1 DEF Audited!Init, PInv, TokenIsProvisioned, InspectionSaw

(* Administrators touch neither the last token nor an audit under way.      *)
LEMMA AdministersKeepsPInv ==
  ASSUME PInv, UNCHANGED <<claimed, inspection>>,
         deployed' = deployed \/ \E c \in {"repository", "other"} : deployed' = Append(deployed, c)
  PROVE  PInv'
<1>1. TokenIsProvisioned'
  BY DEF PInv, TokenIsProvisioned
<1>2. CASE deployed' = deployed
  BY <1>1, <1>2 DEF PInv, InspectionSaw, IsInspection
<1>3. ASSUME NEW c \in {"repository", "other"}, deployed' = Append(deployed, c)
      PROVE  PInv'
  <2>1. deployed \in Seq({"repository", "other"})
    BY DEF PInv, InspectionSaw
  <2>2. /\ deployed' \in Seq({"repository", "other"}) /\ Len(deployed') = Len(deployed) + 1 /\ Len(deployed) \in Nat
        /\ \A n \in 1..Len(deployed) : deployed'[n] = deployed[n]
    BY <1>3, <2>1
  <2> QED
    BY <1>1, <2>2 DEF PInv, InspectionSaw, IsInspection
<1> QED
  BY <1>2, <1>3

(* Our Action copies what administrators wrote, or nothing.                 *)
LEMMA LoginKeepsPInv ==
  ASSUME PInv, NEW audience, NEW claims, NEW mfa, Audited!Login(audience, claims, mfa)
  PROVE  PInv'
<1>1. InspectionSaw'
  BY DEF PInv, InspectionSaw, IsInspection, Audited!Login
<1>2. /\ claimed' = [audience |-> audience, claims |-> claims, mfa |-> mfa, flow |-> Audited!Flow,
                     metadata |-> IF Audited!Flow = "other" THEN None ELSE metadata]
      /\ Audited!Flow = "repository" => Audited!PostLogin(audience, claims, mfa)
      /\ Audited!Flow = "none" => claims = None
  BY DEF Audited!Login
<1>3. /\ claimed'.flow = Audited!Flow /\ claimed'.claims = claims
      /\ claimed'.flow \in {"repository", "none"} => claimed'.metadata = metadata
  BY <1>2
<1>4. Audited!PostLogin(audience, claims, mfa) =>
        \/ claims = None
        \/ claims = metadata /\ metadata # None /\ metadata.organisation \in Organisations /\ metadata.role \in userRoles
  BY DEF Audited!PostLogin, Audited!Admitted
<1>5. TokenIsProvisioned'
  BY <1>2, <1>3, <1>4 DEF TokenIsProvisioned
<1> QED
  BY <1>1, <1>5 DEF PInv

LEMMA AuditKeepsPInv ==
  ASSUME PInv, Audited!Audit
  PROVE  PInv'
<1>1. UNCHANGED <<deployed, claimed>>
  BY DEF Audited!Audit, Audited!BeginAudit, Audited!OtherCheck, Audited!DeployedAction, Audited!LoginBinding
<1>2. TokenIsProvisioned'
  BY <1>1 DEF PInv, TokenIsProvisioned
<1>3. /\ deployed \in Seq({"repository", "other"}) /\ IsInspection(inspection)
      /\ inspection.version # None =>
           inspection.version \in 1..Len(deployed) /\ deployed[inspection.version] = "repository"
      /\ "login_binding" \in inspection.passed => inspection.flow = "repository"
  BY DEF PInv, InspectionSaw
<1>4. ASSUME NEW a, inspection' = a, IsInspection(a),
             a.version # None => a.version \in 1..Len(deployed) /\ deployed[a.version] = "repository",
             "login_binding" \in a.passed => a.flow = "repository"
      PROVE  PInv'
  BY <1>1, <1>2, <1>3, <1>4 DEF PInv, InspectionSaw
<1>5. ASSUME NEW passes \in BOOLEAN, Audited!Goes(passes),
             passes => Audited!Checks[inspection.at] # "login_binding"
      PROVE  PInv'
  <2> DEFINE n == inspection.at + 1
             s == IF passes THEN inspection.passed \cup {Audited!Checks[inspection.at]} ELSE inspection.passed
             b == [inspection EXCEPT !.at = n]
             a == [b EXCEPT !.passed = s]
  <2>1. inspection' = a
    BY <1>5 DEF Audited!Goes
  <2>2. "login_binding" \in s => "login_binding" \in inspection.passed
    BY <1>5
  <2> HIDE DEF n, s
  <2>3. IsInspection(b) /\ b.version = inspection.version /\ b.flow = inspection.flow
    BY <1>3 DEF IsInspection
  <2> HIDE DEF b
  <2>4. IsInspection(a) /\ a.version = inspection.version /\ a.passed = s /\ a.flow = inspection.flow
    BY <2>3 DEF IsInspection
  <2> HIDE DEF a
  <2> QED
    BY <1>3, <1>4, <2>1, <2>2, <2>4
<1>6. CASE Audited!BeginAudit
  <2>1. inspection' = [Audited!Idle EXCEPT !.at = 1]
    BY <1>6 DEF Audited!BeginAudit
  <2>2. inspection' = [at |-> 1, version |-> None, passed |-> {}, flow |-> None]
    BY <2>1 DEF Audited!Idle
  <2> QED
    BY <1>4, <2>2 DEF IsInspection
<1>7. CASE Audited!OtherCheck
  BY <1>5, <1>7 DEF Audited!OtherCheck
<1>8. CASE Audited!DeployedAction
  <2>1. CASE Audited!Goes(FALSE)
    BY <1>5, <2>1
  <2>2. CASE /\ deployed # <<>> /\ deployed[Len(deployed)] = "repository"
             /\ inspection' = [inspection EXCEPT !.at = @ + 1, !.passed = @ \cup {"deployed_action"}, !.version = Len(deployed)]
    <3> DEFINE n == inspection.at + 1
               s == inspection.passed \cup {"deployed_action"}
               v == Len(deployed)
               b == [inspection EXCEPT !.at = n]
               c == [b EXCEPT !.passed = s]
               a == [c EXCEPT !.version = v]
    <3>1. inspection' = a
      BY <2>2
    <3>2. v \in 1..Len(deployed) /\ deployed[v] = "repository"
      BY <1>3, <2>2
    <3>3. "login_binding" \in s => "login_binding" \in inspection.passed
      OBVIOUS
    <3> HIDE DEF n, s, v
    <3>4. IsInspection(b) /\ b.flow = inspection.flow
      BY <1>3 DEF IsInspection
    <3> HIDE DEF b
    <3>5. IsInspection(c) /\ c.passed = s /\ c.flow = inspection.flow
      BY <3>4 DEF IsInspection
    <3> HIDE DEF c
    <3>6. IsInspection(a) /\ a.version = v /\ a.passed = s /\ a.flow = inspection.flow
      BY <3>5 DEF IsInspection
    <3> HIDE DEF a
    <3> QED
      BY <1>3, <1>4, <3>1, <3>2, <3>3, <3>6
  <2> QED
    BY <1>8, <2>1, <2>2 DEF Audited!DeployedAction
<1>9. CASE Audited!LoginBinding
  <2>1. CASE Audited!Goes(FALSE)
    BY <1>5, <2>1
  <2>2. CASE /\ Audited!BindingContract
             /\ inspection' = [inspection EXCEPT !.at = @ + 1, !.passed = @ \cup {"login_binding"}, !.flow = Audited!Flow]
    <3> DEFINE n == inspection.at + 1
               s == inspection.passed \cup {"login_binding"}
               f == Audited!Flow
               b == [inspection EXCEPT !.at = n]
               c == [b EXCEPT !.passed = s]
               a == [c EXCEPT !.flow = f]
    <3>1. inspection' = a
      BY <2>2
    <3>2. f = "repository"
      <4>1. bound = {"ours"} /\ inspection.version # None /\ Len(deployed) = inspection.version
        BY <2>2 DEF Audited!BindingContract
      <4>2. deployed # <<>> /\ deployed[Len(deployed)] = "repository"
        BY <1>3, <4>1
      <4> QED
        BY <4>1, <4>2 DEF Audited!Flow
    <3> HIDE DEF n, s, f
    <3>4. IsInspection(b) /\ b.version = inspection.version
      BY <1>3 DEF IsInspection
    <3> HIDE DEF b
    <3>5. IsInspection(c) /\ c.version = inspection.version
      BY <3>4 DEF IsInspection
    <3> HIDE DEF c
    <3>6. IsInspection(a) /\ a.version = inspection.version /\ a.flow = f
      BY <3>5 DEF IsInspection
    <3> HIDE DEF a
    <3> QED
      BY <1>3, <1>4, <3>1, <3>2, <3>6
  <2> QED
    BY <1>9, <2>1, <2>2 DEF Audited!LoginBinding
<1> QED
  BY <1>6, <1>7, <1>8, <1>9 DEF Audited!Audit

(* The two parts that follow the accounts.                                  *)
LEMMA PInvNext ==
  ASSUME PInv, [MCNext]_all
  PROVE  PInv'
<1>1. CASE UNCHANGED accounts
  BY <1>1, AdministersKeepsPInv DEF accounts
<1>2. CASE Audited!Administer \/ Logins!Administer
  <2>1. UNCHANGED <<claimed, inspection>>
    BY <1>2 DEF Audited!Administer, Audited!Provision, Audited!Verify, Audited!SetSecret, Audited!Deploy, Audited!Bind,
                Logins!Administer, Logins!Provision, Logins!Verify, Logins!SetSecret, Logins!Deploy, Logins!Bind
  <2>2. deployed' = deployed \/ \E c \in {"repository", "other"} : deployed' = Append(deployed, c)
    BY <1>2 DEF Audited!Administer, Audited!Provision, Audited!Verify, Audited!SetSecret, Audited!Deploy, Audited!Bind,
                Logins!Administer, Logins!Provision, Logins!Verify, Logins!SetSecret, Logins!Deploy, Logins!Bind
  <2> QED
    BY <2>1, <2>2, AdministersKeepsPInv
<1>3. CASE Logins!LogIn
  <2>1. PICK audience, claims, mfa : Logins!Login(audience, claims, mfa)
    BY <1>3 DEF Logins!LogIn
  <2>2. Audited!Login(audience, claims, mfa)
    BY <2>1 DEF Logins!Login, Logins!Flow, Logins!PostLogin, Logins!Admitted,
                Audited!Login, Audited!Flow, Audited!PostLogin, Audited!Admitted
  <2> QED
    BY <2>2, LoginKeepsPInv
<1>4. CASE Audited!Audit
  BY <1>4, AuditKeepsPInv
<1> QED
  BY <1>1, <1>2, <1>3, <1>4 DEF MCNext, all

(* Whatever the organisations, roles, audiences and deployments, and        *)
(* however administrators change them between the requests of an audit:     *)
(* tokens of the repository's flow act as administrators provisioned, and a *)
(* report that everything passed saw that flow (post-login-action.cjs,      *)
(* auth0-audit.mjs).                                                        *)
THEOREM AccountsActAsProvisioned == MCSpec => []AccountsHold
<1>1. MCInit => PInv
  BY PInvInit DEF MCInit
<1>2. PInv /\ [MCNext]_all => PInv'
  BY PInvNext
<1>3. ASSUME PInv
      PROVE  AccountsHold
  <2>1. Audited!ActsAsProvisioned
    BY <1>3 DEF PInv, TokenIsProvisioned, Audited!ActsAsProvisioned, Audited!Actor, Audited!KeepsSession
  <2>2. Audited!ReportSawTheFlow
    <3>1. "login_binding" \in {Audited!Checks[n] : n \in DOMAIN Audited!Checks}
      <4>1. 4 \in DOMAIN Audited!Checks /\ Audited!Checks[4] = "login_binding"
        BY DEF Audited!Checks
      <4> QED
        BY <4>1
    <3> QED
      BY <1>3, <3>1 DEF PInv, InspectionSaw, Audited!ReportSawTheFlow, Audited!Report
  <2> QED
    BY <2>1, <2>2 DEF AccountsHold
<1> QED
  BY <1>1, <1>2, <1>3, PTL DEF MCSpec

-----------------------------------------------------------------------------
(* The supplier requests on the operator's page: while declarations are     *)
(* fetched there is nothing on the screen to give a word for.               *)
ChInv == Chase!WordIsForTheScreen /\ (waiting.kind = "review" => declared = None /\ word = None)

LEMMA WordInit ==
  ASSUME Chase!Init
  PROVE  ChInv
BY PagesAssumption DEF ChInv, Chase!Init, Chase!Idle, Chase!WordIsForTheScreen

(* What begins is no import, unless it is the one of the button.            *)
LEMMA WordBegins ==
  ASSUME ChInv, NEW kind, NEW r, Chase!Begin(kind, r), kind # "accept",
         word' \in {None, declared'}, invitation' \in {None} \cup invited', linked' \subseteq invited',
         kind = "review" => declared' = None /\ word' = None
  PROVE  ChInv'
BY DEF ChInv, Chase!WordIsForTheScreen, Chase!Begin

LEMMA WordNext ==
  ASSUME ChInv, [MCNext]_all
  PROVE  ChInv'
<1> USE DEF ChInv, Chase!WordIsForTheScreen
<1>1. CASE UNCHANGED requests
  BY <1>1 DEF requests
<1>2. CASE Chase!Next
  <2>1. CASE \E r \in supplierRequests : Chase!OpenLink(r) \/ Chase!Submit(r)
    BY <2>1 DEF Chase!OpenLink, Chase!Submit, Chase!page, Chase!shows
  <2>2. ASSUME NEW r \in supplierRequests, Chase!CreateRequest(r) PROVE ChInv'
    BY <2>2, WordBegins DEF Chase!CreateRequest, Chase!rows
  <2>3. ASSUME NEW r \in supplierRequests, Chase!OpenReview(r) PROVE ChInv'
    BY <2>3, WordBegins DEF Chase!OpenReview, Chase!shows, Chase!rows
  <2>4. CASE Chase!Load \/ Chase!HideInvitation \/ Chase!CloseReview
    BY <2>4 DEF Chase!Load, Chase!HideInvitation, Chase!CloseReview, Chase!shows, Chase!rows
  <2>5. CASE Chase!CreateSupplier
    BY <2>5, WordBegins DEF Chase!CreateSupplier, Chase!shows, Chase!rows
  <2>6. CASE Chase!Document
    BY <2>6, WordBegins DEF Chase!Document, Chase!shows, Chase!rows
  <2>7. CASE Chase!Tick
    BY <2>7 DEF Chase!Tick, Chase!shows, Chase!rows
  <2>8. CASE Chase!AcceptReview
    BY <2>8 DEF Chase!AcceptReview, Chase!Begin, Chase!shows, Chase!rows
  <2>9. CASE Chase!Answered
    <3>1. waiting'.kind \notin {"accept", "review"}
      BY <2>9, PagesAssumption DEF Chase!Answered, Chase!Idle
    <3>2. word' \in {None, declared'}
      <4>1. CASE UNCHANGED <<declared, word>>
        BY <4>1
      <4>2. CASE word' = None
        BY <4>2
      <4>3. CASE waiting.kind = "review"
        BY <2>9, <4>3 DEF Chase!Answered
      <4> QED
        BY <2>9, <4>1, <4>2, <4>3 DEF Chase!Answered
    <3>3. invitation' \in {None} \cup invited' /\ linked' \subseteq invited'
      BY <2>9 DEF Chase!Answered, Chase!Accepted, Chase!shows, Chase!rows
    <3> QED
      BY <3>1, <3>2, <3>3
  <2>10. CASE Chase!Fails
    BY <2>10, PagesAssumption DEF Chase!Fails, Chase!Accepted, Chase!Idle, Chase!shows, Chase!rows
  <2> QED
    BY <1>2, <2>1, <2>2, <2>3, <2>4, <2>5, <2>6, <2>7, <2>8, <2>9, <2>10 DEF Chase!Next
<1> QED
  BY <1>1, <1>2 DEF MCNext, all

-----------------------------------------------------------------------------
(* The console: what is not with the API yet was not worked at, what the    *)
(* policy let through is the console's own, and the numbers of the sessions *)
(* tell a session from those before.                                        *)
CallHolds(x, at, done) ==
  /\ x = [step |-> x.step, asks |-> x.asks, answer |-> x.answer]
  /\ x.step \in {"unsent", "proxy", "session", "body"} => ~at /\ ~done
  /\ x.step \in {"session", "body"} => x.asks.own
  /\ at \/ done => x.asks.own /\ x.asks.size <= MAX_REQUEST_BYTES
  /\ x.step = "relay" => x.answer.status # "refused" /\ (x.answer.status = "ok" => done)
  /\ x.step \in {"told", "heard"} => (x.answer = "ok" => done) /\ (x.answer = "refused" => ~at /\ ~done)

CallsHold ==
  /\ DOMAIN command = Calls /\ working \subseteq Calls /\ applied \subseteq Calls
  /\ \A c \in Calls : CallHolds(command[c], c \in working, c \in applied)

SessionsHold ==
  /\ cookies \in Nat /\ cookie \in {None} \cup 1..cookies
  /\ leaving = [step |-> leaving.step, with |-> leaving.with]
  /\ leaving.with \in {None} \cup 1..cookies
  /\ leaving.step = "left" => leaving.with = None \/ cookie # leaving.with

CoInv == CallsHold /\ SessionsHold

LEMMA CoInvInit ==
  ASSUME Workspace!Init
  PROVE  CoInv
<1>1. CallsHold
  BY DEF Workspace!Init, Workspace!Unsent, CallsHold, CallHolds
<1>2. SessionsHold
  BY DEF Workspace!Init, SessionsHold
<1> QED
  BY <1>1, <1>2 DEF CoInv

(* A step of a command and of what the API has of it.                       *)
LEMMA CallKeeps ==
  ASSUME CallsHold, NEW c \in Calls, NEW x, command' = [command EXCEPT ![c] = x],
         working' \subseteq Calls, applied' \subseteq Calls,
         \A d \in Calls \ {c} : (d \in working' <=> d \in working) /\ (d \in applied' <=> d \in applied),
         CallHolds(x, c \in working', c \in applied')
  PROVE  CallsHold'
<1>1. DOMAIN command' = Calls /\ command'[c] = x /\ \A d \in Calls \ {c} : command'[d] = command[d]
  BY DEF CallsHold
<1>2. \A d \in Calls \ {c} : CallHolds(command[d], d \in working', d \in applied')
  BY DEF CallsHold, CallHolds
<1> QED
  BY <1>1, <1>2 DEF CallsHold

LEMMA GoesTo ==
  ASSUME CallsHold, NEW c \in Calls, NEW step, Workspace!Goes(c, step)
  PROVE  command' = [command EXCEPT ![c] = [step |-> step, asks |-> command[c].asks, answer |-> command[c].answer]]
<1> DEFINE y == command[c]
<1>1. y = [step |-> y.step, asks |-> y.asks, answer |-> y.answer]
  BY DEF CallsHold, CallHolds
<1>2. [y EXCEPT !.step = step] = [step |-> step, asks |-> y.asks, answer |-> y.answer]
  BY <1>1
<1>3. command' = [command EXCEPT ![c] = [y EXCEPT !.step = step]]
  BY DEF Workspace!Goes
<1> QED
  BY <1>2, <1>3

LEMMA ToldOf ==
  ASSUME CallsHold, NEW c \in Calls, NEW told, Workspace!Tells(c, told)
  PROVE  command' = [command EXCEPT ![c] = [step |-> "told", asks |-> command[c].asks, answer |-> told]]
<1> DEFINE y == command[c]
           x == [step |-> "told", asks |-> y.asks, answer |-> told]
           D == [command EXCEPT ![c].step = "told"]
<1>1. DOMAIN command = Calls /\ y = [step |-> y.step, asks |-> y.asks, answer |-> y.answer]
  BY DEF CallsHold, CallHolds
<1>2. [y EXCEPT !.step = "told"] = [step |-> "told", asks |-> y.asks, answer |-> y.answer]
  BY <1>1
<1>3. DOMAIN D = Calls /\ D[c] = [step |-> "told", asks |-> y.asks, answer |-> y.answer]
  BY <1>1, <1>2
<1>4. \A d \in Calls \ {c} : D[d] = command[d]
  BY <1>1
<1>6. command' = [D EXCEPT ![c].answer = told]
  BY DEF Workspace!Tells
<1> HIDE DEF D
<1>5. [D[c] EXCEPT !.answer = told] = x
  <2>1. [[step |-> "told", asks |-> y.asks, answer |-> y.answer] EXCEPT !.answer = told] = x
    OBVIOUS
  <2> QED
    BY <1>3, <2>1
<1>7. command' = [D EXCEPT ![c] = x]
  BY <1>5, <1>6
<1>8. command' = [d \in Calls |-> IF d = c THEN x ELSE command[d]]
  BY <1>3, <1>4, <1>7
<1> QED
  BY <1>1, <1>8

(* The session, the panel and signing out.                                  *)
LEMMA BrowserKeeps ==
  ASSUME CoInv,
         Workspace!SignIn \/ Workspace!Lapse \/ Workspace!Read \/ Workspace!Shown \/ Workspace!Logout \/ Workspace!LogoutAnswered
  PROVE  CoInv'
<1>1. CallsHold'
  <2>1. UNCHANGED <<command, working, applied>>
    BY DEF Workspace!SignIn, Workspace!Lapse, Workspace!Read, Workspace!Shown, Workspace!Logout, Workspace!LogoutAnswered
  <2> QED
    BY <2>1 DEF CoInv, CallsHold
<1>2. SessionsHold'
  <2> USE DEF CoInv, SessionsHold
  <2>1. CASE Workspace!SignIn
    BY <2>1 DEF Workspace!SignIn, Workspace!pagevars
  <2>2. CASE Workspace!Lapse
    BY <2>2 DEF Workspace!Lapse, Workspace!pagevars
  <2>3. CASE Workspace!Read \/ Workspace!Shown
    BY <2>3 DEF Workspace!Read, Workspace!Shown, Workspace!browser
  <2>4. CASE Workspace!Logout
    BY <2>4 DEF Workspace!Logout, Workspace!browser
  <2>5. CASE Workspace!LogoutAnswered
    <3> DEFINE with == leaving.with
    <3>1. /\ cookies' = cookies /\ cookie' \in {None, cookie}
          /\ \E step \in {"left", "no"} :
               leaving' = [leaving EXCEPT !.step = step] /\ (step = "left" => cookie' = None)
      BY <2>5 DEF Workspace!LogoutAnswered
    <3>2. PICK step \in {"left", "no"} :
            leaving' = [leaving EXCEPT !.step = step] /\ (step = "left" => cookie' = None)
      BY <3>1
    <3>3. leaving' = [step |-> step, with |-> with]
      BY <3>2
    <3>4. leaving' = [step |-> leaving'.step, with |-> leaving'.with] /\ leaving'.step = step /\ leaving'.with = with
      BY <3>3
    <3> QED
      BY <3>1, <3>2, <3>4
  <2> QED
    BY <2>1, <2>2, <2>3, <2>4, <2>5
<1> QED
  BY <1>1, <1>2 DEF CoInv

LEMMA CommandKeeps ==
  ASSUME CallsHold, NEW c \in Calls,
         \/ \E asks \in Workspace!Requests : Workspace!Send(c, asks)
         \/ Workspace!Policy(c) \/ Workspace!FindSession(c) \/ Workspace!ReadBody(c) \/ Workspace!GiveUp(c)
         \/ Workspace!Relay(c) \/ Workspace!Hear(c)
  PROVE  CallsHold'
<1> DEFINE y == command[c]
           at == c \in working
           done == c \in applied
<1>0. CallHolds(y, at, done) /\ working \subseteq Calls /\ applied \subseteq Calls /\ DOMAIN command = Calls
  BY DEF CallsHold
<1>1. CASE UNCHANGED <<working, applied>>
           /\ \E x : command' = [command EXCEPT ![c] = x] /\ CallHolds(x, at, done)
  <2>1. PICK x : command' = [command EXCEPT ![c] = x] /\ CallHolds(x, at, done)
    BY <1>1
  <2> QED
    BY <1>0, <1>1, <2>1, CallKeeps
<1>2. ASSUME NEW asks \in Workspace!Requests, Workspace!Send(c, asks)
      PROVE  CallsHold'
  <2> DEFINE x == [step |-> "proxy", asks |-> asks, answer |-> y.answer]
             D == [command EXCEPT ![c].step = "proxy"]
  <2>1. [y EXCEPT !.step = "proxy"] = [step |-> "proxy", asks |-> y.asks, answer |-> y.answer]
    <3>1. y = [step |-> y.step, asks |-> y.asks, answer |-> y.answer]
      BY <1>0 DEF CallHolds
    <3> QED
      BY <3>1
  <2>2. DOMAIN D = Calls /\ D[c] = [step |-> "proxy", asks |-> y.asks, answer |-> y.answer]
    BY <1>0, <2>1
  <2>3. \A d \in Calls \ {c} : D[d] = command[d]
    BY <1>0
  <2>4. command' = [D EXCEPT ![c].asks = asks]
    BY <1>2 DEF Workspace!Send
  <2>5. [[step |-> "proxy", asks |-> y.asks, answer |-> y.answer] EXCEPT !.asks = asks] = x
    OBVIOUS
  <2> HIDE DEF D
  <2>6. command' = [D EXCEPT ![c] = x]
    BY <2>2, <2>4, <2>5
  <2>7. command' = [d \in Calls |-> IF d = c THEN x ELSE command[d]]
    BY <2>2, <2>3, <2>6
  <2>8. command' = [command EXCEPT ![c] = x]
    BY <1>0, <2>7
  <2>9. CallHolds(x, at, done)
    <3>1. y.step = "unsent"
      BY <1>2 DEF Workspace!Send
    <3> QED
      BY <1>0, <3>1 DEF CallHolds
  <2>10. UNCHANGED <<working, applied>>
    BY <1>2 DEF Workspace!Send
  <2> QED
    BY <1>1, <2>8, <2>9, <2>10
<1>3. ASSUME Workspace!Policy(c)
      PROVE  CallsHold'
  <2>1. CASE Workspace!Goes(c, "session") /\ y.asks.own
    <3>1. CallHolds([step |-> "session", asks |-> y.asks, answer |-> y.answer], at, done)
      BY <1>0, <1>3, <2>1 DEF CallHolds, Workspace!Policy
    <3> QED
      BY <1>1, <1>3, <2>1, <3>1, GoesTo DEF Workspace!Policy
  <2>2. CASE Workspace!Tells(c, "refused")
    <3>1. CallHolds([step |-> "told", asks |-> y.asks, answer |-> "refused"], at, done)
      BY <1>0, <1>3, <2>2 DEF CallHolds, Workspace!Policy
    <3> QED
      BY <1>1, <1>3, <2>2, <3>1, ToldOf DEF Workspace!Policy
  <2> QED
    BY <1>3, <2>1, <2>2 DEF Workspace!Policy, Workspace!Trusted
<1>4. ASSUME Workspace!FindSession(c)
      PROVE  CallsHold'
  <2>1. CASE Workspace!Goes(c, "body")
    <3>1. CallHolds([step |-> "body", asks |-> y.asks, answer |-> y.answer], at, done)
      BY <1>0, <1>4, <2>1 DEF CallHolds, Workspace!FindSession
    <3> QED
      BY <1>1, <1>4, <2>1, <3>1, GoesTo DEF Workspace!FindSession
  <2>2. CASE Workspace!Tells(c, "expired")
    <3>1. CallHolds([step |-> "told", asks |-> y.asks, answer |-> "expired"], at, done)
      BY <1>0, <1>4, <2>2 DEF CallHolds, Workspace!FindSession
    <3> QED
      BY <1>1, <1>4, <2>2, <3>1, ToldOf DEF Workspace!FindSession
  <2> QED
    BY <1>4, <2>1, <2>2 DEF Workspace!FindSession
<1>5. ASSUME Workspace!ReadBody(c)
      PROVE  CallsHold'
  <2>0. ~at /\ ~done /\ y.asks.own /\ applied' = applied
    BY <1>0, <1>5 DEF CallHolds, Workspace!ReadBody
  <2>1. CASE Workspace!Goes(c, "api") /\ working' = working \cup {c} /\ y.asks.size <= MAX_REQUEST_BYTES
    <3>1. CallHolds([step |-> "api", asks |-> y.asks, answer |-> y.answer], TRUE, FALSE)
      BY <2>0, <2>1 DEF CallHolds
    <3>2. CallHolds([step |-> "api", asks |-> y.asks, answer |-> y.answer], c \in working', c \in applied')
      BY <2>0, <2>1, <3>1 DEF CallHolds
    <3> QED
      BY <1>0, <2>0, <2>1, <3>2, GoesTo, CallKeeps
  <2>2. CASE Workspace!Tells(c, "refused") /\ working' = working
    <3>1. CallHolds([step |-> "told", asks |-> y.asks, answer |-> "refused"], at, done)
      BY <2>0 DEF CallHolds
    <3> QED
      BY <1>1, <2>0, <2>2, <3>1, ToldOf
  <2> QED
    BY <1>5, <2>1, <2>2 DEF Workspace!ReadBody, Workspace!Fits
<1>6. ASSUME Workspace!GiveUp(c)
      PROVE  CallsHold'
  <2>1. CallHolds([step |-> "told", asks |-> y.asks, answer |-> "unavailable"], at, done)
    BY <1>0 DEF CallHolds
  <2> QED
    BY <1>1, <1>6, <2>1, ToldOf DEF Workspace!GiveUp
<1>7. ASSUME Workspace!Relay(c)
      PROVE  CallsHold'
  <2>1. PICK a \in {y.answer.status, "unavailable"} : Workspace!Tells(c, a)
    BY <1>7 DEF Workspace!Relay
  <2>2. CallHolds([step |-> "told", asks |-> y.asks, answer |-> a], at, done)
    BY <1>0, <1>7, <2>1 DEF CallHolds, Workspace!Relay
  <2> QED
    BY <1>1, <1>7, <2>1, <2>2, ToldOf DEF Workspace!Relay
<1>8. ASSUME Workspace!Hear(c)
      PROVE  CallsHold'
  <2>1. CallHolds([step |-> "heard", asks |-> y.asks, answer |-> y.answer], at, done)
    BY <1>0, <1>8 DEF CallHolds, Workspace!Hear
  <2> QED
    BY <1>1, <1>8, <2>1, GoesTo DEF Workspace!Hear
<1> QED
  BY <1>2, <1>3, <1>4, <1>5, <1>6, <1>7, <1>8

LEMMA WorkKeeps ==
  ASSUME CallsHold, NEW c \in Calls, NEW done \in BOOLEAN, NEW how \in {"ok", "expired", "failed"}, NEW size,
         Workspace!Work(c, done, how, size)
  PROVE  CallsHold'
<1> DEFINE y == command[c]
           given == [status |-> how, size |-> size]
           x == [step |-> "relay", asks |-> y.asks, answer |-> given]
<1>0. /\ CallHolds(y, TRUE, c \in applied) /\ working \subseteq Calls /\ applied \subseteq Calls /\ DOMAIN command = Calls
      /\ y = [step |-> y.step, asks |-> y.asks, answer |-> y.answer]
  BY DEF CallsHold, CallHolds, Workspace!Work
<1>1. /\ working' = working \ {c} /\ applied' = (IF done THEN applied \cup {c} ELSE applied)
      /\ how = "ok" => done
  BY DEF Workspace!Work
<1>2. CASE y.step # "api"
  <2>1. command' = command
    BY <1>2 DEF Workspace!Work
  <2>2. CallHolds(y, FALSE, c \in applied')
    BY <1>0, <1>1, <1>2 DEF CallHolds
  <2>3. CallHolds(y, c \in working', c \in applied')
    BY <1>1, <2>2 DEF CallHolds
  <2>4. \A d \in Calls \ {c} : CallHolds(command[d], d \in working', d \in applied')
    BY <1>1 DEF CallsHold, CallHolds
  <2> QED
    BY <1>0, <1>1, <2>1, <2>3, <2>4 DEF CallsHold
<1>3. CASE y.step = "api"
  <2>1. CallHolds(x, FALSE, c \in applied')
    BY <1>0, <1>1, <1>3 DEF CallHolds
  <2>2. CallHolds(x, c \in working', c \in applied')
    BY <1>1, <2>1 DEF CallHolds
  <2>3. command' = [command EXCEPT ![c] = x]
    <3> DEFINE D == [command EXCEPT ![c].step = "relay"]
    <3>1. [y EXCEPT !.step = "relay"] = [step |-> "relay", asks |-> y.asks, answer |-> y.answer]
      BY <1>0
    <3>2. DOMAIN D = Calls /\ D[c] = [step |-> "relay", asks |-> y.asks, answer |-> y.answer]
      BY <1>0, <3>1
    <3>3. \A d \in Calls \ {c} : D[d] = command[d]
      BY <1>0
    <3>4. command' = [D EXCEPT ![c].answer = given]
      BY <1>3 DEF Workspace!Work
    <3>5. [[step |-> "relay", asks |-> y.asks, answer |-> y.answer] EXCEPT !.answer = given] = x
      OBVIOUS
    <3> HIDE DEF D
    <3>6. command' = [D EXCEPT ![c] = x]
      BY <3>2, <3>4, <3>5
    <3>7. command' = [d \in Calls |-> IF d = c THEN x ELSE command[d]]
      BY <3>2, <3>3, <3>6
    <3> QED
      BY <1>0, <3>7
  <2> HIDE DEF x
  <2> QED
    BY <1>0, <1>1, <2>2, <2>3, CallKeeps
<1> QED
  BY <1>2, <1>3

LEMMA CoInvNext ==
  ASSUME CoInv, [MCNext]_all
  PROVE  CoInv'
<1>1. CASE UNCHANGED console
  BY <1>1 DEF console, CoInv, CallsHold, SessionsHold
<1>2. ASSUME NEW c \in Calls,
             \/ \E asks \in Workspace!Requests : Workspace!Send(c, asks)
             \/ Workspace!Policy(c) \/ Workspace!FindSession(c) \/ Workspace!ReadBody(c) \/ Workspace!GiveUp(c)
             \/ Workspace!Relay(c) \/ Workspace!Hear(c)
             \/ \E done \in BOOLEAN, how \in {"ok", "expired", "failed"}, size \in Sizes :
                  Workspace!Work(c, done, how, size)
      PROVE  CoInv'
  <2>1. UNCHANGED <<cookie, cookies, leaving>>
    BY <1>2 DEF Workspace!Send, Workspace!Policy, Workspace!FindSession, Workspace!ReadBody, Workspace!GiveUp,
                Workspace!Relay, Workspace!Hear, Workspace!Work, Workspace!browser, Workspace!pagevars
  <2>2. SessionsHold'
    BY <2>1 DEF CoInv, SessionsHold
  <2>3. CallsHold'
    BY <1>2, CommandKeeps, WorkKeeps DEF CoInv
  <2> QED
    BY <2>2, <2>3 DEF CoInv
<1>3. CASE Workspace!Next
  BY <1>2, <1>3, BrowserKeeps DEF Workspace!Next
<1> QED
  BY <1>1, <1>3 DEF MCNext, all

-----------------------------------------------------------------------------
(* The applicability review: what a context, the form and a command under   *)
(* way hold as approved was approved for the model and the decisions that   *)
(* stand beside it, and for exactly the points decided.                     *)
ApprovedFor(t, m, d) == t # None /\ t.model = m /\ t.decisions = d /\ t.profile.points = DOMAIN d

ContextsHold ==
  /\ DOMAIN context = batteries
  /\ \A m \in batteries : context[m] # None /\ context[m].review # None =>
       ApprovedFor(context[m].ticked, m, context[m].decisions)

FormHolds ==
  /\ release \in Profiles
  /\ detail \in {None, selected} /\ fetching \in {None, selected}
  /\ review # None => fetching = None /\ DOMAIN decisions = review.points
  /\ approved # None => review # None /\ ApprovedFor(approved, selected, decisions)

CommandHolds ==
  /\ modelBusy.kind \in {"model", "item", "review"} => modelBusy.model = selected
  /\ modelBusy.kind = "review" =>
       review # None /\ modelBusy.decisions = decisions /\ ApprovedFor(modelBusy.ticked, selected, decisions)

MInv == ContextsHold /\ FormHolds /\ CommandHolds

LEMMA MInvInit ==
  ASSUME Review!Init
  PROVE  MInv
BY PagesAssumption DEF Review!Init, Review!Idle, MInv, ContextsHold, FormHolds, CommandHolds

(* A context is kept if it has no review, or one with its approval.         *)
LEMMA ContextKept ==
  ASSUME ContextsHold, NEW m, NEW c, context' = [context EXCEPT ![m] = c],
         c # None /\ c.review # None => ApprovedFor(c.ticked, m, c.decisions)
  PROVE  ContextsHold'
<1>1. DOMAIN context' = batteries /\ \A n \in batteries : context'[n] = IF n = m THEN c ELSE context[n]
  BY DEF ContextsHold
<1>2. ASSUME NEW n \in batteries, context'[n] # None, context'[n].review # None
      PROVE  ApprovedFor(context'[n].ticked, n, context'[n].decisions)
  BY <1>1, <1>2 DEF ContextsHold
<1> QED
  BY <1>1, <1>2 DEF ContextsHold

LEMMA ModelKept ==
  ASSUME ContextsHold, NEW m, Review!NewModel(m)
  PROVE  ContextsHold'
<1>1. PICK S \in SUBSET Points :
        context' = [context EXCEPT ![m] = [listed |-> S, decisions |-> Review!Blank, review |-> None, ticked |-> None]]
  BY DEF Review!NewModel
<1> QED
  BY <1>1, ContextKept

LEMMA ReviewKept ==
  ASSUME ContextsHold, NEW m, NEW d, NEW t, context' = [context EXCEPT ![m] = Review!Reviewed(d, t)], ApprovedFor(t, m, d)
  PROVE  ContextsHold'
<1>1. Review!Reviewed(d, t).ticked = t /\ Review!Reviewed(d, t).decisions = d
  BY DEF Review!Reviewed
<1> QED
  BY <1>1, ContextKept

LEMMA OtherKeepsMInv ==
  ASSUME MInv, NEW m \in batteries, Review!OtherReviews(m)
  PROVE  MInv'
<1>1. PICK d \in [release.points -> Review!Answers] :
        context' = [context EXCEPT ![m] = Review!Reviewed(d, [model |-> m, decisions |-> d, profile |-> release])]
  BY DEF Review!OtherReviews
<1> DEFINE t == [model |-> m, decisions |-> d, profile |-> release]
<1>2. t \in [model : batteries, decisions : [release.points -> {"yes", "no"}], profile : {release}]
  BY DEF Review!Answers
<1>3. ApprovedFor(t, m, d)
  BY <1>2, PagesAssumption DEF ApprovedFor, MInv, FormHolds
<1>4. ContextsHold'
  BY <1>1, <1>3, ReviewKept DEF MInv
<1> QED
  BY <1>4 DEF Review!OtherReviews, Review!form, MInv, FormHolds, CommandHolds

LEMMA PageKeepsMInv ==
  ASSUME MInv,
         \/ \E m \in batteries \cup {None} : Review!Select(m)
         \/ \E f \in Points, a \in Review!Answers \cup {Review!NotAssessed} : Review!Edit(f, a)
         \/ Review!Release \/ Review!Fetched \/ Review!Approve \/ Review!Create \/ Review!CreateItem \/ Review!Save
  PROVE  MInv'
<1> USE DEF MInv, FormHolds, CommandHolds
<1>0. ASSUME UNCHANGED context
      PROVE  ContextsHold'
  BY <1>0 DEF ContextsHold
<1>1. ASSUME NEW m, Review!Select(m) PROVE MInv'
  BY <1>0, <1>1, PagesAssumption DEF Review!Select, Review!Effect, Review!Idle
<1>2. ASSUME NEW f, NEW a, Review!Edit(f, a) PROVE MInv'
  BY <1>0, <1>2, PagesAssumption DEF Review!Edit, Review!Shown, Review!Idle
<1>3. CASE Review!Release
  BY <1>0, <1>3 DEF Review!Release, Review!form
<1>4. CASE Review!Fetched
  <2>1. DOMAIN Review!Listed(fetching) = release.points
    BY DEF Review!Listed
  <2>2. approved = None /\ modelBusy.kind # "review"
    BY <1>4 DEF Review!Fetched
  <2> QED
    BY <1>0, <1>4, <2>1, <2>2 DEF Review!Fetched
<1>5. CASE Review!Approve
  BY <1>0, <1>5, PagesAssumption DEF Review!Approve, Review!Shown, Review!Idle, ApprovedFor
<1>6. CASE Review!Create \/ Review!CreateItem
  BY <1>0, <1>6 DEF Review!Create, Review!CreateItem, Review!Begin, Review!form
<1>7. CASE Review!Save
  BY <1>0, <1>7 DEF Review!Save, Review!Begin, Review!Shown, Review!form, ApprovedFor
<1> QED
  BY <1>1, <1>2, <1>3, <1>4, <1>5, <1>6, <1>7

LEMMA AnswerKeepsMInv ==
  ASSUME MInv, Review!ModelCreated \/ Review!ItemCreated \/ Review!Saved \/ Review!Fails
  PROVE  MInv'
<1> USE DEF MInv, FormHolds, CommandHolds
<1>1. CASE Review!ModelCreated
  <2>1. PICK m \in batteries \ Review!Created : Review!NewModel(m) /\ Review!Effect(m)
    BY <1>1 DEF Review!ModelCreated
  <2>2. ContextsHold'
    BY <2>1, ModelKept
  <2> QED
    BY <1>1, <2>1, <2>2, PagesAssumption DEF Review!ModelCreated, Review!Effect, Review!Ends, Review!Idle
<1>2. CASE Review!ItemCreated
  <2>1. ContextsHold'
    BY <1>2 DEF Review!ItemCreated, ContextsHold
  <2> QED
    BY <1>2, <2>1, PagesAssumption DEF Review!ItemCreated, Review!Ends, Review!Idle
<1> DEFINE c == Review!Reviewed(modelBusy.decisions, modelBusy.ticked)
<1>3. ASSUME modelBusy.kind = "review", context' = [context EXCEPT ![modelBusy.model] = c]
      PROVE  ContextsHold'
  BY <1>3, ReviewKept
<1>4. CASE Review!Saved
  <2>1. ContextsHold'
    BY <1>3, <1>4 DEF Review!Saved
  <2>2. DOMAIN decisions = release.points
    BY <1>4 DEF Review!Saved, Review!Complete, Review!Reviewed
  <2> QED
    BY <1>4, <2>1, <2>2, PagesAssumption DEF Review!Saved, Review!Ends, Review!Idle
<1>5. CASE Review!Fails
  <2>1. ContextsHold'
    <3>1. CASE UNCHANGED context
      BY <3>1 DEF ContextsHold
    <3> QED
      BY <1>3, <1>5, <3>1, ModelKept DEF Review!Fails
  <2> QED
    BY <1>5, <2>1, PagesAssumption DEF Review!Fails, Review!Ends, Review!Idle, Review!form
<1> QED
  BY <1>1, <1>2, <1>4, <1>5

LEMMA MInvNext ==
  ASSUME MInv, [MCNext]_all
  PROVE  MInv'
<1>1. CASE UNCHANGED models
  BY <1>1 DEF models, MInv, ContextsHold, FormHolds, CommandHolds
<1>2. CASE Review!Next
  BY <1>2, OtherKeepsMInv, PageKeepsMInv, AnswerKeepsMInv DEF Review!Next
<1> QED
  BY <1>1, <1>2 DEF MCNext, all

LEMMA ApprovedIsComplete ==
  ASSUME MInv
  PROVE  Review!CompleteIsApproved
<1> SUFFICES ASSUME NEW m \in batteries, Review!Complete(context[m])
             PROVE  ApprovedFor(context[m].ticked, m, context[m].decisions) /\ DOMAIN context[m].decisions = release.points
  BY DEF Review!CompleteIsApproved, ApprovedFor
<1>1. context[m] # None /\ context[m].review = release /\ DOMAIN context[m].decisions = release.points
  BY DEF Review!Complete
<1> QED
  BY <1>1, PagesAssumption DEF MInv, ContextsHold, FormHolds

-----------------------------------------------------------------------------
(* The intake form: what was sent fits, and a reference is that of the row. *)
Post == [form : {f \in Forms : Form!FitsMessage(f)}, step : {"sent", "looked", "done"}]

PostsFit ==
  /\ DOMAIN intake = Pages /\ \A p \in Pages : intake[p] \in Forms \cup {None}
  /\ DOMAIN posts = Pages /\ \A p \in Pages : posts[p] \in Seq(Post)

ReferencesHold ==
  /\ DOMAIN reference = Pages /\ DOMAIN intakes = Pages
  /\ \A p \in Pages : reference[p] # None => intakes[p] = reference[p]

FInv == PostsFit /\ ReferencesHold

LEMMA FInvInit ==
  ASSUME Form!Init
  PROVE  FInv
BY DEF Form!Init, FInv, PostsFit, ReferencesHold

LEMMA GoesKeepsPosts ==
  ASSUME PostsFit, NEW p \in Pages, NEW n \in DOMAIN posts[p], NEW step \in {"sent", "looked", "done"},
         Form!Goes(p, n, step), UNCHANGED intake
  PROVE  PostsFit'
<1> DEFINE s == posts[p]
           x == s[n]
<1>1. s \in Seq(Post) /\ n \in 1..Len(s) /\ x \in Post
  BY DEF PostsFit
<1>2. [x EXCEPT !.step = step] \in Post
  BY <1>1 DEF Post
<1>3. [s EXCEPT ![n].step = step] \in Seq(Post)
  <2>1. [s EXCEPT ![n].step = step] = [s EXCEPT ![n] = [x EXCEPT !.step = step]]
    OBVIOUS
  <2> HIDE DEF x
  <2> QED
    BY <1>1, <1>2, <2>1
<1>4. posts' = [posts EXCEPT ![p] = [s EXCEPT ![n].step = step]]
  BY DEF Form!Goes
<1> QED
  BY <1>3, <1>4 DEF PostsFit

(* An answer that counts is that of the row, before and after.              *)
LEMMA AnswerKeepsFInv ==
  ASSUME FInv, NEW p \in Pages, NEW n \in DOMAIN posts[p], NEW taken, Form!Answer(p, n, taken),
         DOMAIN intakes' = Pages, \A q \in Pages \ {p} : intakes'[q] = intakes[q],
         reference[p] # None => intakes'[p] = intakes[p],
         taken => intakes'[p] = posts[p][n].form
  PROVE  FInv'
<1>1. PostsFit'
  BY GoesKeepsPosts DEF FInv, Form!Answer
<1>2. ReferencesHold'
  <2>1. \/ reference' = [reference EXCEPT ![p] = posts[p][n].form] /\ taken
        \/ reference' = [reference EXCEPT ![p] = @]
    BY DEF Form!Answer
  <2> QED
    BY <2>1 DEF FInv, ReferencesHold
<1> QED
  BY <1>1, <1>2 DEF FInv

LEMMA FInvNext ==
  ASSUME FInv, [MCNext]_all
  PROVE  FInv'
<1>0. ASSUME UNCHANGED <<intake, posts, reference, intakes>> PROVE FInv'
  BY <1>0 DEF FInv, PostsFit, ReferencesHold
<1>1. CASE UNCHANGED intaking
  BY <1>0, <1>1 DEF intaking
<1>2. CASE Form!NextHour \/ Form!Others \/ \E p \in Pages : Form!Lost(p)
  BY <1>0, <1>2 DEF Form!NextHour, Form!Others, Form!Lost
<1>3. ASSUME NEW p \in Pages, NEW f \in Forms, Form!Edit(p, f)
      PROVE  FInv'
  BY <1>3 DEF Form!Edit, FInv, PostsFit, ReferencesHold
<1>4. ASSUME NEW p \in Pages, Form!Submit(p)
      PROVE  FInv'
  <2> DEFINE x == [form |-> intake[p], step |-> "sent"]
  <2>1. x \in Post
    BY <1>4 DEF Form!Submit, Form!Composes, Form!FitsMessage, Post, FInv, PostsFit
  <2>2. posts[p] \in Seq(Post)
    BY DEF FInv, PostsFit
  <2> HIDE DEF x
  <2>3. Append(posts[p], x) \in Seq(Post)
    BY <2>1, <2>2
  <2>4. posts' = [posts EXCEPT ![p] = Append(posts[p], x)] /\ UNCHANGED <<intake, reference, intakes>>
    BY <1>4 DEF Form!Submit, x
  <2> QED
    BY <2>3, <2>4 DEF FInv, PostsFit, ReferencesHold
<1>5. ASSUME NEW p \in Pages, NEW n \in DOMAIN posts[p],
             Form!Unavailable(p, n) \/ Form!Look(p, n) \/ Form!Insert(p, n) \/ Form!Ignored(p, n)
      PROVE  FInv'
  <2> DEFINE f == posts[p][n].form
  <2>0. ASSUME NEW taken, Form!Answer(p, n, taken), UNCHANGED intakes, taken => intakes[p] = f
        PROVE  FInv'
    BY <2>0, AnswerKeepsFInv DEF FInv, ReferencesHold
  <2>1. CASE Form!Unavailable(p, n)
    BY <2>0, <2>1 DEF Form!Unavailable, Form!Refuse
  <2>2. CASE Form!Look(p, n)
    <3>1. CASE Form!Refuse(p, n)
      BY <2>0, <3>1 DEF Form!Refuse
    <3>2. CASE Form!Repeated(p, n) /\ UNCHANGED intakes
      BY <2>0, <3>2 DEF Form!Repeated
    <3>3. CASE Form!Goes(p, n, "looked") /\ UNCHANGED <<intake, reference, intakes>>
      BY <3>3, GoesKeepsPosts DEF FInv, ReferencesHold
    <3> QED
      BY <2>2, <3>1, <3>2, <3>3 DEF Form!Look
  <2>3. CASE Form!Insert(p, n)
    <3>1. intakes[p] = None /\ intakes' = [intakes EXCEPT ![p] = f]
      BY <2>3 DEF Form!Insert
    <3>2. PICK told \in BOOLEAN : Form!Answer(p, n, told)
      BY <2>3 DEF Form!Insert
    <3>3. reference[p] = None /\ DOMAIN intakes = Pages
      BY <3>1 DEF FInv, ReferencesHold
    <3>4. DOMAIN intakes' = Pages /\ intakes'[p] = f /\ \A q \in Pages \ {p} : intakes'[q] = intakes[q]
      BY <3>1, <3>3
    <3> HIDE DEF f
    <3> QED
      BY <3>2, <3>3, <3>4, AnswerKeepsFInv DEF f
  <2>4. CASE Form!Ignored(p, n)
    <3>1. CASE Form!Repeated(p, n)
      BY <2>0, <2>4, <3>1 DEF Form!Repeated, Form!Ignored
    <3>2. CASE Form!Answer(p, n, FALSE)
      BY <2>0, <2>4, <3>2 DEF Form!Ignored
    <3> QED
      BY <2>4, <3>1, <3>2 DEF Form!Ignored
  <2> QED
    BY <1>5, <2>1, <2>2, <2>3, <2>4
<1>6. CASE Form!Next
  BY <1>2, <1>3, <1>4, <1>5, <1>6 DEF Form!Next
<1> QED
  BY <1>1, <1>6 DEF MCNext, all

LEMMA StoredIsConfirmed ==
  ASSUME FInv
  PROVE  Form!ConfirmedIsStored
<1>1. ASSUME NEW p \in Pages, NEW n \in DOMAIN posts[p]
      PROVE  Form!FitsMessage(posts[p][n].form)
  <2>1. posts[p] \in Seq(Post)
    BY DEF FInv, PostsFit
  <2>2. posts[p][n] \in Post
    BY <2>1
  <2> QED
    BY <2>2 DEF Post
<1> QED
  BY <1>1 DEF FInv, ReferencesHold, Form!ConfirmedIsStored

-----------------------------------------------------------------------------
(* The dossier: loads are numbered and only the last one is shown; what is  *)
(* on screen was read for one item, and only others have written since;     *)
(* what is ticked and under way is about it.                                *)
LoadsHold ==
  /\ sequence \in Nat
  /\ \A l \in loads : l.request \in 1..sequence /\ l.id \in items
  /\ \A k, l \in loads : k.request = l.request => k = l

SavedHolds == saved \in [items \X Fields -> [no : Nat, by : {None, "page", "other", "lost"}]]

(* v was read for this field of this item; the page has saved none since.   *)
ReadFor(v, i, f) ==
  /\ v = <<i, f, v[3], v[4]>> /\ v[3] \in Nat /\ v[4] # None
  /\ v[3] <= saved[<<i, f>>].no
  /\ v[3] = saved[<<i, f>>].no => saved[<<i, f>>].by \in {None, v[4]}
  /\ v[3] < saved[<<i, f>>].no => saved[<<i, f>>].by # "page"

ValuesHold ==
  /\ DOMAIN values = Fields
  /\ \A f \in Fields : values[f] # Dossier!NoValue => item # None /\ ReadFor(values[f], item, f)

ScreenHolds ==
  /\ field \in Fields
  /\ item # None => item \in items /\ itemId = item /\ \A l \in loads : ~Dossier!Latest(l)
  /\ valueFetching \in {Dossier!NoValue, Dossier!value}
  /\ \/ valueDetail \in {Dossier!NoValue, Dossier!value}
     \/ Dossier!value = Dossier!NoValue
     \/ Dossier!Replaced(valueDetail, Dossier!value)

TicksHold ==
  /\ DOMAIN confirmed = Dossier!Confirmations
  /\ \A c \in Dossier!Confirmations : confirmed[c] # None => confirmed[c] = item
  /\ DOMAIN reviewed = evidence
  /\ \A e \in evidence : reviewed[e] # None => reviewed[e] = Dossier!value

Sent == (Dossier!Loading \ {"open"}) \cup Dossier!Confirmations \cup {"verify", "download", "detail"}

WorkHolds ==
  /\ \/ busy = Dossier!Idle
     \/ busy = [kind |-> "open", at |-> busy.at] /\ busy.at # 0
     \/ /\ busy.kind \in Sent
        /\ busy = [kind |-> busy.kind, at |-> busy.at, item |-> busy.item, shown |-> busy.shown,
                   ticked |-> busy.ticked, value |-> busy.value, detail |-> busy.detail]
  /\ busy.kind # None /\ busy.at = 0 => item # None
  /\ busy.kind = "verify" => item # None /\ busy.value = Dossier!value
  /\ busy.kind = "detail" =>
       /\ item # None
       /\ Dossier!value \in {Dossier!NoValue, busy.value} \/ Dossier!Replaced(busy.value, Dossier!value)
  /\ busy.kind = "link" =>
       /\ itemId # None /\ ReadFor(busy.value, itemId, field)
       /\ busy.at # 0 => itemId \in items /\ busy.at = sequence /\ \A l \in loads : Dossier!Latest(l) => l.id = itemId

IInv == LoadsHold /\ SavedHolds /\ ValuesHold /\ ScreenHolds /\ TicksHold /\ WorkHolds /\ Dossier!CommandsAreMeant

(* What the API has is read as it is, and is the value that was read before *)
(* or another's that has replaced it.                                       *)
LEMMA ValueIsRead ==
  ASSUME SavedHolds, NEW i \in items, NEW f \in Fields, Dossier!ValueOf(i, f) # Dossier!NoValue
  PROVE  i # None /\ ReadFor(Dossier!ValueOf(i, f), i, f)
<1> DEFINE s == saved[<<i, f>>]
<1>1. s \in [no : Nat, by : {None, "page", "other", "lost"}]
  BY DEF SavedHolds
<1>2. i # None /\ s.by # None /\ Dossier!ValueOf(i, f) = <<i, f, s.no, s.by>>
  BY DEF Dossier!ValueOf
<1> QED
  BY <1>1, <1>2 DEF ReadFor

LEMMA ReadAgain ==
  ASSUME SavedHolds, NEW i \in items, NEW f \in Fields, NEW v, ReadFor(v, i, f)
  PROVE  Dossier!ValueOf(i, f) \in {Dossier!NoValue, v} \/ Dossier!Replaced(v, Dossier!ValueOf(i, f))
<1> DEFINE s == saved[<<i, f>>]
<1>1. s.no \in Nat /\ s.by \in {None, "page", "other", "lost"}
  BY DEF SavedHolds
<1>2. CASE i = None \/ s.by = None
  BY <1>2 DEF Dossier!ValueOf
<1>3. CASE i # None /\ s.by # None
  <2>1. Dossier!ValueOf(i, f) = <<i, f, s.no, s.by>>
    BY <1>3 DEF Dossier!ValueOf
  <2>2. v = <<i, f, v[3], v[4]>> /\ v[3] \in Nat /\ v[3] <= s.no
    BY DEF ReadFor
  <2>3. CASE v[3] = s.no
    BY <1>3, <2>1, <2>2, <2>3 DEF ReadFor
  <2>4. CASE v[3] < s.no
    <3>1. s.by \in {"other", "lost"}
      BY <1>1, <1>3, <2>4 DEF ReadFor
    <3>2. v[1] = i /\ v[2] = f
      BY <2>2
    <3> QED
      BY <2>1, <2>4, <3>1, <3>2 DEF Dossier!Replaced
  <2> QED
    BY <1>1, <2>2, <2>3, <2>4
<1> QED
  BY <1>2, <1>3

(* Someone else's write, or one the page is not told of.                    *)
Elsewhere(i, f) ==
  \/ \E who \in {"other", "lost"} : Dossier!Write(i, f, who)
  \/ saved[<<i, f>>].by # None /\ saved' = [saved EXCEPT ![<<i, f>>].by = None]

LEMMA ElsewhereKeeps ==
  ASSUME SavedHolds, NEW i \in items, NEW f \in Fields, Elsewhere(i, f)
  PROVE  /\ SavedHolds'
         /\ \A v : \A j \in items, g \in Fields : ReadFor(v, j, g) => ReadFor(v, j, g)'
<1> DEFINE s == saved[<<i, f>>]
<1>1. s \in [no : Nat, by : {None, "page", "other", "lost"}]
  BY DEF SavedHolds
<1>2. PICK t \in [no : Nat, by : {None, "other", "lost"}] :
        saved' = [saved EXCEPT ![<<i, f>>] = t] /\ ((t.no = s.no /\ t.by = None) \/ t.no = s.no + 1)
  <2>1. CASE \E who \in {"other", "lost"} : Dossier!Write(i, f, who)
    <3>1. PICK who \in {"other", "lost"} : Dossier!Write(i, f, who)
      BY <2>1
    <3>2. saved' = [saved EXCEPT ![<<i, f>>] = [no |-> s.no + 1, by |-> who]]
      BY <3>1 DEF Dossier!Write
    <3>3. [no |-> s.no + 1, by |-> who] \in [no : Nat, by : {None, "other", "lost"}]
      BY <1>1
    <3> QED
      BY <3>2, <3>3
  <2>2. CASE saved' = [saved EXCEPT ![<<i, f>>].by = None]
    <3>1. [s EXCEPT !.by = None] = [no |-> s.no, by |-> None]
      BY <1>1
    <3>2. saved' = [saved EXCEPT ![<<i, f>>] = [s EXCEPT !.by = None]]
      BY <2>2
    <3>3. [no |-> s.no, by |-> None] \in [no : Nat, by : {None, "other", "lost"}]
      BY <1>1
    <3> QED
      BY <3>1, <3>2, <3>3
  <2> QED
    BY <2>1, <2>2 DEF Elsewhere
<1>3. SavedHolds'
  BY <1>2 DEF SavedHolds
<1>4. ASSUME NEW v, NEW j \in items, NEW g \in Fields, ReadFor(v, j, g) PROVE ReadFor(v, j, g)'
  <2>1. CASE <<j, g>> = <<i, f>>
    <3>1. saved'[<<j, g>>] = t /\ saved[<<j, g>>] = s
      BY <1>2, <2>1 DEF SavedHolds
    <3>2. t.no \in Nat /\ t.by \in {None, "other", "lost"} /\ s.no \in Nat
      BY <1>1, <1>2
    <3>3. v = <<j, g, v[3], v[4]>> /\ v[3] \in Nat /\ v[4] # None /\ v[3] <= s.no
      BY <1>4, <3>1 DEF ReadFor
    <3>4. v[3] <= t.no /\ (v[3] = t.no => t.by = None)
      BY <1>2, <3>2, <3>3
    <3> QED
      BY <3>1, <3>2, <3>3, <3>4, PagesAssumption DEF ReadFor
  <2>2. CASE <<j, g>> # <<i, f>>
    <3>1. saved'[<<j, g>>] = saved[<<j, g>>]
      BY <1>2, <2>2 DEF SavedHolds
    <3> QED
      BY <1>4, <3>1 DEF ReadFor
  <2> QED
    BY <2>1, <2>2
<1> QED
  BY <1>3, <1>4

LEMMA IInvInit ==
  ASSUME Dossier!Init
  PROVE  IInv
<1> USE DEF Dossier!Init
<1>1. LoadsHold /\ SavedHolds
  BY DEF LoadsHold, SavedHolds
<1>2. ValuesHold /\ ScreenHolds
  BY DEF ValuesHold, ScreenHolds, Dossier!ValuesOf, Dossier!ValueOf, Dossier!value
<1>3. TicksHold
  BY DEF TicksHold, Dossier!Nothing, Dossier!Unread
<1>4. WorkHolds
  BY PagesAssumption DEF WorkHolds, Dossier!Idle
<1> QED
  BY <1>1, <1>2, <1>3, <1>4 DEF IInv, Dossier!CommandsAreMeant, Dossier!Idle

(* A load begins: what was on the screen is gone.                           *)
LEMMA BeginsALoad ==
  ASSUME LoadsHold, field \in Fields, NEW i \in items, Dossier!BeginLoad(i), field' = field
  PROVE  LoadsHold' /\ ValuesHold' /\ ScreenHolds' /\ TicksHold' /\ \A l \in loads' : Dossier!Latest(l)' => l.id = i
<1> DEFINE l0 == [id |-> i, request |-> sequence + 1]
<1>1. /\ sequence' = sequence + 1 /\ loads' = loads \cup {l0} /\ item' = None
      /\ confirmed' = Dossier!Nothing /\ reviewed' = Dossier!Unread
      /\ values' = [f \in Fields |-> Dossier!NoValue]
      /\ valueDetail' = Dossier!NoValue /\ valueFetching' = Dossier!NoValue
  BY DEF Dossier!BeginLoad, Dossier!Effect, Dossier!ValuesOf, Dossier!ValueOf
<1>2. l0.request = sequence + 1 /\ l0.id = i
  OBVIOUS
<1> HIDE DEF l0
<1>3. LoadsHold'
  BY <1>1, <1>2 DEF LoadsHold
<1>4. ValuesHold' /\ ScreenHolds'
  BY <1>1 DEF ValuesHold, ScreenHolds, Dossier!value
<1>5. TicksHold'
  BY <1>1 DEF TicksHold, Dossier!Nothing, Dossier!Unread
<1>6. \A l \in loads' : l.request = sequence' => l.id = i
  BY <1>1, <1>2 DEF LoadsHold
<1> QED
  BY <1>3, <1>4, <1>5, <1>6 DEF Dossier!Latest

(* The fields of a command that was sent.                                   *)
LEMMA SentHasFields ==
  ASSUME WorkHolds, busy.kind \in Sent
  PROVE  /\ \A at : [busy EXCEPT !.at = at] = [kind |-> busy.kind, at |-> at, item |-> busy.item, shown |-> busy.shown,
                                               ticked |-> busy.ticked, value |-> busy.value, detail |-> busy.detail]
         /\ [busy EXCEPT !.kind = "detail"] = [kind |-> "detail", at |-> busy.at, item |-> busy.item, shown |-> busy.shown,
                                               ticked |-> busy.ticked, value |-> busy.value, detail |-> busy.detail]
<1>1. busy = [kind |-> busy.kind, at |-> busy.at, item |-> busy.item, shown |-> busy.shown,
              ticked |-> busy.ticked, value |-> busy.value, detail |-> busy.detail]
  BY PagesAssumption DEF WorkHolds, Sent, Dossier!Idle, Dossier!Loading, Dossier!Confirmations
<1> QED
  BY <1>1

LEMMA LoadedKeepsIInv ==
  ASSUME IInv, NEW l \in loads, Dossier!Loaded(l)
  PROVE  IInv'
<1> USE DEF IInv
<1>0. loads' = loads \ {l} /\ busy' = Dossier!After(l) /\ UNCHANGED <<field, confirmed, saved, sequence>>
  BY DEF Dossier!Loaded
<1>1. LoadsHold' /\ SavedHolds'
  BY <1>0 DEF LoadsHold, SavedHolds
<1>a. busy.kind # "link" => busy' \in {busy, Dossier!Idle}
  BY <1>0 DEF Dossier!After
<1>b. busy.kind = "link" => busy' \in {busy, [busy EXCEPT !.kind = "detail"]}
  BY <1>0 DEF Dossier!After, Dossier!Loading
<1>c. "link" \in Sent /\ "detail" \in Sent
  BY DEF Sent, Dossier!Loading
<1>2. CASE Dossier!Latest(l)
  <2>1. item = None /\ item' = l.id /\ itemId' = l.id /\ l.id \in items /\ values' = Dossier!ValuesOf(l.id)
    BY <1>2 DEF ScreenHolds, LoadsHold, Dossier!Loaded
  <2>2. \A k \in loads' : ~(k.request = sequence)
    BY <1>0, <1>2 DEF LoadsHold, Dossier!Latest
  <2>3. ValuesHold'
    <3>1. ASSUME NEW f \in Fields, values'[f] # Dossier!NoValue PROVE item' # None /\ ReadFor(values'[f], item', f)
      BY <2>1, <3>1, ValueIsRead DEF Dossier!ValuesOf
    <3>2. DOMAIN values' = Fields
      BY <2>1 DEF Dossier!ValuesOf
    <3> QED
      BY <1>0, <3>1, <3>2 DEF ValuesHold, ReadFor
  <2>4. Dossier!value' = Dossier!ValueOf(l.id, field)
    BY <1>0, <2>1 DEF Dossier!value, Dossier!ValuesOf, ScreenHolds
  <2>5. \/ Dossier!value' = Dossier!value /\ UNCHANGED <<valueDetail, valueFetching, reviewed>>
        \/ valueDetail' = Dossier!NoValue /\ valueFetching' = Dossier!value' /\ reviewed' = Dossier!Unread
    BY <1>2, <2>4 DEF Dossier!Loaded, Dossier!Effect
  <2>6. ScreenHolds'
    <3>1. \A k \in loads' : ~Dossier!Latest(k)'
      BY <1>0, <2>2 DEF Dossier!Latest
    <3> HIDE DEF IInv
    <3>2. CASE Dossier!value' = Dossier!value /\ UNCHANGED <<valueDetail, valueFetching, reviewed>>
      BY <1>0, <2>1, <3>1, <3>2 DEF IInv, ScreenHolds, Dossier!Replaced
    <3>3. CASE valueDetail' = Dossier!NoValue /\ valueFetching' = Dossier!value' /\ reviewed' = Dossier!Unread
      BY <1>0, <2>1, <3>1, <3>3 DEF IInv, ScreenHolds
    <3> QED
      BY <2>5, <3>2, <3>3
  <2>7. TicksHold'
    <3>1. \A c \in Dossier!Confirmations : confirmed[c] = None
      BY <2>1 DEF TicksHold
    <3> QED
      BY <1>0, <2>5, <3>1 DEF TicksHold, Dossier!Unread
  <2>8. WorkHolds' /\ Dossier!CommandsAreMeant'
    <3>1. busy.kind \notin {"verify", "detail"} /\ (busy.kind = None \/ busy.at # 0)
      BY <2>1 DEF WorkHolds
    <3>2. CASE busy.kind = "link"
      <4>1. busy.at = sequence /\ l.id = itemId /\ l.request = sequence /\ busy.at # 0
        BY <1>2, <2>1, <3>1, <3>2, PagesAssumption DEF WorkHolds, Dossier!Latest
      <4>2. busy' = [busy EXCEPT !.kind = "detail"]
        BY <1>0, <3>2, <4>1 DEF Dossier!After, Dossier!Loading
      <4>3. /\ busy' = [kind |-> "detail", at |-> busy.at, item |-> busy.item, shown |-> busy.shown,
                        ticked |-> busy.ticked, value |-> busy.value, detail |-> busy.detail]
        BY <1>c, <3>2, <4>2, SentHasFields
      <4>4. /\ busy'.kind = "detail" /\ busy'.at = busy.at /\ busy'.value = busy.value
            /\ busy'.item = busy.item /\ busy'.shown = busy.shown
            /\ busy' = [kind |-> busy'.kind, at |-> busy'.at, item |-> busy'.item, shown |-> busy'.shown,
                        ticked |-> busy'.ticked, value |-> busy'.value, detail |-> busy'.detail]
        BY <4>3
      <4>5. ReadFor(busy.value, l.id, field)
        BY <3>2, <4>1 DEF WorkHolds
      <4>6. \/ Dossier!value' \in {Dossier!NoValue, busy'.value}
            \/ Dossier!Replaced(busy'.value, Dossier!value')
        BY <2>1, <2>4, <4>4, <4>5, ReadAgain DEF ScreenHolds
      <4>7. item' # None
        BY <2>1, <3>2, <4>1 DEF WorkHolds
      <4>8. Dossier!CommandsAreMeant'
        BY <3>2, <4>4, PagesAssumption DEF Dossier!CommandsAreMeant, Dossier!OnValue, Dossier!Confirmations
      <4> QED
        BY <1>c, <4>4, <4>6, <4>7, <4>8, PagesAssumption DEF WorkHolds, Dossier!Replaced
    <3>3. CASE busy.kind # "link"
      <4>1. busy' \in {busy, Dossier!Idle}
        BY <1>a, <3>3
      <4>2. WorkHolds'
        BY <3>1, <3>3, <4>1, PagesAssumption DEF WorkHolds, Dossier!Idle
      <4>3. Dossier!CommandsAreMeant'
        BY <4>1, PagesAssumption DEF Dossier!CommandsAreMeant, Dossier!Idle, Dossier!Replaced
      <4> QED
        BY <4>2, <4>3
    <3> QED
      BY <3>2, <3>3
  <2> QED
    BY <1>1, <2>3, <2>6, <2>7, <2>8
<1>3. CASE ~Dossier!Latest(l)
  <2>1. UNCHANGED <<item, itemId, values, valueDetail, valueFetching, reviewed>>
    BY <1>3 DEF Dossier!Loaded
  <2>2. ScreenHolds' /\ ValuesHold'
    BY <1>0, <2>1 DEF ScreenHolds, ValuesHold, ReadFor, Dossier!value, Dossier!Latest, Dossier!Replaced
  <2>3. TicksHold'
    BY <1>0, <2>1 DEF TicksHold, Dossier!value
  <2>4. busy.kind = "link" => busy' = busy
    <3>1. ASSUME busy.kind = "link" PROVE busy.at # l.request
      BY <1>3, <3>1 DEF WorkHolds, LoadsHold, Dossier!Latest
    <3> QED
      BY <1>0, <3>1 DEF Dossier!After
  <2>5. busy' \in {busy, Dossier!Idle}
    BY <1>a, <2>4
  <2>6. WorkHolds'
    BY <1>0, <2>1, <2>5, PagesAssumption DEF WorkHolds, ReadFor, Dossier!Idle, Dossier!value, Dossier!Latest, Dossier!Replaced
  <2>7. Dossier!CommandsAreMeant'
    BY <2>5, PagesAssumption DEF Dossier!CommandsAreMeant, Dossier!Idle, Dossier!Replaced
  <2> QED
    BY <1>1, <2>2, <2>3, <2>6, <2>7
<1> QED
  BY <1>2, <1>3

(* What is sent, from the state of the page.                                *)
LEMMA RunIsMeant ==
  ASSUME IInv, NEW kind \in Sent \ {"detail"}, NEW ticked, Dossier!Run(kind, ticked), item # None,
         kind \in Dossier!Confirmations => ticked = item,
         kind = "verify" => ticked = Dossier!value /\ valueDetail # Dossier!NoValue,
         kind \in Dossier!OnValue => Dossier!value # Dossier!NoValue
  PROVE  IInv'
<1> USE DEF IInv
<1>0. /\ confirmed' = Dossier!Nothing
      /\ UNCHANGED <<item, itemId, field, values, valueDetail, valueFetching, reviewed, saved, sequence, loads>>
      /\ busy' = [kind |-> kind, at |-> 0, item |-> itemId, shown |-> item, ticked |-> ticked,
                  value |-> IF kind \in Dossier!OnValue THEN Dossier!value ELSE Dossier!NoValue,
                  detail |-> IF kind = "verify" THEN valueDetail ELSE Dossier!NoValue]
  BY DEF Dossier!Run, Dossier!screen
<1>1. LoadsHold' /\ SavedHolds' /\ ValuesHold'
  BY <1>0 DEF LoadsHold, SavedHolds, ValuesHold, ReadFor
<1>2. Dossier!value' = Dossier!value /\ (\A l : Dossier!Latest(l)' <=> Dossier!Latest(l))
  BY <1>0 DEF Dossier!value, Dossier!Latest
<1>3. ScreenHolds' /\ TicksHold'
  BY <1>0, <1>2 DEF ScreenHolds, TicksHold, Dossier!Nothing, Dossier!Replaced
<1>4. /\ busy'.kind = kind /\ busy'.at = 0 /\ busy'.item = itemId /\ busy'.shown = item /\ busy'.ticked = ticked
      /\ busy' = [kind |-> busy'.kind, at |-> busy'.at, item |-> busy'.item, shown |-> busy'.shown,
                  ticked |-> busy'.ticked, value |-> busy'.value, detail |-> busy'.detail]
      /\ kind \in Dossier!OnValue => busy'.value = Dossier!value
      /\ kind = "verify" => busy'.detail = valueDetail
  BY <1>0
<1>5. itemId = item /\ (Dossier!value # Dossier!NoValue => ReadFor(Dossier!value, item, field) /\ Dossier!value[1] = item)
  <2>1. itemId = item /\ field \in Fields
    BY DEF ScreenHolds
  <2>2. Dossier!value # Dossier!NoValue => ReadFor(Dossier!value, item, field)
    BY <2>1 DEF ValuesHold, Dossier!value
  <2>3. ReadFor(Dossier!value, item, field) => Dossier!value[1] = item
    BY DEF ReadFor
  <2> QED
    BY <2>1, <2>2, <2>3
<1>6. WorkHolds'
  <2>1. kind \in {"verify", "link"} => kind \in Dossier!OnValue
    BY DEF Dossier!OnValue
  <2>2. kind = "link" => ReadFor(busy.value, itemId, field)'
    <3>1. ASSUME kind = "link" PROVE busy'.value = Dossier!value /\ ReadFor(Dossier!value, itemId, field)
      BY <1>4, <1>5, <2>1, <3>1
    <3> QED
      BY <1>0, <3>1 DEF ReadFor
  <2> QED
    BY <1>0, <1>2, <1>4, <1>5, <2>1, <2>2 DEF WorkHolds
<1>7. Dossier!CommandsAreMeant'
  <2>1. kind = "verify" => /\ busy'.ticked = busy'.value
                           /\ busy'.detail = busy'.value \/ Dossier!Replaced(busy'.detail, busy'.value)
    <3>1. ASSUME kind = "verify" PROVE valueDetail = Dossier!value \/ Dossier!Replaced(valueDetail, Dossier!value)
      BY <3>1 DEF ScreenHolds, Dossier!OnValue
    <3> QED
      BY <1>4, <3>1 DEF Dossier!OnValue
  <2> QED
    BY <1>4, <1>5, <2>1 DEF Dossier!CommandsAreMeant, Dossier!Replaced
<1> QED
  BY <1>1, <1>3, <1>6, <1>7

LEMMA CommandKeepsIInv ==
  ASSUME IInv, NEW kind \in Dossier!Loading \cup Dossier!Confirmations \cup {"verify", "download"}, Dossier!Command(kind)
  PROVE  IInv'
<1>0. item # None
  BY DEF Dossier!Command
<1>1. ASSUME kind \in {"save", "validatePassport", "download"}, Dossier!Run(kind, None) PROVE IInv'
  <2>1. kind \in Sent \ {"detail"} /\ kind \notin Dossier!Confirmations \cup Dossier!OnValue \cup {"verify"}
    BY <1>1 DEF Sent, Dossier!Loading, Dossier!Confirmations, Dossier!OnValue
  <2> QED
    BY <1>0, <1>1, <2>1, RunIsMeant
<1>2. ASSUME kind \in {"link", "validateValue"}, Dossier!value # Dossier!NoValue, Dossier!Run(kind, None) PROVE IInv'
  <2>1. kind \in Sent \ {"detail"} /\ kind \notin Dossier!Confirmations \cup {"verify"}
    BY <1>2 DEF Sent, Dossier!Loading, Dossier!Confirmations
  <2> QED
    BY <1>0, <1>2, <2>1, RunIsMeant
<1>3. ASSUME kind \in Dossier!Confirmations, confirmed[kind] # None, Dossier!Run(kind, confirmed[kind]) PROVE IInv'
  <2>1. kind \in Sent \ {"detail"} /\ kind \notin Dossier!OnValue \cup {"verify"}
    BY <1>3 DEF Sent, Dossier!Confirmations, Dossier!OnValue
  <2>2. confirmed[kind] = item
    BY <1>3 DEF IInv, TicksHold
  <2> QED
    BY <1>0, <1>3, <2>1, <2>2, RunIsMeant
<1>4. ASSUME kind = "verify", valueDetail # Dossier!NoValue, Dossier!value # Dossier!NoValue,
             NEW e \in evidence, reviewed[e] # None, Dossier!Run(kind, reviewed[e])
      PROVE  IInv'
  <2>1. kind \in Sent \ {"detail"} /\ kind \notin Dossier!Confirmations
    BY <1>4 DEF Sent, Dossier!Confirmations
  <2>2. reviewed[e] = Dossier!value
    BY <1>4 DEF IInv, TicksHold
  <2> QED
    BY <1>0, <1>4, <2>1, <2>2, RunIsMeant
<1> QED
  BY <1>1, <1>2, <1>3, <1>4 DEF Dossier!Command

LEMMA OperatorKeepsIInv ==
  ASSUME IInv,
         \/ \E f \in Fields : Dossier!Select(f)
         \/ \E c \in Dossier!Confirmations : Dossier!Confirm(c)
         \/ \E e \in evidence : Dossier!Tick(e)
         \/ \E i \in items : Dossier!Open(i)
  PROVE  IInv'
<1> USE DEF IInv
<1>1. ASSUME NEW f \in Fields, Dossier!Select(f) PROVE IInv'
  <2>0. /\ busy = Dossier!Idle /\ field' = f /\ UNCHANGED <<item, itemId, values, confirmed, saved, sequence, loads, busy>>
        /\ valueDetail' = Dossier!NoValue /\ valueFetching' = values[f] /\ reviewed' = Dossier!Unread
    BY <1>1 DEF Dossier!Select, Dossier!Effect
  <2>1. LoadsHold' /\ SavedHolds' /\ ValuesHold'
    BY <2>0 DEF LoadsHold, SavedHolds, ValuesHold, ReadFor
  <2>2. ScreenHolds' /\ TicksHold'
    BY <2>0 DEF ScreenHolds, TicksHold, Dossier!value, Dossier!Latest, Dossier!Unread
  <2>3. WorkHolds'
    BY <2>0, PagesAssumption DEF WorkHolds, Dossier!Idle
  <2>4. Dossier!CommandsAreMeant'
    BY <2>0 DEF Dossier!CommandsAreMeant, Dossier!Idle
  <2> QED
    BY <2>1, <2>2, <2>3, <2>4
<1>2. ASSUME NEW c \in Dossier!Confirmations, Dossier!Confirm(c) PROVE IInv'
  <2>0. /\ busy = Dossier!Idle /\ confirmed' = [confirmed EXCEPT ![c] = IF @ = None THEN item ELSE None]
        /\ UNCHANGED <<item, itemId, field, values, valueDetail, valueFetching, reviewed, saved, sequence, loads, busy>>
    BY <1>2 DEF Dossier!Confirm, Dossier!screen
  <2>1. LoadsHold' /\ SavedHolds' /\ ValuesHold'
    BY <2>0 DEF LoadsHold, SavedHolds, ValuesHold, ReadFor
  <2>2. ScreenHolds' /\ TicksHold'
    BY <2>0 DEF ScreenHolds, TicksHold, Dossier!value, Dossier!Latest, Dossier!Replaced
  <2>3. WorkHolds'
    BY <2>0, PagesAssumption DEF WorkHolds, Dossier!Idle
  <2>4. Dossier!CommandsAreMeant'
    BY <2>0 DEF Dossier!CommandsAreMeant, Dossier!Idle
  <2> QED
    BY <2>1, <2>2, <2>3, <2>4
<1>3. ASSUME NEW e \in evidence, Dossier!Tick(e) PROVE IInv'
  <2>0. /\ reviewed' = [reviewed EXCEPT ![e] = IF @ = None THEN Dossier!value ELSE None]
        /\ UNCHANGED <<item, itemId, field, values, valueDetail, valueFetching, confirmed, saved, sequence, loads, busy>>
    BY <1>3 DEF Dossier!Tick, Dossier!screen
  <2>1. LoadsHold' /\ SavedHolds' /\ ValuesHold'
    BY <2>0 DEF LoadsHold, SavedHolds, ValuesHold, ReadFor
  <2>2. ScreenHolds' /\ TicksHold'
    BY <2>0 DEF ScreenHolds, TicksHold, Dossier!value, Dossier!Latest, Dossier!Replaced
  <2>3. WorkHolds'
    BY <2>0 DEF WorkHolds, ReadFor, Dossier!value, Dossier!Latest, Dossier!Replaced
  <2>4. Dossier!CommandsAreMeant'
    BY <2>0 DEF Dossier!CommandsAreMeant, Dossier!Replaced
  <2> QED
    BY <2>1, <2>2, <2>3, <2>4
<1>4. ASSUME NEW i \in items, Dossier!Open(i) PROVE IInv'
  <2>1. LoadsHold' /\ ValuesHold' /\ ScreenHolds' /\ TicksHold'
    BY <1>4, BeginsALoad DEF Dossier!Open, ScreenHolds
  <2>2. busy' = [kind |-> "open", at |-> sequence + 1] /\ sequence + 1 # 0 /\ saved' = saved
    BY <1>4 DEF Dossier!Open, LoadsHold
  <2>3. busy'.kind = "open" /\ busy'.at = sequence + 1 /\ busy' = [kind |-> "open", at |-> busy'.at]
    BY <2>2
  <2>4. WorkHolds' /\ Dossier!CommandsAreMeant'
    BY <2>2, <2>3 DEF WorkHolds, Dossier!CommandsAreMeant
  <2> QED
    BY <2>1, <2>2, <2>4 DEF SavedHolds
<1> QED
  BY <1>1, <1>2, <1>3, <1>4

(* The page's own save is answered when nothing of the dossier is shown.    *)
LEMMA AnsweredKeepsIInv ==
  ASSUME IInv, Dossier!Answered
  PROVE  IInv'
<1> USE DEF IInv
<1>1. /\ Dossier!BeginLoad(itemId) /\ UNCHANGED <<itemId, field>> /\ busy.at = 0 /\ sequence' = sequence + 1
      /\ busy' = [busy EXCEPT !.at = sequence + 1]
      /\ IF busy.kind = "save" THEN Dossier!Write(itemId, field, "page") ELSE UNCHANGED saved
      /\ busy.kind \in Sent \ {"verify", "detail"}
  BY DEF Dossier!Answered, Dossier!Loading, Dossier!BeginLoad, Sent
<1>2. itemId \in items /\ itemId # None /\ field \in Fields
  BY <1>1, PagesAssumption DEF WorkHolds, ScreenHolds, Sent, Dossier!Loading, Dossier!Confirmations
<1>3. LoadsHold' /\ ScreenHolds' /\ TicksHold' /\ ValuesHold' /\ \A l \in loads' : Dossier!Latest(l)' => l.id = itemId
  BY <1>1, <1>2, BeginsALoad
<1>4. SavedHolds'
  <2>1. CASE busy.kind = "save"
    <3>1. saved[<<itemId, field>>].no \in Nat
      BY <1>2 DEF SavedHolds
    <3>2. [no |-> saved[<<itemId, field>>].no + 1, by |-> "page"] \in [no : Nat, by : {None, "page", "other", "lost"}]
      BY <3>1
    <3>3. saved' = [saved EXCEPT ![<<itemId, field>>] = [no |-> saved[<<itemId, field>>].no + 1, by |-> "page"]]
      BY <1>1, <2>1 DEF Dossier!Write
    <3> QED
      BY <3>2, <3>3 DEF SavedHolds
  <2> QED
    BY <1>1, <2>1 DEF SavedHolds
<1>5. busy' = [kind |-> busy.kind, at |-> sequence + 1, item |-> busy.item, shown |-> busy.shown,
               ticked |-> busy.ticked, value |-> busy.value, detail |-> busy.detail]
  BY <1>1, SentHasFields
<1>6. /\ busy'.kind = busy.kind /\ busy'.at = sequence + 1 /\ busy'.item = busy.item /\ busy'.shown = busy.shown
      /\ busy'.ticked = busy.ticked /\ busy'.value = busy.value /\ busy'.detail = busy.detail
      /\ busy' = [kind |-> busy'.kind, at |-> busy'.at, item |-> busy'.item, shown |-> busy'.shown,
                  ticked |-> busy'.ticked, value |-> busy'.value, detail |-> busy'.detail]
  BY <1>5
<1>8. WorkHolds'
  <2>1. busy.kind = "link" => /\ itemId' # None /\ ReadFor(busy.value, itemId, field)'
                              /\ itemId' \in items /\ busy'.at = sequence'
                              /\ \A l \in loads' : Dossier!Latest(l)' => l.id = itemId'
    BY <1>1, <1>2, <1>3, <1>6 DEF WorkHolds, ReadFor
  <2>2. busy'.at # 0
    BY <1>6 DEF LoadsHold
  <2> QED
    BY <1>1, <1>6, <2>1, <2>2, PagesAssumption DEF WorkHolds
<1>9. Dossier!CommandsAreMeant'
  BY <1>1, <1>6 DEF Dossier!CommandsAreMeant, Dossier!Replaced
<1> QED
  BY <1>3, <1>4, <1>8, <1>9

LEMMA EffectKeepsIInv ==
  ASSUME IInv, Dossier!Fetched \/ Dossier!Finished \/ Dossier!Fails \/ \E l \in loads : Dossier!LoadFails(l)
  PROVE  IInv'
<1> USE DEF IInv
<1>1. CASE Dossier!Fetched
  <2>0. /\ valueDetail' \in {valueFetching, valueDetail} /\ valueFetching' = Dossier!NoValue
        /\ UNCHANGED <<item, itemId, field, values, confirmed, reviewed, saved, sequence, loads, busy>>
    BY <1>1 DEF Dossier!Fetched, Dossier!ticks
  <2>1. LoadsHold' /\ SavedHolds' /\ ValuesHold'
    BY <2>0 DEF LoadsHold, SavedHolds, ValuesHold, ReadFor
  <2>2. ScreenHolds' /\ TicksHold'
    BY <2>0 DEF ScreenHolds, TicksHold, Dossier!value, Dossier!Latest, Dossier!Replaced
  <2>3. WorkHolds'
    BY <2>0 DEF WorkHolds, ReadFor, Dossier!value, Dossier!Latest, Dossier!Replaced
  <2> QED
    BY <2>0, <2>1, <2>2, <2>3 DEF Dossier!CommandsAreMeant, Dossier!Replaced
<1>2. CASE Dossier!Finished
  <2>0. /\ busy' = Dossier!Idle /\ reviewed' \in {reviewed, Dossier!Unread}
        /\ valueDetail' = IF busy.kind \in {"verify", "detail"} THEN busy.value ELSE valueDetail
        /\ UNCHANGED <<item, itemId, field, values, valueFetching, confirmed, saved, sequence, loads>>
    BY <1>2 DEF Dossier!Finished
  <2>1. LoadsHold' /\ SavedHolds' /\ ValuesHold'
    BY <2>0 DEF LoadsHold, SavedHolds, ValuesHold, ReadFor
  <2>2. Dossier!value' = Dossier!value /\ \A l : Dossier!Latest(l)' <=> Dossier!Latest(l)
    BY <2>0 DEF Dossier!value, Dossier!Latest
  <2>3. ScreenHolds'
    <3>1. CASE busy.kind \in {"verify", "detail"}
      BY <2>0, <2>2, <3>1 DEF ScreenHolds, WorkHolds, Dossier!Replaced
    <3>2. CASE busy.kind \notin {"verify", "detail"}
      BY <2>0, <2>2, <3>2 DEF ScreenHolds, Dossier!Replaced
    <3> QED
      BY <3>1, <3>2
  <2>4. TicksHold'
    BY <2>0, <2>2 DEF TicksHold, Dossier!Unread
  <2>5. WorkHolds' /\ Dossier!CommandsAreMeant'
    BY <2>0, PagesAssumption DEF WorkHolds, Dossier!Idle, Dossier!CommandsAreMeant
  <2> QED
    BY <2>1, <2>3, <2>4, <2>5
<1>3. CASE Dossier!Fails
  <2>0. /\ busy' = Dossier!Idle
        /\ UNCHANGED saved \/ (busy.kind = "save" /\ Dossier!Write(itemId, field, "lost"))
        /\ UNCHANGED <<item, itemId, field, values, valueDetail, valueFetching, confirmed, reviewed, sequence, loads>>
        /\ busy.at = 0 \/ busy.kind = "detail"
    BY <1>3 DEF Dossier!Fails, Dossier!screen, Dossier!ticks
  <2>1. SavedHolds' /\ ValuesHold'
    <3>1. CASE UNCHANGED saved
      BY <2>0, <3>1 DEF SavedHolds, ValuesHold, ReadFor
    <3>2. CASE busy.kind = "save" /\ Dossier!Write(itemId, field, "lost")
      <4>1. item # None /\ itemId \in items /\ itemId = item /\ field \in Fields
        BY <2>0, <3>2, PagesAssumption DEF WorkHolds, ScreenHolds
      <4>2. Elsewhere(itemId, field)
        BY <3>2 DEF Elsewhere
      <4> QED
        BY <2>0, <4>1, <4>2, ElsewhereKeeps DEF ValuesHold, ScreenHolds
    <3> QED
      BY <2>0, <3>1, <3>2
  <2>2. LoadsHold' /\ ScreenHolds' /\ TicksHold'
    BY <2>0 DEF LoadsHold, ScreenHolds, TicksHold, Dossier!value, Dossier!Latest, Dossier!Replaced
  <2>3. WorkHolds' /\ Dossier!CommandsAreMeant'
    BY <2>0, PagesAssumption DEF WorkHolds, Dossier!Idle, Dossier!CommandsAreMeant
  <2> QED
    BY <2>1, <2>2, <2>3
<1>4. ASSUME NEW l \in loads, Dossier!LoadFails(l) PROVE IInv'
  <2>0. /\ busy' \in {busy, Dossier!Idle} /\ loads' = loads \ {l}
        /\ UNCHANGED <<item, itemId, field, values, valueDetail, valueFetching, confirmed, reviewed, saved, sequence>>
    BY <1>4 DEF Dossier!LoadFails, Dossier!screen, Dossier!ticks
  <2>1. LoadsHold' /\ SavedHolds' /\ ValuesHold'
    BY <2>0 DEF LoadsHold, SavedHolds, ValuesHold, ReadFor
  <2>2. ScreenHolds' /\ TicksHold'
    BY <2>0 DEF ScreenHolds, TicksHold, Dossier!value, Dossier!Latest, Dossier!Replaced
  <2>3. WorkHolds'
    BY <2>0, PagesAssumption DEF WorkHolds, ReadFor, Dossier!Idle, Dossier!value, Dossier!Latest, Dossier!Replaced
  <2>4. Dossier!CommandsAreMeant'
    BY <2>0 DEF Dossier!CommandsAreMeant, Dossier!Idle, Dossier!Replaced
  <2> QED
    BY <2>1, <2>2, <2>3, <2>4
<1> QED
  BY <1>1, <1>2, <1>3, <1>4

(* Others write what they like: the page keeps what it has read.            *)
LEMMA OthersKeepIInv ==
  ASSUME IInv, NEW x \in Contested, Dossier!OtherWrites(x[1], x[2])
  PROVE  IInv'
<1> USE DEF IInv
<1>1. x[1] \in items /\ x[2] \in Fields
  BY PagesAssumption
<1>2. /\ Elsewhere(x[1], x[2])
      /\ UNCHANGED <<item, itemId, field, values, valueDetail, valueFetching, confirmed, reviewed, sequence, loads, busy>>
  BY DEF Dossier!OtherWrites, Elsewhere, Dossier!screen, Dossier!ticks
<1>3. SavedHolds' /\ \A v : \A j \in items, g \in Fields : ReadFor(v, j, g) => ReadFor(v, j, g)'
  BY <1>1, <1>2, ElsewhereKeeps
<1>4. ValuesHold'
  BY <1>2, <1>3 DEF ValuesHold, ScreenHolds
<1>5. LoadsHold' /\ ScreenHolds' /\ TicksHold'
  BY <1>2 DEF LoadsHold, ScreenHolds, TicksHold, Dossier!value, Dossier!Latest, Dossier!Replaced
<1>6. busy.kind = "link" => ReadFor(busy.value, itemId, field)'
  <2>1. ASSUME busy.kind = "link" PROVE ReadFor(busy.value, itemId, field)'
    <3>1. itemId \in items /\ field \in Fields
      BY <2>1, PagesAssumption DEF WorkHolds, ScreenHolds
    <3>2. ReadFor(busy.value, itemId, field) /\ UNCHANGED <<busy, itemId, field>>
      BY <1>2, <2>1 DEF WorkHolds
    <3>3. ReadFor(busy.value, itemId, field) => ReadFor(busy.value, itemId, field)'
      <4>1. \A v : ReadFor(v, itemId, field) => ReadFor(v, itemId, field)'
        BY <1>3, <3>1, <3>2 DEF ReadFor
      <4> QED
        BY <3>2, <4>1 DEF ReadFor
    <3> QED
      BY <3>2, <3>3
  <2> QED
    BY <2>1
<1>7. WorkHolds'
  BY <1>2, <1>6 DEF WorkHolds, ReadFor, Dossier!value, Dossier!Latest, Dossier!Replaced
<1>8. Dossier!CommandsAreMeant'
  BY <1>2 DEF Dossier!CommandsAreMeant, Dossier!Replaced
<1> QED
  BY <1>3, <1>4, <1>5, <1>7, <1>8

LEMMA IInvNext ==
  ASSUME IInv, [MCNext]_all
  PROVE  IInv'
<1>1. CASE UNCHANGED dossier
  BY <1>1 DEF dossier, IInv, LoadsHold, SavedHolds, ValuesHold, ReadFor, ScreenHolds, TicksHold, WorkHolds,
              Dossier!CommandsAreMeant, Dossier!value, Dossier!Latest, Dossier!Replaced
<1>2. CASE Dossier!Next
  BY <1>2, EffectKeepsIInv, AnsweredKeepsIInv, OperatorKeepsIInv, CommandKeepsIInv, LoadedKeepsIInv, OthersKeepIInv
     DEF Dossier!Next
<1> QED
  BY <1>1, <1>2 DEF MCNext, all

-----------------------------------------------------------------------------
(* Whatever the models, values, requests, forms and sizes, however slow or  *)
(* late anything is: a complete review was approved on the page, a command  *)
(* and the word for declarations are about what was on screen, what the     *)
(* page is told of a command is true for good and the intake confirmed is   *)
(* the one stored (the pages of the console and intake-form.tsx).           *)
THEOREM PagesDoWhatWasMeant == MCSpec => []PagesAreMeant
<1> DEFINE Inv == MInv /\ IInv /\ ChInv /\ CoInv /\ FInv
<1>1. MCInit => Inv
  BY MInvInit, IInvInit, WordInit, CoInvInit, FInvInit DEF MCInit
<1>2. Inv /\ [MCNext]_all => Inv'
  BY MInvNext, IInvNext, WordNext, CoInvNext, FInvNext
<1>3. Inv => PagesAreMeant
  <2>1. ASSUME CoInv PROVE Workspace!ToldIsTrue
    BY <2>1 DEF CoInv, CallsHold, CallHolds, SessionsHold, Workspace!ToldIsTrue
  <2> QED
    BY <2>1, ApprovedIsComplete, StoredIsConfirmed DEF PagesAreMeant, IInv, ChInv
<1> QED
  BY <1>1, <1>2, <1>3, PTL DEF MCSpec

-----------------------------------------------------------------------------
(* The authority to publish: what a passport stands on is there while it is *)
(* published, and reviewed; and a provider acts on what was granted, the    *)
(* first of it on a document of the organisation's own people.              *)
ReviewerOf(p) == p \in Staff /\ Role[p] \in Authority!Reviewers /\ (mode = "oidc" => p \in Accounts)

DossierReviewed ==
  /\ battery \notin {None, "new"} => ReviewerOf(battery)
  /\ document.status = "verified" => ReviewerOf(document.by)
  /\ document = [status |-> document.status, by |-> document.by]
  /\ passport = "published" => battery \notin {None, "new"} /\ attached /\ document.status = "verified"

GrantsHold ==
  /\ \A scopes \in grants : scopes \subseteq granted
  /\ granted # {} => Home[basis] = "own"
  /\ document.status = "verified" /\ granted = {} => Home[document.by] = "own"

TouchHolds ==
  /\ touched # "nothing" => granted # {}
  /\ touched = "changed" => granted \ Authority!ReadScopes # {}

AInv == DossierReviewed /\ GrantsHold /\ TouchHolds

LEMMA AInvInit ==
  ASSUME Authority!Init
  PROVE  AInv
BY DEF Authority!Init, Authority!Absent, AInv, DossierReviewed, GrantsHold, TouchHolds

(* The handlers that change something are not open to a scope that reads.   *)
LEMMA WritesNeedScopes ==
  /\ \A h \in Authority!BatteryHandlers :
       h.name \in {"createModel", "reviewApplicability", "createItem", "bulk"} => h.scope \notin Authority!ReadScopes
  /\ \A h \in Authority!ValueHandlers :
       h.name \in {"createValue", "validateValue", "rejectValue"} => h.scope \notin Authority!ReadScopes
  /\ \A h \in Authority!EvidenceHandlers :
       h.name \in {"createUpload", "finalize", "verify", "extract", "link"} => h.scope \notin Authority!ReadScopes
  /\ \A h \in Authority!SupplierHandlers : h.name = "accept" => h.scope \notin Authority!ReadScopes
  /\ \A h \in Authority!PassportHandlers :
       h.name \in {"validatePassport", "publish"} => h.scope \notin Authority!ReadScopes
  /\ \A h \in Authority!LifecycleHandlers : h.name \in {"event", "telemetry"} => h.scope \notin Authority!ReadScopes
<1> USE DEF Authority!Any, Authority!Of, Authority!ReadScopes
<1>1. \A h \in Authority!BatteryHandlers :
       h.name \in {"createModel", "reviewApplicability", "createItem", "bulk"} => h.scope \notin Authority!ReadScopes
  BY DEF Authority!BatteryHandlers
<1>2. \A h \in Authority!ValueHandlers :
       h.name \in {"createValue", "validateValue", "rejectValue"} => h.scope \notin Authority!ReadScopes
  BY DEF Authority!ValueHandlers
<1>3. \A h \in Authority!EvidenceHandlers :
       h.name \in {"createUpload", "finalize", "verify", "extract", "link"} => h.scope \notin Authority!ReadScopes
  BY DEF Authority!EvidenceHandlers
<1>4. \A h \in Authority!SupplierHandlers : h.name = "accept" => h.scope \notin Authority!ReadScopes
  BY DEF Authority!SupplierHandlers, Authority!Public
<1>5. \A h \in Authority!PassportHandlers :
       h.name \in {"validatePassport", "publish"} => h.scope \notin Authority!ReadScopes
  BY DEF Authority!PassportHandlers
<1>6. \A h \in Authority!LifecycleHandlers : h.name \in {"event", "telemetry"} => h.scope \notin Authority!ReadScopes
  BY DEF Authority!LifecycleHandlers
<1> QED
  BY <1>1, <1>2, <1>3, <1>4, <1>5, <1>6

LEMMA ReviewsNeedReviewers ==
  /\ \A h \in Authority!BatteryHandlers : h.name = "reviewApplicability" => h.roles = Authority!Reviewers
  /\ \A h \in Authority!EvidenceHandlers : h.name = "verify" => h.roles = Authority!Reviewers
<1> USE DEF Authority!Any, Authority!Of
<1>1. \A h \in Authority!BatteryHandlers : h.name = "reviewApplicability" => h.roles = Authority!Reviewers
  BY DEF Authority!BatteryHandlers
<1>2. \A h \in Authority!EvidenceHandlers : h.name = "verify" => h.roles = Authority!Reviewers
  BY DEF Authority!EvidenceHandlers
<1> QED
  BY <1>1, <1>2

LEMMA OthersNeedScopes ==
  \A h \in Authority!Handlers : h.name \in Authority!Others /\ h.scope # Authority!Public => h.scope \notin Authority!ReadScopes
<1> DEFINE Fine(S) == \A h \in S : h.name \in Authority!Others /\ h.scope # Authority!Public => h.scope \notin Authority!ReadScopes
<1> USE DEF Authority!Any, Authority!Of, Authority!ReadScopes, Authority!Others, Authority!Public
<1>1. Fine(Authority!OrganisationHandlers)
  BY DEF Authority!OrganisationHandlers
<1>2. Fine(Authority!AuthorisationHandlers)
  BY DEF Authority!AuthorisationHandlers
<1>3. Fine(Authority!BatteryHandlers)
  BY DEF Authority!BatteryHandlers
<1>4. Fine(Authority!ValueHandlers)
  BY DEF Authority!ValueHandlers
<1>5. Fine(Authority!EvidenceHandlers)
  BY DEF Authority!EvidenceHandlers
<1>6. Fine(Authority!SupplierHandlers)
  BY DEF Authority!SupplierHandlers
<1>7. Fine(Authority!PassportHandlers)
  BY DEF Authority!PassportHandlers
<1>8. Fine(Authority!ExportHandlers) /\ Fine(Authority!PublicHandlers)
  BY DEF Authority!ExportHandlers, Authority!PublicHandlers
<1>9. Fine(Authority!ComplianceHandlers)
  BY DEF Authority!ComplianceHandlers
<1>10. Fine(Authority!LifecycleHandlers)
  BY DEF Authority!LifecycleHandlers
<1>11. Fine(Authority!AccessHandlers)
  BY DEF Authority!AccessHandlers
<1>12. Fine(Authority!RegistryHandlers)
  BY DEF Authority!RegistryHandlers
<1> QED
  BY <1>1, <1>2, <1>3, <1>4, <1>5, <1>6, <1>7, <1>8, <1>9, <1>10, <1>11, <1>12 DEF Authority!Handlers

(* Who is let in, and what it leaves of the touch of the provider.          *)
LEMMA AllowedIsGranted ==
  ASSUME GrantsHold, NEW p \in Staff, NEW h, Authority!Allowed(p, h), Home[p] # "own"
  PROVE  granted # {} /\ h.scope \in granted
BY DEF Authority!Allowed, Authority!TenantOpen, GrantsHold

(* In development the API gives tokens to all staff.                        *)
LEMMA ReviewerIsAllowed ==
  ASSUME NEW p \in Staff, NEW h, Authority!Allowed(p, h), h.roles = Authority!Reviewers
  PROVE  ReviewerOf(p)
BY DEF Authority!Allowed, Authority!Verified, Authority!DevTokens, Authority!RoleOpen, ReviewerOf

LEMMA ChangesTouch ==
  ASSUME GrantsHold, TouchHolds, NEW p \in Staff, NEW controller, NEW name, Authority!Changes(p, controller, name),
         \A h \in controller : h.name = name => h.scope \notin Authority!ReadScopes, UNCHANGED granted
  PROVE  TouchHolds' /\ (Home[p] = "own" \/ granted # {})
<1>1. PICK h \in controller : h.name = name /\ Authority!Allowed(p, h)
  BY DEF Authority!Changes
<1>2. Home[p] = "own" \/ (granted # {} /\ h.scope \in granted /\ h.scope \notin Authority!ReadScopes)
  BY <1>1, AllowedIsGranted
<1>3. touched' = IF Home[p] = "provider" THEN "changed" ELSE touched
  BY DEF Authority!Changes
<1> QED
  BY <1>2, <1>3 DEF TouchHolds

LEMMA ChangesOf ==
  ASSUME GrantsHold, TouchHolds, NEW p \in Staff, UNCHANGED granted,
         \/ \E name \in {"createModel", "reviewApplicability", "createItem", "bulk"} :
              Authority!Changes(p, Authority!BatteryHandlers, name)
         \/ \E name \in {"createValue", "validateValue", "rejectValue"} : Authority!Changes(p, Authority!ValueHandlers, name)
         \/ \E name \in {"createUpload", "finalize", "verify", "extract", "link"} :
              Authority!Changes(p, Authority!EvidenceHandlers, name)
         \/ Authority!Changes(p, Authority!SupplierHandlers, "accept")
         \/ \E name \in {"validatePassport", "publish"} : Authority!Changes(p, Authority!PassportHandlers, name)
         \/ \E name \in {"event", "telemetry"} : Authority!Changes(p, Authority!LifecycleHandlers, name)
  PROVE  TouchHolds' /\ (Home[p] = "own" \/ granted # {})
<1>1. ASSUME NEW name \in {"createModel", "reviewApplicability", "createItem", "bulk"},
             Authority!Changes(p, Authority!BatteryHandlers, name)
      PROVE  TouchHolds' /\ (Home[p] = "own" \/ granted # {})
  BY <1>1, WritesNeedScopes, ChangesTouch
<1>2. ASSUME NEW name \in {"createValue", "validateValue", "rejectValue"},
             Authority!Changes(p, Authority!ValueHandlers, name)
      PROVE  TouchHolds' /\ (Home[p] = "own" \/ granted # {})
  BY <1>2, WritesNeedScopes, ChangesTouch
<1>3. ASSUME NEW name \in {"createUpload", "finalize", "verify", "extract", "link"},
             Authority!Changes(p, Authority!EvidenceHandlers, name)
      PROVE  TouchHolds' /\ (Home[p] = "own" \/ granted # {})
  BY <1>3, WritesNeedScopes, ChangesTouch
<1>4. ASSUME Authority!Changes(p, Authority!SupplierHandlers, "accept")
      PROVE  TouchHolds' /\ (Home[p] = "own" \/ granted # {})
  BY <1>4, WritesNeedScopes, ChangesTouch
<1>5. ASSUME NEW name \in {"validatePassport", "publish"}, Authority!Changes(p, Authority!PassportHandlers, name)
      PROVE  TouchHolds' /\ (Home[p] = "own" \/ granted # {})
  BY <1>5, WritesNeedScopes, ChangesTouch
<1>6. ASSUME NEW name \in {"event", "telemetry"}, Authority!Changes(p, Authority!LifecycleHandlers, name)
      PROVE  TouchHolds' /\ (Home[p] = "own" \/ granted # {})
  BY <1>6, WritesNeedScopes, ChangesTouch
<1> QED
  BY <1>1, <1>2, <1>3, <1>4, <1>5, <1>6

(* A passport that is no longer published is not held to anything.          *)
LEMMA InvalidatedIsUnpublished ==
  Authority!Invalidated # "published"
BY DEF Authority!Invalidated

(* A verification takes a reviewer, and before any grant one of their own.  *)
LEMMA VerifyKeepsAInv ==
  ASSUME AInv, NEW p \in Staff, Authority!Verify(p)
  PROVE  AInv'
<1> USE DEF AInv, Authority!Verify
<1>1. TouchHolds' /\ (Home[p] = "own" \/ granted # {})
  <2>1. UNCHANGED granted
    BY DEF Authority!Reject, Authority!delegation
  <2>2. Authority!Changes(p, Authority!EvidenceHandlers, "verify")
    OBVIOUS
  <2> QED
    BY <2>1, <2>2, ChangesOf
<1>2. PICK h \in Authority!EvidenceHandlers : h.name = "verify" /\ Authority!Allowed(p, h)
  BY DEF Authority!Changes
<1>3. ReviewerOf(p)
  BY <1>2, ReviewsNeedReviewers, ReviewerIsAllowed
<1>4. CASE document' = [status |-> "verified", by |-> p] /\ UNCHANGED <<mode, battery, entry, attached, passport, grants, granted, basis>>
  BY <1>1, <1>3, <1>4 DEF DossierReviewed, GrantsHold, ReviewerOf
<1>5. CASE Authority!Reject
  BY <1>1, <1>5, InvalidatedIsUnpublished DEF Authority!Reject, Authority!delegation, DossierReviewed, GrantsHold, ReviewerOf
<1> QED
  BY <1>4, <1>5 DEF Authority!delegation

LEMMA RejectKeeps ==
  ASSUME DossierReviewed, GrantsHold, Authority!Reject
  PROVE  DossierReviewed' /\ GrantsHold' /\ UNCHANGED granted
BY InvalidatedIsUnpublished DEF Authority!Reject, Authority!delegation, DossierReviewed, GrantsHold, ReviewerOf

LEMMA UploadKeeps ==
  ASSUME DossierReviewed, GrantsHold, Authority!Upload
  PROVE  DossierReviewed' /\ GrantsHold' /\ UNCHANGED granted
BY DEF Authority!Upload, Authority!delegation, DossierReviewed, GrantsHold, ReviewerOf

LEMMA FinalizeKeeps ==
  ASSUME DossierReviewed, GrantsHold, Authority!Finalize
  PROVE  DossierReviewed' /\ GrantsHold' /\ UNCHANGED granted
<1>1. CASE Authority!Reject
  BY <1>1, RejectKeeps
<1>2. CASE ~Authority!Reject
  <2>1. /\ UNCHANGED <<mode, battery, entry, attached, passport, grants, granted, basis>>
        /\ document' = document \/ (document' = [document EXCEPT !.status = "uploaded"] /\ document.status = "pending")
    BY <1>2 DEF Authority!Finalize, Authority!delegation
  <2>2. CASE document' = document
    BY <2>1, <2>2 DEF DossierReviewed, GrantsHold, ReviewerOf
  <2>3. CASE document' = [document EXCEPT !.status = "uploaded"] /\ document.status = "pending"
    <3>1. document' = [status |-> "uploaded", by |-> document.by]
      BY <2>3 DEF DossierReviewed
    <3> QED
      BY <2>1, <2>3, <3>1 DEF DossierReviewed, GrantsHold, ReviewerOf
  <2> QED
    BY <2>1, <2>2, <2>3
<1> QED
  BY <1>1, <1>2

(* Work on the dossier that no reviewer is asked for.                       *)
LEMMA WorkKeepsAInv ==
  ASSUME AInv, NEW p \in Staff,
         \/ Authority!CreateModel(p) \/ Authority!ReviewApplicability(p) \/ Authority!CreateItem(p) \/ Authority!Link(p)
         \/ Authority!CreateValue(p) \/ Authority!Accept(p) \/ Authority!ValidateValue(p) \/ Authority!RejectValue(p)
         \/ Authority!ValidatePassport(p) \/ Authority!Publish(p) \/ Authority!Event(p) \/ Authority!Telemetry(p)
  PROVE  AInv'
<1>1. UNCHANGED <<mode, document, grants, granted, basis>>
  BY DEF Authority!CreateModel, Authority!ReviewApplicability, Authority!CreateItem, Authority!Link,
         Authority!CreateValue, Authority!Accept, Authority!ValidateValue, Authority!RejectValue,
         Authority!ValidatePassport, Authority!Publish, Authority!Event, Authority!Telemetry, Authority!delegation
<1>2. GrantsHold'
  BY <1>1 DEF AInv, GrantsHold
<1>3. TouchHolds'
  BY <1>1, ChangesOf
  DEF AInv, Authority!CreateModel, Authority!ReviewApplicability, Authority!CreateItem, Authority!Link,
      Authority!CreateValue, Authority!Accept, Authority!ValidateValue, Authority!RejectValue,
      Authority!ValidatePassport, Authority!Publish, Authority!Event, Authority!Telemetry
<1>4. DossierReviewed'
  <2> USE DEF AInv, DossierReviewed, ReviewerOf
  <2>1. CASE Authority!CreateModel(p)
    BY <1>1, <2>1 DEF Authority!CreateModel
  <2>2. CASE Authority!ReviewApplicability(p)
    <3>1. PICK h \in Authority!BatteryHandlers : h.name = "reviewApplicability" /\ Authority!Allowed(p, h)
      BY <2>2 DEF Authority!ReviewApplicability, Authority!Changes
    <3>2. ReviewerOf(p)
      BY <3>1, ReviewsNeedReviewers, ReviewerIsAllowed
    <3> QED
      BY <1>1, <2>2, <3>2, InvalidatedIsUnpublished DEF Authority!ReviewApplicability
  <2>3. CASE Authority!CreateItem(p)
    BY <1>1, <2>3 DEF Authority!CreateItem
  <2>4. CASE \/ Authority!Link(p) \/ Authority!CreateValue(p) \/ Authority!Accept(p) \/ Authority!RejectValue(p)
             \/ Authority!Telemetry(p)
    BY <1>1, <2>4, InvalidatedIsUnpublished
    DEF Authority!Link, Authority!CreateValue, Authority!Accept, Authority!RejectValue, Authority!Telemetry
  <2>5. CASE Authority!ValidateValue(p)
    BY <1>1, <2>5, InvalidatedIsUnpublished DEF Authority!ValidateValue
  <2>6. CASE Authority!ValidatePassport(p) \/ Authority!Publish(p)
    BY <1>1, <2>6, OrganisationsAssumption DEF Authority!ValidatePassport, Authority!Publish, Authority!Publishable
  <2>7. CASE Authority!Event(p)
    BY <1>1, <2>7, InvalidatedIsUnpublished DEF Authority!Event
  <2> QED
    BY <2>1, <2>2, <2>3, <2>4, <2>5, <2>6, <2>7
<1> QED
  BY <1>2, <1>3, <1>4 DEF AInv

LEMMA DocumentKeepsAInv ==
  ASSUME AInv,
         \/ \E p \in Staff : Authority!Upload /\ Authority!Changes(p, Authority!EvidenceHandlers, "createUpload")
         \/ \E p \in Staff : Authority!Finalize /\ Authority!Changes(p, Authority!EvidenceHandlers, "finalize")
         \/ \E p \in Staff : Authority!Extract(p)
         \/ Authority!Upload /\ Authority!Anyone(Authority!SupplierHandlers, "portalUpload")
         \/ Authority!Finalize /\ Authority!Anyone(Authority!SupplierHandlers, "portalFinalize")
  PROVE  AInv'
<1> USE DEF AInv
<1>1. ASSUME NEW p \in Staff, Authority!Upload, Authority!Changes(p, Authority!EvidenceHandlers, "createUpload")
      PROVE  AInv'
  BY <1>1, UploadKeeps, ChangesOf
<1>2. ASSUME NEW p \in Staff, Authority!Finalize, Authority!Changes(p, Authority!EvidenceHandlers, "finalize")
      PROVE  AInv'
  BY <1>2, FinalizeKeeps, ChangesOf
<1>3. ASSUME NEW p \in Staff, Authority!Extract(p)
      PROVE  AInv'
  <2>1. Authority!Changes(p, Authority!EvidenceHandlers, "extract")
    BY <1>3 DEF Authority!Extract
  <2>2. CASE Authority!Reject
    BY <2>1, <2>2, RejectKeeps, ChangesOf
  <2>3. CASE UNCHANGED <<mode, Authority!dossier, Authority!delegation>>
    <3>1. DossierReviewed' /\ GrantsHold' /\ UNCHANGED granted
      BY <2>3 DEF Authority!dossier, Authority!delegation, DossierReviewed, GrantsHold, ReviewerOf
    <3> QED
      BY <2>1, <3>1, ChangesOf
  <2> QED
    BY <1>3, <2>2, <2>3 DEF Authority!Extract
<1>4. CASE \/ Authority!Upload /\ Authority!Anyone(Authority!SupplierHandlers, "portalUpload")
           \/ Authority!Finalize /\ Authority!Anyone(Authority!SupplierHandlers, "portalFinalize")
  BY <1>4, UploadKeeps, FinalizeKeeps DEF Authority!Anyone, TouchHolds
<1> QED
  BY <1>1, <1>2, <1>3, <1>4

LEMMA BesideKeepsAInv ==
  ASSUME AInv, NEW p \in Staff, Authority!Beside(p) \/ Authority!Read(p)
  PROVE  AInv'
<1>1. DossierReviewed' /\ GrantsHold' /\ UNCHANGED granted
  BY DEF Authority!Beside, Authority!Read, Authority!dossier, Authority!delegation, AInv, DossierReviewed, GrantsHold, ReviewerOf
<1>2. Home[p] # "own"
  BY DEF Authority!Beside, Authority!Read
<1>3. CASE Authority!Beside(p)
  <2>1. PICK h \in Authority!Handlers : h.name \in Authority!Others /\ Authority!Allowed(p, h)
    BY <1>3 DEF Authority!Beside
  <2>2. h.scope \in granted /\ h.scope \notin Authority!ReadScopes
    BY <1>2, <2>1, AllowedIsGranted, OthersNeedScopes DEF AInv, Authority!Allowed
  <2> QED
    BY <1>1, <1>3, <2>2 DEF AInv, TouchHolds, Authority!Beside
<1>4. CASE Authority!Read(p)
  <2>1. PICK h \in Authority!Handlers : Authority!Allowed(p, h)
    BY <1>4 DEF Authority!Read
  <2>2. granted # {}
    BY <1>2, <2>1, AllowedIsGranted DEF AInv
  <2> QED
    BY <1>1, <1>4, <2>2 DEF AInv, TouchHolds, Authority!Read
<1> QED
  BY <1>3, <1>4

LEMMA GrantsKeepAInv ==
  ASSUME AInv,
         \/ \E p \in Staff, scopes \in Mandates : Authority!Authorise(p, scopes) \/ Authority!Revoke(p, scopes)
         \/ \E scopes \in grants : Authority!Lapse(scopes)
  PROVE  AInv'
<1>1. DossierReviewed'
  BY DEF Authority!Authorise, Authority!Revoke, Authority!Lapse, Authority!dossier, AInv, DossierReviewed, ReviewerOf
<1>2. ASSUME NEW p \in Staff, NEW scopes, Authority!Authorise(p, scopes)
      PROVE  GrantsHold' /\ TouchHolds'
  <2>1. /\ grants' = grants \cup {scopes} /\ granted' = granted \cup scopes /\ document.status = "verified"
        /\ basis' = IF granted = {} THEN document.by ELSE basis
        /\ touched' = touched /\ document' = document
    BY <1>2 DEF Authority!Authorise, Authority!Changes, Authority!dossier
  <2> QED
    BY <2>1 DEF AInv, GrantsHold, TouchHolds
<1>3. ASSUME NEW p \in Staff, NEW scopes, Authority!Revoke(p, scopes)
      PROVE  GrantsHold' /\ TouchHolds'
  BY <1>3 DEF Authority!Revoke, Authority!Changes, Authority!dossier, AInv, GrantsHold, TouchHolds
<1>4. ASSUME NEW scopes, Authority!Lapse(scopes)
      PROVE  GrantsHold' /\ TouchHolds'
  BY <1>4 DEF Authority!Lapse, Authority!dossier, AInv, GrantsHold, TouchHolds
<1> QED
  BY <1>1, <1>2, <1>3, <1>4 DEF AInv

LEMMA AInvNext ==
  ASSUME AInv, [MCNext]_all
  PROVE  AInv'
<1>1. CASE UNCHANGED authority
  BY <1>1 DEF authority, AInv, DossierReviewed, GrantsHold, TouchHolds, ReviewerOf
<1>2. CASE Authority!Next
  BY <1>2, WorkKeepsAInv, VerifyKeepsAInv, DocumentKeepsAInv, BesideKeepsAInv, GrantsKeepAInv DEF Authority!Next
<1> QED
  BY <1>1, <1>2 DEF MCNext, all

LEMMA AInvSays ==
  ASSUME AInv
  PROVE  Authority!PublishedWasReviewed /\ Authority!ProvidersWereLetIn
BY DEF AInv, DossierReviewed, ReviewerOf, GrantsHold, TouchHolds, Authority!PublishedWasReviewed, Authority!ProvidersWereLetIn

-----------------------------------------------------------------------------
(* Organisations: a call that created something is the founder's, each call *)
(* has a number of its own in the audit, and what a call read of the        *)
(* identity is a record the row had since the call began.                   *)
Turn(x, p) ==
  /\ x = [step |-> x.step, by |-> x.by, since |-> x.since, read |-> x.read, seen |-> x.seen]
  /\ x.by = <<p, x.by[2]>> /\ x.by[2] \in 1..calls
  /\ \A n \in DOMAIN audit : audit[n].by # x.by
  /\ x.step \in {"user", "audit"} => x.by = organisation
  /\ x.step = "audit" => x.by \in users
  /\ x.since \in 0..Len(identities)
  /\ "identity" \in x.seen \/ x.step = "evaluate" => x.read \in x.since..Len(identities)
  /\ "profile" \in x.seen => profile # None

Turns ==
  /\ calls \in Nat /\ DOMAIN call = people
  /\ \A p \in people : call[p] = Founding!Idle \/ Turn(call[p], p)

Entry == [action : {"audit", "profileAudit"}, by : people \X Nat]

RowsHold ==
  /\ audit \in Seq(Entry) /\ \A n \in DOMAIN audit : audit[n].by[2] \in 1..calls
  /\ DOMAIN shown = people /\ Founding!OneFounder

(* The promise of an answer, as EnrolmentIsRecorded has it.                 *)
AnswerStands(a) ==
  /\ a.since \in Nat /\ a.to \in 0..Len(identities)
  /\ \E k \in a.since..a.to :
       /\ k > 0 /\ identities[k].status = "verified"
       /\ a.kind = "ready" => profile # None
       /\ a.kind = "allowed" =>
            LET i == identities[k] IN
            /\ i.verifiedAt # None /\ i.verifiedAt <= a.at /\ a.at < i.verifiedAt + Horizon
            /\ \A h \in {i.validUntil, i.electronicIdExpiresAt} : h # None => a.at < h

AnswersStand ==
  /\ identities \in Seq(Founding!Identities) /\ clock \in Int
  /\ DOMAIN answer = people /\ \A p \in people : answer[p] # None => AnswerStands(answer[p])

BInv == Turns /\ RowsHold /\ AnswersStand

LEMMA BInvInit ==
  ASSUME Founding!Init
  PROVE  BInv
<1>1. Turns
  BY DEF Founding!Init, Turns
<1>2. RowsHold
  BY DEF Founding!Init, RowsHold, Founding!OneFounder
<1>3. AnswersStand
  BY DEF Founding!Init, AnswersStand
<1> QED
  BY <1>1, <1>2, <1>3 DEF BInv

(* A call that goes on or ends.                                             *)
LEMMA TurnsGo ==
  ASSUME Turns, NEW p \in people, NEW x, call' = [call EXCEPT ![p] = x], calls' \in Nat,
         x = Founding!Idle \/ Turn(x, p)', \A q \in people \ {p} : \A y : Turn(y, q) => Turn(y, q)'
  PROVE  Turns'
BY DEF Turns

Moved(y, step, x) ==
  /\ x = [step |-> x.step, by |-> x.by, since |-> x.since, read |-> x.read, seen |-> x.seen]
  /\ x.step = step /\ x.by = y.by /\ x.since = y.since /\ x.read = y.read /\ x.seen = y.seen

LEMMA GoesOn ==
  ASSUME Turns, NEW p \in people, call[p].step # "idle", NEW step, Founding!Goes(p, step)
  PROVE  /\ Turn(call[p], p)
         /\ \E x : Moved(call[p], step, x) /\ call' = [call EXCEPT ![p] = x]
<1> DEFINE y == call[p]
           z == [step |-> step, by |-> y.by, since |-> y.since, read |-> y.read, seen |-> y.seen]
<1>1. Turn(y, p)
  BY DEF Turns, Founding!Idle
<1>2. y = [step |-> y.step, by |-> y.by, since |-> y.since, read |-> y.read, seen |-> y.seen]
  BY <1>1 DEF Turn
<1>3. [y EXCEPT !.step = step] = [step |-> step, by |-> y.by, since |-> y.since, read |-> y.read, seen |-> y.seen]
  BY <1>2
<1>4. call' = [call EXCEPT ![p] = [y EXCEPT !.step = step]]
  BY DEF Founding!Goes
<1>5. Moved(y, step, z)
  BY DEF Moved
<1> HIDE DEF z
<1> QED
  BY <1>1, <1>3, <1>4, <1>5 DEF z

(* A token is not None.                                                     *)
LEMMA TokenIsSomething ==
  ASSUME NEW p \in people, NEW x, Turn(x, p), calls \in Nat
  PROVE  x.by # None /\ x.by \in people \X Nat
<1>1. <<p, x.by[2]>> \in people \X Nat
  BY DEF Turn
<1> QED
  BY <1>1, OrganisationsAssumption DEF Turn

LEMMA BeginKeepsBInv ==
  ASSUME BInv, NEW p \in people, NEW step \in {"check", "exists", "profile", "readiness", "gate"}, Founding!Begin(p, step)
  PROVE  BInv'
<1> USE DEF BInv
<1>1. /\ calls' = calls + 1 /\ UNCHANGED <<organisation, users, profile, audit, shown, clock, identities, answer>>
      /\ call' = [call EXCEPT ![p] = [step |-> step, by |-> <<p, calls + 1>>, since |-> Len(identities), read |-> None, seen |-> {}]]
  BY DEF Founding!Begin, Founding!rows, Founding!registry
<1>2. PICK n, m : n = calls /\ n \in Nat /\ m = Len(identities) /\ m \in Nat
  BY DEF AnswersStand, Turns
<1>3. PICK x : x = [step |-> step, by |-> <<p, n + 1>>, since |-> m, read |-> None, seen |-> {}]
  OBVIOUS
<1>4. /\ x.by = <<p, n + 1>> /\ x.by[2] = n + 1 /\ x.step = step /\ x.since = m /\ x.seen = {}
      /\ x = [step |-> x.step, by |-> x.by, since |-> x.since, read |-> x.read, seen |-> x.seen]
  BY <1>3
<1>5. call' = [call EXCEPT ![p] = x]
  BY <1>1, <1>2, <1>3
<1>6. Turn(x, p)'
  <2>1. \A k \in DOMAIN audit : audit[k].by # x.by
    BY <1>2, <1>4 DEF RowsHold
  <2> QED
    BY <1>1, <1>2, <1>4, <2>1 DEF Turn
<1>7. Turns'
  <2>1. calls' \in Nat /\ \A q \in people \ {p} : \A y : Turn(y, q) => Turn(y, q)'
    BY <1>1 DEF Turn, Turns
  <2> QED
    BY <1>5, <1>6, <2>1, TurnsGo
<1>8. RowsHold'
  BY <1>1 DEF RowsHold, Turns, Founding!OneFounder
<1>9. AnswersStand'
  BY <1>1 DEF AnswersStand, AnswerStands
<1> QED
  BY <1>7, <1>8, <1>9

(* A call ends, whatever it did, if the rows say so.                        *)
LEMMA EndsKeepsTurns ==
  ASSUME Turns, NEW p \in people, Founding!Ends(p), UNCHANGED <<calls, organisation, users, profile, audit, identities>>
  PROVE  Turns'
<1>1. call' = [call EXCEPT ![p] = Founding!Idle] /\ calls' \in Nat
  BY DEF Founding!Ends, Turns
<1>2. \A q \in people \ {p} : \A y : Turn(y, q) => Turn(y, q)'
  BY DEF Turn
<1> QED
  BY <1>1, <1>2, TurnsGo

LEMMA QuietKeepsBInv ==
  ASSUME BInv, NEW p \in people, Founding!Check(p) \/ Founding!Exists(p) \/ Founding!Fails(p)
  PROVE  BInv'
<1> USE DEF BInv
<1>1. UNCHANGED <<organisation, users, profile, audit, calls, clock, identities, answer>>
  BY DEF Founding!Check, Founding!Exists, Founding!Fails, Founding!rows, Founding!registry
<1>2. AnswersStand'
  BY <1>1 DEF AnswersStand, AnswerStands
<1>3. RowsHold'
  BY <1>1 DEF RowsHold, Founding!OneFounder, Founding!Check, Founding!Exists, Founding!Fails, Founding!page
<1>4. Turns'
  <2>1. CASE Founding!Ends(p)
    BY <1>1, <2>1, EndsKeepsTurns
  <2>2. CASE Founding!Exists(p) /\ Founding!Goes(p, "create")
    <3>0. call[p].step = "exists"
      BY <2>2 DEF Founding!Exists
    <3>1. PICK x : Turn(call[p], p) /\ Moved(call[p], "create", x) /\ call' = [call EXCEPT ![p] = x]
      BY <2>2, <3>0, GoesOn
    <3>2. Turn(x, p)'
      BY <1>1, <3>0, <3>1 DEF Turn, Moved
    <3>3. calls' \in Nat /\ \A q \in people \ {p} : \A y : Turn(y, q) => Turn(y, q)'
      BY <1>1 DEF Turn, Turns
    <3> QED
      BY <3>1, <3>2, <3>3, TurnsGo
  <2> QED
    BY <2>1, <2>2 DEF Founding!Check, Founding!Exists, Founding!Fails
<1> QED
  BY <1>2, <1>3, <1>4

LEMMA CreateKeepsBInv ==
  ASSUME BInv, NEW p \in people, Founding!Create(p)
  PROVE  BInv'
<1> USE DEF BInv
<1>1. UNCHANGED <<users, profile, audit, shown, calls, clock, identities, answer>> /\ call[p].step = "create"
  BY DEF Founding!Create, Founding!page, Founding!registry
<1>2. AnswersStand'
  BY <1>1 DEF AnswersStand, AnswerStands
<1>3. CASE organisation = None
  <2>0. Founding!Goes(p, "user") /\ organisation' = call[p].by
    BY <1>3 DEF Founding!Create
  <2>1. PICK x : Turn(call[p], p) /\ Moved(call[p], "user", x) /\ call' = [call EXCEPT ![p] = x]
    BY <1>1, <2>0, GoesOn
  <2>2. Turn(x, p)'
    BY <1>1, <2>0, <2>1 DEF Turn, Moved
  <2>3. \A q \in people \ {p} : \A y : Turn(y, q) => Turn(y, q)'
    <3>1. \A q \in people \ {p} : \A y : Turn(y, q) => y.by # None
      BY TokenIsSomething DEF Turns
    <3> QED
      BY <1>1, <1>3, <3>1 DEF Turn
  <2>4. Turns'
    BY <1>1, <2>1, <2>2, <2>3, TurnsGo DEF Turns
  <2>5. RowsHold'
    BY <1>1, <1>3 DEF RowsHold, Founding!OneFounder
  <2> QED
    BY <1>2, <2>4, <2>5
<1>4. CASE organisation # None
  <2>1. Founding!Ends(p) /\ organisation' = organisation
    BY <1>4 DEF Founding!Create
  <2>2. Turns'
    BY <1>1, <2>1, EndsKeepsTurns
  <2>3. RowsHold'
    BY <1>1, <2>1 DEF RowsHold, Founding!OneFounder
  <2> QED
    BY <1>2, <2>2, <2>3
<1> QED
  BY <1>3, <1>4

LEMMA CreateUserKeepsBInv ==
  ASSUME BInv, NEW p \in people, Founding!CreateUser(p)
  PROVE  BInv'
<1> USE DEF BInv
<1>1. /\ UNCHANGED <<organisation, profile, audit, shown, calls, clock, identities, answer>>
      /\ users' = users \cup {call[p].by} /\ call[p].step = "user"
  BY DEF Founding!CreateUser, Founding!page, Founding!registry
<1>2. AnswersStand'
  BY <1>1 DEF AnswersStand, AnswerStands
<1>3. PICK x : Turn(call[p], p) /\ Moved(call[p], "audit", x) /\ call' = [call EXCEPT ![p] = x]
  BY <1>1, GoesOn DEF Founding!CreateUser
<1>4. call[p].by = organisation /\ organisation # None
  BY <1>1, <1>3, TokenIsSomething DEF Turn, Turns
<1>5. Turn(x, p)'
  BY <1>1, <1>3 DEF Turn, Moved
<1>6. \A q \in people \ {p} : \A y : Turn(y, q) => Turn(y, q)'
  BY <1>1 DEF Turn
<1>7. Turns'
  BY <1>1, <1>3, <1>5, <1>6, TurnsGo DEF Turns
<1>8. RowsHold'
  BY <1>1, <1>4 DEF RowsHold, Founding!OneFounder
<1> QED
  BY <1>2, <1>7, <1>8

LEMMA ProfileKeepsBInv ==
  ASSUME BInv, NEW p \in people, Founding!UpsertProfile(p)
  PROVE  BInv'
<1> USE DEF BInv
<1>1. UNCHANGED <<organisation, users, audit, shown, calls, clock, identities, answer>> /\ call[p].step = "profile"
  BY DEF Founding!UpsertProfile, Founding!page, Founding!registry
<1>2. RowsHold'
  BY <1>1 DEF RowsHold, Founding!OneFounder
<1>3. CASE organisation = None
  <2>1. Founding!Ends(p) /\ profile' = profile
    BY <1>3 DEF Founding!UpsertProfile
  <2>2. Turns'
    BY <1>1, <2>1, EndsKeepsTurns
  <2>3. AnswersStand'
    BY <1>1, <2>1 DEF AnswersStand, AnswerStands
  <2> QED
    BY <1>2, <2>2, <2>3
<1>4. CASE organisation # None
  <2>0. Founding!Goes(p, "profileAudit") /\ profile' = call[p].by
    BY <1>4 DEF Founding!UpsertProfile
  <2>1. PICK x : Turn(call[p], p) /\ Moved(call[p], "profileAudit", x) /\ call' = [call EXCEPT ![p] = x]
    BY <1>1, <2>0, GoesOn
  <2>2. profile' # None
    BY <2>0, <2>1, TokenIsSomething DEF Turns
  <2>3. Turn(x, p)'
    BY <1>1, <2>1, <2>2 DEF Turn, Moved
  <2>4. \A q \in people \ {p} : \A y : Turn(y, q) => Turn(y, q)'
    BY <1>1, <2>2 DEF Turn
  <2>5. Turns'
    BY <1>1, <2>1, <2>3, <2>4, TurnsGo DEF Turns
  <2>6. AnswersStand'
    BY <1>1, <2>2 DEF AnswersStand, AnswerStands
  <2> QED
    BY <1>2, <2>5, <2>6
<1> QED
  BY <1>3, <1>4
(* The entry of a call that ends with it is new, and the founder's if it is *)
(* that of the organisation.                                                *)
LEMMA LogKeepsBInv ==
  ASSUME BInv, NEW p \in people, Founding!Log(p)
  PROVE  BInv'
<1> USE DEF BInv
<1>1. /\ UNCHANGED <<organisation, users, profile, calls, clock, identities, answer>> /\ call[p].step \in {"audit", "profileAudit"}
      /\ Founding!Ends(p) /\ call' = [call EXCEPT ![p] = Founding!Idle]
      /\ shown' = shown \/ (call[p].step = "audit" /\ shown' = [shown EXCEPT ![p] = call[p].by])
  BY DEF Founding!Log, Founding!registry, Founding!page, Founding!Ends
<1>2. Turn(call[p], p) /\ calls \in Nat
  BY <1>1 DEF Turns, Founding!Idle
<1>3. PICK b : b = call[p].by /\ b \in people \X Nat /\ b[1] = p /\ b[2] \in 1..calls
  BY <1>2, TokenIsSomething DEF Turn
<1>4. PICK e : /\ e \in Entry /\ e.action = call[p].step /\ e.by = b /\ audit' = Append(audit, e)
  BY <1>1, <1>3 DEF Founding!Log, Entry
<1>5. PICK n \in Nat : n = Len(audit) /\ DOMAIN audit = 1..n
  BY DEF RowsHold
<1>6. /\ audit' \in Seq(Entry) /\ DOMAIN audit' = 1..(n + 1) /\ audit'[n + 1] = e
      /\ \A k \in 1..n : audit'[k] = audit[k]
  BY <1>4, <1>5 DEF RowsHold
<1>7. \A k \in 1..n : audit[k].by # b
  BY <1>2, <1>3, <1>5 DEF Turn
<1>8. AnswersStand'
  BY <1>1 DEF AnswersStand, AnswerStands
<1>9. Turns'
  <2>1. ASSUME NEW q \in people \ {p}, NEW y, Turn(y, q) PROVE Turn(y, q)'
    <3>1. y.by[1] = q
      BY <2>1 DEF Turn
    <3>2. y.by # b
      BY <1>3, <3>1
    <3>3. \A k \in DOMAIN audit' : audit'[k].by # y.by
      BY <1>4, <1>5, <1>6, <2>1, <3>2 DEF Turn
    <3> QED
      BY <1>1, <2>1, <3>3 DEF Turn
  <2>2. calls' \in Nat
    BY <1>1, <1>2
  <2> QED
    BY <1>1, <2>1, <2>2, TurnsGo
<1>10. RowsHold'
  <2>1. call[p].step = "audit" => b = organisation /\ organisation \in users
    BY <1>2, <1>3 DEF Turn
  <2>2. \A k \in DOMAIN audit' : audit'[k].by[2] \in 1..calls'
    BY <1>1, <1>3, <1>4, <1>5, <1>6 DEF RowsHold
  <2>3. DOMAIN shown' = people /\ \A q \in people : shown'[q] \in {None, organisation}
    BY <1>1, <1>3, <2>1 DEF RowsHold, Founding!OneFounder
  <2>4. \A k \in DOMAIN audit' : audit'[k].action = "audit" => audit'[k].by = organisation /\ organisation \in users
    BY <1>4, <1>5, <1>6, <2>1 DEF RowsHold, Founding!OneFounder
  <2>5. \A k, m \in DOMAIN audit' : audit'[k] = audit'[m] => k = m
    <3>1. \A k \in 1..n : audit[k] # e
      BY <1>4, <1>7
    <3> QED
      BY <1>5, <1>6, <3>1 DEF RowsHold, Founding!OneFounder
  <2> QED
    BY <1>1, <1>6, <2>2, <2>3, <2>4, <2>5 DEF RowsHold, Founding!OneFounder
<1> QED
  BY <1>8, <1>9, <1>10

LEMMA RegistryKeepsBInv ==
  ASSUME BInv, Founding!Clock \/ \E i \in Founding!Identities : Founding!RecordIdentity(i)
  PROVE  BInv'
<1> USE DEF BInv
<1>1. UNCHANGED <<organisation, users, profile, audit, shown, call, calls, answer>>
  BY DEF Founding!Clock, Founding!RecordIdentity, Founding!rows, Founding!page
<1>2. RowsHold'
  BY <1>1 DEF RowsHold, Founding!OneFounder
<1>3. CASE UNCHANGED identities /\ clock' \in Int
  <2>1. Turns'
    BY <1>1, <1>3 DEF Turns, Turn
  <2>2. AnswersStand'
    BY <1>1, <1>3 DEF AnswersStand, AnswerStands
  <2> QED
    BY <1>2, <2>1, <2>2
<1>4. ASSUME NEW i \in Founding!Identities, identities' = Append(identities, i), clock' = clock
      PROVE  BInv'
  <2>1. PICK n \in Nat : n = Len(identities) /\ DOMAIN identities = 1..n
    BY DEF AnswersStand
  <2>2. /\ identities' \in Seq(Founding!Identities) /\ Len(identities') = n + 1
        /\ \A k \in 1..n : identities'[k] = identities[k]
    BY <1>4, <2>1 DEF AnswersStand
  <2>3. Turns'
    <3>1. \A p \in people : \A y : Turn(y, p) => Turn(y, p)'
      BY <1>1, <2>1, <2>2 DEF Turn
    <3> QED
      BY <1>1, <3>1 DEF Turns
  <2>4. AnswersStand'
    <3>1. ASSUME NEW a, AnswerStands(a) PROVE AnswerStands(a)'
      <4>1. a.since \in Nat /\ a.to \in 0..n
        BY <2>1, <3>1 DEF AnswerStands
      <4>2. \A k \in a.since..a.to : k > 0 => identities'[k] = identities[k]
        BY <2>2, <4>1
      <4> QED
        BY <1>1, <2>2, <3>1, <4>1, <4>2 DEF AnswerStands
    <3> QED
      BY <1>1, <1>4, <2>2, <3>1 DEF AnswersStand
  <2> QED
    BY <1>2, <2>3, <2>4
<1> QED
  BY <1>3, <1>4 DEF Founding!Clock, Founding!RecordIdentity, AnswersStand

(* What was read of the identity is a record the row had meanwhile.         *)
LEMMA ReadKeepsBInv ==
  ASSUME BInv, NEW p \in people,
         Founding!GetIdentity(p) \/ \E what \in {"organisation", "profile", "identity"} : Founding!ReadFor(p, what)
  PROVE  BInv'
<1> USE DEF BInv
<1>1. UNCHANGED <<organisation, users, profile, audit, shown, calls, clock, identities, answer>>
  BY DEF Founding!GetIdentity, Founding!ReadFor, Founding!rows, Founding!page, Founding!registry
<1>2. RowsHold' /\ AnswersStand'
  BY <1>1 DEF RowsHold, Founding!OneFounder, AnswersStand, AnswerStands
<1>3. PICK y : /\ y = call[p] /\ Turn(y, p) /\ y = [step |-> y.step, by |-> y.by, since |-> y.since, read |-> y.read, seen |-> y.seen]
  BY DEF Founding!GetIdentity, Founding!ReadFor, Turns, Turn, Founding!Idle
<1>4. PICK m \in Nat : m = Len(identities)
  BY DEF AnswersStand
<1>5. \E x : /\ call' = [call EXCEPT ![p] = x] /\ x = [step |-> x.step, by |-> x.by, since |-> x.since, read |-> x.read, seen |-> x.seen]
             /\ x.by = y.by /\ x.since = y.since /\ x.step \notin {"user", "audit"}
             /\ x.read \in {y.read, m}
             /\ x.step = "evaluate" => x.read = m
             /\ "identity" \in x.seen => x.read = m \/ "identity" \in y.seen
             /\ "profile" \in x.seen => "profile" \in y.seen \/ profile # None
  <2>1. CASE Founding!GetIdentity(p)
    <3> DEFINE x == [step |-> "evaluate", by |-> y.by, since |-> y.since, read |-> m, seen |-> y.seen]
    <3>1. call' = [call EXCEPT ![p] = x]
      <4> DEFINE D == [call EXCEPT ![p].step = "evaluate"]
      <4>1. [y EXCEPT !.step = "evaluate"] = [step |-> "evaluate", by |-> y.by, since |-> y.since, read |-> y.read, seen |-> y.seen]
        BY <1>3
      <4>2. DOMAIN D = people /\ D[p] = [step |-> "evaluate", by |-> y.by, since |-> y.since, read |-> y.read, seen |-> y.seen]
        BY <1>3, <4>1 DEF Turns
      <4>3. \A q \in people \ {p} : D[q] = call[q]
        BY DEF Turns
      <4>4. call' = [D EXCEPT ![p].read = m]
        BY <1>4, <2>1 DEF Founding!GetIdentity
      <4>5. [[step |-> "evaluate", by |-> y.by, since |-> y.since, read |-> y.read, seen |-> y.seen] EXCEPT !.read = m] = x
        OBVIOUS
      <4> HIDE DEF D
      <4>6. call' = [D EXCEPT ![p] = x]
        BY <4>2, <4>4, <4>5
      <4>7. call' = [q \in people |-> IF q = p THEN x ELSE call[q]]
        BY <4>2, <4>3, <4>6
      <4> QED
        BY <4>7 DEF Turns
    <3>2. x = [step |-> x.step, by |-> x.by, since |-> x.since, read |-> x.read, seen |-> x.seen]
      OBVIOUS
    <3>3. x.step = "evaluate" /\ x.by = y.by /\ x.since = y.since /\ x.read = m /\ x.seen = y.seen
      OBVIOUS
    <3> HIDE DEF x
    <3> QED
      BY <3>1, <3>2, <3>3
  <2>2. ASSUME NEW what \in {"organisation", "profile", "identity"}, Founding!ReadFor(p, what)
        PROVE  <1>5
    <3> DEFINE r == IF what = "identity" THEN m ELSE y.read
               s == y.seen \cup {what}
               x == [step |-> y.step, by |-> y.by, since |-> y.since, read |-> r, seen |-> s]
    <3>1. call' = [call EXCEPT ![p] = x]
      <4> DEFINE D == [call EXCEPT ![p].seen = y.seen \cup {what}]
      <4>1. [y EXCEPT !.seen = s] = [step |-> y.step, by |-> y.by, since |-> y.since, read |-> y.read, seen |-> s]
        BY <1>3
      <4>2. DOMAIN D = people /\ D[p] = [step |-> y.step, by |-> y.by, since |-> y.since, read |-> y.read, seen |-> s]
        BY <1>3, <4>1 DEF Turns
      <4>3. \A q \in people \ {p} : D[q] = call[q]
        BY DEF Turns
      <4>4. call' = [D EXCEPT ![p].read = IF what = "identity" THEN m ELSE D[p].read]
        BY <1>3, <1>4, <2>2 DEF Founding!ReadFor
      <4>5. D[p].read = y.read
        BY <4>2
      <4>6. [[step |-> y.step, by |-> y.by, since |-> y.since, read |-> y.read, seen |-> s] EXCEPT !.read = r] = x
        OBVIOUS
      <4> HIDE DEF D, s
      <4>7. call' = [D EXCEPT ![p] = x]
        BY <4>2, <4>4, <4>5, <4>6
      <4>8. call' = [q \in people |-> IF q = p THEN x ELSE call[q]]
        BY <4>2, <4>3, <4>7
      <4> QED
        BY <4>8 DEF Turns
    <3>2. x = [step |-> x.step, by |-> x.by, since |-> x.since, read |-> x.read, seen |-> x.seen]
      OBVIOUS
    <3>3. x.step = y.step /\ x.by = y.by /\ x.since = y.since /\ x.read = r /\ x.seen = s
      OBVIOUS
    <3>4. y.step = "readiness" /\ (what = "profile" => profile # None)
      BY <1>3, <2>2 DEF Founding!ReadFor
    <3> HIDE DEF x
    <3> QED
      BY <3>1, <3>2, <3>3, <3>4
  <2> QED
    BY <2>1, <2>2
<1>6. PICK x : /\ call' = [call EXCEPT ![p] = x] /\ x = [step |-> x.step, by |-> x.by, since |-> x.since, read |-> x.read, seen |-> x.seen]
               /\ x.by = y.by /\ x.since = y.since /\ x.step \notin {"user", "audit"}
               /\ x.read \in {y.read, m}
               /\ x.step = "evaluate" => x.read = m
               /\ "identity" \in x.seen => x.read = m \/ "identity" \in y.seen
               /\ "profile" \in x.seen => "profile" \in y.seen \/ profile # None
  BY <1>5
<1>7. Turn(x, p)'
  BY <1>1, <1>3, <1>4, <1>6 DEF Turn
<1>8. calls' \in Nat /\ \A q \in people \ {p} : \A z : Turn(z, q) => Turn(z, q)'
  BY <1>1 DEF Turn, Turns
<1>9. Turns'
  BY <1>6, <1>7, <1>8, TurnsGo
<1> QED
  BY <1>2, <1>9

(* Of three times the first is before the others.                           *)
LEMMA ExpiryIsFirst ==
  ASSUME NEW i \in Founding!Identities, i.verifiedAt # None, NEW t \in Int, Founding!Expiry(i) > t
  PROVE  /\ t < i.verifiedAt + Horizon
         /\ \A h \in {i.validUntil, i.electronicIdExpiresAt} : h # None => t < h
<1> DEFINE horizons == {i.verifiedAt + Horizon} \cup ({i.validUntil, i.electronicIdExpiresAt} \ {None})
<1>1. i.verifiedAt \in Int /\ i.validUntil \in Int \cup {None} /\ i.electronicIdExpiresAt \in Int \cup {None}
  <2>1. i # Founding!Rejected
    BY DEF Founding!Rejected
  <2>2. i.verifiedAt \in Times \cup {None} /\ i.validUntil \in Times \cup {None} /\ i.electronicIdExpiresAt \in Times \cup {None}
    BY <2>1 DEF Founding!Identities
  <2> QED
    BY <2>2, OrganisationsAssumption
<1>2. i.verifiedAt + Horizon \in Int
  BY <1>1, OrganisationsAssumption
<1>3. \E h \in horizons : \A other \in horizons : h <= other
  BY <1>1, <1>2
<1>4. horizons \subseteq Int
  BY <1>1, <1>2
<1>5. Founding!Expiry(i) \in horizons /\ \A other \in horizons : Founding!Expiry(i) <= other
  BY <1>3 DEF Founding!Expiry
<1>6. \A h \in horizons : t < h
  <2>1. Founding!Expiry(i) \in Int
    BY <1>4, <1>5
  <2> HIDE DEF horizons
  <2> QED
    BY <1>4, <1>5, <2>1
<1> QED
  BY <1>6

LEMMA AnsweredKeepsBInv ==
  ASSUME BInv, NEW p \in people, Founding!NotReady(p) \/ Founding!Ready(p) \/ Founding!Gate(p)
  PROVE  BInv'
<1> USE DEF BInv
<1>1. Founding!Ends(p) /\ UNCHANGED <<organisation, users, profile, audit, shown, calls, clock, identities>>
  BY DEF Founding!NotReady, Founding!Ready, Founding!Gate, Founding!rows, Founding!page
<1>2. Turns' /\ RowsHold'
  BY <1>1, EndsKeepsTurns DEF RowsHold, Founding!OneFounder
<1>3. \A a : AnswerStands(a) => AnswerStands(a)'
  BY <1>1 DEF AnswerStands
<1>4. PICK y : y = call[p] /\ Turn(y, p)
  BY DEF Founding!NotReady, Founding!Ready, Founding!Gate, Turns, Founding!Idle
<1>5. PICK m \in Nat : m = Len(identities) /\ \A k \in 1..m : identities[k] \in Founding!Identities
  BY DEF AnswersStand
<1>6. \E a : answer' = [answer EXCEPT ![p] = a] /\ (a # None => AnswerStands(a))
  <2>1. CASE Founding!NotReady(p)
    BY <2>1 DEF Founding!NotReady
  <2>2. CASE Founding!Ready(p)
    <3>1. CASE y.read > 0 /\ identities[y.read].status = "verified"
      <4>1. answer' = [answer EXCEPT ![p] = [kind |-> "ready", since |-> y.since, to |-> m]]
        BY <1>4, <1>5, <2>2, <3>1 DEF Founding!Ready
      <4>2. y.read \in y.since..m /\ y.since \in Nat /\ profile # None
        BY <1>4, <1>5, <2>2 DEF Founding!Ready, Turn
      <4>3. AnswerStands([kind |-> "ready", since |-> y.since, to |-> m])
        BY <1>5, <3>1, <4>2 DEF AnswerStands
      <4> QED
        BY <4>1, <4>3
    <3>2. CASE ~(y.read > 0 /\ identities[y.read].status = "verified")
      BY <1>4, <2>2, <3>2 DEF Founding!Ready
    <3> QED
      BY <3>1, <3>2
  <2>3. CASE Founding!Gate(p)
    <3>1. CASE y.read > 0 /\ Founding!CurrentlyVerified(identities[y.read])
      <4>1. answer' = [answer EXCEPT ![p] = [kind |-> "allowed", since |-> y.since, to |-> m, at |-> clock]]
        BY <1>4, <1>5, <2>3, <3>1 DEF Founding!Gate
      <4>2. y.read \in y.since..m /\ y.since \in Nat /\ clock \in Int
        BY <1>4, <1>5, <2>3 DEF Founding!Gate, Turn, AnswersStand
      <4>3. PICK i \in Founding!Identities : i = identities[y.read]
        BY <1>5, <3>1, <4>2
      <4>4. /\ i.status = "verified" /\ i.verifiedAt # None /\ i.verifiedAt <= clock
            /\ clock < i.verifiedAt + Horizon
            /\ \A h \in {i.validUntil, i.electronicIdExpiresAt} : h # None => clock < h
        <5>1. i.status = "verified" /\ i.verifiedAt # None /\ i.verifiedAt <= clock /\ Founding!Expiry(i) > clock
          BY <3>1, <4>3 DEF Founding!CurrentlyVerified
        <5> QED
          BY <4>2, <5>1, ExpiryIsFirst
      <4>5. AnswerStands([kind |-> "allowed", since |-> y.since, to |-> m, at |-> clock])
        BY <1>5, <3>1, <4>2, <4>3, <4>4 DEF AnswerStands
      <4> QED
        BY <4>1, <4>5
    <3>2. CASE ~(y.read > 0 /\ Founding!CurrentlyVerified(identities[y.read]))
      BY <1>4, <2>3, <3>2 DEF Founding!Gate
    <3> QED
      BY <3>1, <3>2
  <2> QED
    BY <2>1, <2>2, <2>3
<1>7. AnswersStand'
  BY <1>1, <1>3, <1>6 DEF AnswersStand
<1> QED
  BY <1>2, <1>7

LEMMA BInvNext ==
  ASSUME BInv, [MCNext]_all
  PROVE  BInv'
<1>1. CASE UNCHANGED founding
  BY <1>1 DEF founding, BInv, Turns, Turn, RowsHold, Founding!OneFounder, AnswersStand, AnswerStands
<1>2. CASE Founding!Onboard
  BY <1>2, BeginKeepsBInv, QuietKeepsBInv, CreateKeepsBInv, CreateUserKeepsBInv, ProfileKeepsBInv, LogKeepsBInv
  DEF Founding!Onboard
<1>3. CASE Founding!Enrol
  BY <1>3, BeginKeepsBInv, RegistryKeepsBInv, ReadKeepsBInv, AnsweredKeepsBInv DEF Founding!Enrol
<1> QED
  BY <1>1, <1>2, <1>3 DEF MCNext, all, Founding!Next

(* Whatever the people, records, roles, accounts and authorisations: an     *)
(* organisation has one founder, what the enrolment is told stood in a      *)
(* record, what is published was reviewed and a provider works on what was  *)
(* granted (organisations.service.ts, the guards of the API).               *)
THEOREM OrganisationsAreOrdered == MCSpec => []OrganisationsHold
<1> DEFINE Inv == BInv /\ AInv
<1>1. MCInit => Inv
  BY BInvInit, AInvInit DEF MCInit
<1>2. Inv /\ [MCNext]_all => Inv'
  BY BInvNext, AInvNext
<1>3. Inv => OrganisationsHold
  <2>1. ASSUME BInv PROVE Founding!OneFounder /\ Founding!EnrolmentIsRecorded
    BY <2>1 DEF BInv, RowsHold, AnswersStand, AnswerStands, Founding!EnrolmentIsRecorded
  <2> QED
    BY <2>1, AInvSays DEF OrganisationsHold
<1> QED
  BY <1>1, <1>2, <1>3, PTL DEF MCSpec
=============================================================================
