----------------------------- MODULE AdminSession -----------------------------
(***************************************************************************)
(* Signing in to the admin console: the login and callback handlers, the   *)
(* demo identity provider they send the browser to, the session cookie     *)
(* that the tabs of one browser share, logout, and expiry.                 *)
(*                                                                         *)
(* Login n stores a pending session under a fresh id, with a fresh state   *)
(* and PKCE verifier; all three are written once and together, so that the *)
(* id stands for them, and for the code the provider issues on them.       *)
(***************************************************************************)
EXTENDS Naturals, Sequences, FiniteSets

CONSTANTS Tabs,         \* browser tabs, each with one request at a time
          Owner,        \* Owner[t]: the browser of tab t
          MaxSessions   \* bound: sessions ever stored, pending ones included

ASSUME AdminSessionAssumption == DOMAIN Owner = Tabs /\ MaxSessions \in Nat

Ids == 1..MaxSessions
NoId == 0
Browsers == {Owner[t] : t \in Tabs}

VARIABLES
    sessions,   \* Redis: what is stored under every session id
    used,       \* ids handed out so far (random tokens: never the same twice)
    cookie,     \* per browser: the id in the admin cookie
    codes,      \* provider: logins whose code is issued and not redeemed
    tab,        \* per tab: where its request is, the login or session it is about
                \* (in a callback, the login whose code the URL has), the state in
                \* the URL, the verifier callback found, and the session of its page
    owner,      \* history: the browser that a session was stored for
    urls,       \* history: logins whose callback URL some browser has seen
    redeemed    \* history: per login, the browsers that got tokens for its code

vars == <<sessions, used, cookie, codes, tab, owner, urls, redeemed>>

NewTab == [pc |-> "ready", id |-> NoId, state |-> NoId, verifier |-> NoId, page |-> NoId]

Init == /\ sessions = [n \in Ids |-> "none"]
        /\ used = 0
        /\ cookie = [b \in Browsers |-> NoId]
        /\ codes = {}
        /\ tab = [t \in Tabs |-> NewTab]
        /\ owner = [n \in {} |-> NoId]
        /\ urls = {}
        /\ redeemed = [n \in Ids |-> <<>>]

Jar(t) == cookie[Owner[t]]
SetCookie(t, id) == cookie' = [cookie EXCEPT ![Owner[t]] = id]
GoTo(t, pc, id) == tab' = [tab EXCEPT ![t].pc = pc, ![t].id = id]
Return(t, n, s) == tab' = [tab EXCEPT ![t].pc = "returning", ![t].id = n, ![t].state = s]
Done(t) == tab' = [tab EXCEPT ![t] = [NewTab EXCEPT !.page = tab[t].page]]

\* SET of a session under a fresh random id.
Store(t, what) ==
    LET n == used + 1 IN
    /\ n \in Ids
    /\ used' = n
    /\ sessions' = [sessions EXCEPT ![n] = what]
    /\ owner' = [m \in DOMAIN owner \cup {n} |-> IF m = n THEN Owner[t] ELSE owner[m]]

-------------------------------------------------------------------------------
(* login.  Refusals before the SET (wrong host, OIDC off, provider or Redis *)
(* unavailable) change nothing and are not steps.                           *)

Login(t) ==
    /\ tab[t].pc = "ready"
    /\ Store(t, "pending")
    /\ GoTo(t, "redirected", used + 1)
    /\ UNCHANGED <<cookie, codes, urls, redeemed>>

\* The redirect arrives and its cookie replaces the one of the browser.
Redirected(t) ==
    /\ tab[t].pc = "redirected"
    /\ SetCookie(t, tab[t].id)
    /\ GoTo(t, "authorize", tab[t].id)
    /\ UNCHANGED <<sessions, used, codes, owner, urls, redeemed>>

-------------------------------------------------------------------------------
(* The provider: authorize and token.                                       *)

\* POST /authorize with the right password: a code for this challenge, and a
\* redirect to the callback with the state.
SignIn(t) ==
    /\ tab[t].pc = "authorize"
    /\ codes' = codes \cup {tab[t].id}
    /\ urls' = urls \cup {tab[t].id}
    /\ Return(t, tab[t].id, tab[t].id)
    /\ UNCHANGED <<sessions, used, cookie, owner, redeemed>>

\* Mutant: the code is checked first and deleted once the token is signed.
RedeemLate(n) == UNCHANGED codes

\* token: the code is deleted before it is judged.
Redeem(n) == codes' = codes \ {n}

\* Mutant: the verifier is not compared with the challenge.
GrantsUnchallenged(n, verifier) == n \in codes

\* token: tokens for a known code with the verifier of its login.
Grants(n, verifier) == n \in codes /\ verifier = n

-------------------------------------------------------------------------------
(* callback.                                                                *)

\* A callback URL is opened again: reload, the back button, a link passed on, with
\* its state or cut short of it.
Reopen(t, n, s) ==
    /\ tab[t].pc = "ready"
    /\ n \in urls
    /\ s \in {n, NoId}
    /\ Return(t, n, s)
    /\ UNCHANGED <<sessions, used, cookie, codes, owner, urls, redeemed>>

\* Mutant: the pending login is found by the state in the URL.
ConsumedByState(t) == tab[t].state

\* The id that GETDEL names: the browser's cookie, whatever it stands for.
Consumed(t) == Jar(t)

\* State and verifier of what is stored: a pending login has its own, a signed-in
\* session has empty ones.
Secret(n) == IF sessions[n] = "pending" THEN n ELSE NoId

\* The stored state equals the one in the URL.  Two empty ones are equal: a callback
\* without a state passes on the cookie of a signed-in session.
StateMatches(t) == Secret(Consumed(t)) = tab[t].state

Consume(t) == sessions' = [sessions EXCEPT ![Consumed(t)] = "none"]

\* GETDEL of the cookie's session, then the comparison of the states.
Callback(t) ==
    /\ tab[t].pc = "returning"
    /\ IF Consumed(t) = NoId THEN Done(t) /\ UNCHANGED sessions
       ELSE /\ Consume(t)
            /\ IF sessions[Consumed(t)] # "none" /\ StateMatches(t)
                 THEN tab' = [tab EXCEPT ![t].pc = "exchange",
                                         ![t].verifier = Secret(Consumed(t))]
                 ELSE Done(t)
    /\ UNCHANGED <<used, cookie, codes, owner, urls, redeemed>>

\* Exchange of the code with the verifier found, both from wherever.  The provider
\* may not be reached, and its answer may be lost.  (The client library then sends
\* the code once more, with the client's credentials in the form: by then the code
\* is redeemed, or this is the first time it arrives.)
Exchange(t) ==
    LET n == tab[t].id
        granted == Grants(n, tab[t].verifier)
    IN
    /\ tab[t].pc = "exchange"
    /\ \/ /\ Redeem(n)
          /\ redeemed' = IF granted THEN [redeemed EXCEPT ![n] = Append(@, Owner[t])]
                                    ELSE redeemed
          /\ \/ granted /\ GoTo(t, "verified", n)
             \/ Done(t)
       \/ Done(t) /\ UNCHANGED <<codes, redeemed>>
    /\ UNCHANGED <<sessions, used, cookie, owner, urls>>

\* The ID token is good and has the scope: SET of the session, and the reply.
Admit(t) ==
    /\ tab[t].pc = "verified"
    /\ \/ Store(t, "admin") /\ GoTo(t, "admitted", used + 1)
       \/ Done(t) /\ UNCHANGED <<sessions, used, owner>>
    /\ UNCHANGED <<cookie, codes, urls, redeemed>>

Admitted(t) ==
    /\ tab[t].pc = "admitted"
    /\ SetCookie(t, tab[t].id)
    /\ Done(t)
    /\ UNCHANGED <<sessions, used, codes, owner, urls, redeemed>>

-------------------------------------------------------------------------------
(* The console: authenticate, protect, logout.                              *)

SignedIn(t) == Jar(t) # NoId /\ sessions[Jar(t)] = "admin"

\* GET /admin renders the page with the CSRF token of the session.
Open(t) ==
    /\ tab[t].pc = "ready"
    /\ SignedIn(t)
    /\ tab' = [tab EXCEPT ![t].page = Jar(t)]
    /\ UNCHANGED <<sessions, used, cookie, codes, owner, urls, redeemed>>

\* Mutant: protect checks the session and not the token.
PassesWithoutToken(t) == SignedIn(t)

\* protect: the cookie's session, and on a POST its CSRF token, which the page has.
Passes(t) == SignedIn(t) /\ tab[t].page = Jar(t)

\* POST /admin/logout passes protect; the handler has the id of its own cookie.
Logout(t) ==
    /\ tab[t].pc = "ready"
    /\ tab[t].page # NoId
    /\ Passes(t)
    /\ GoTo(t, "logout", Jar(t))
    /\ UNCHANGED <<sessions, used, cookie, codes, owner, urls, redeemed>>

\* DEL, whose failure is only logged.
LogoutDelete(t) ==
    /\ tab[t].pc = "logout"
    /\ \/ sessions' = [sessions EXCEPT ![tab[t].id] = "none"]
       \/ UNCHANGED sessions
    /\ GoTo(t, "leaving", NoId)
    /\ UNCHANGED <<used, cookie, codes, owner, urls, redeemed>>

\* The reply clears the cookie, also one that another tab got meanwhile.
LoggedOut(t) ==
    /\ tab[t].pc = "leaving"
    /\ SetCookie(t, NoId)
    /\ tab' = [tab EXCEPT ![t] = NewTab]
    /\ UNCHANGED <<sessions, used, codes, owner, urls, redeemed>>

\* Redis drops a pending login after ten minutes, a session after its ttl.
Expire(n) ==
    /\ sessions[n] # "none"
    /\ sessions' = [sessions EXCEPT ![n] = "none"]
    /\ UNCHANGED <<used, cookie, codes, tab, owner, urls, redeemed>>

\* The user gives up a sign-in, or the connection breaks.
Abandon(t) ==
    /\ tab[t].pc \in {"redirected", "authorize", "returning", "admitted", "leaving"}
    /\ Done(t)
    /\ UNCHANGED <<sessions, used, cookie, codes, owner, urls, redeemed>>

Next == \/ \E t \in Tabs :
              \/ Login(t) \/ Redirected(t) \/ SignIn(t)
              \/ \E n \in Ids, s \in {NoId} \cup Ids : Reopen(t, n, s)
              \/ Callback(t) \/ Exchange(t) \/ Admit(t) \/ Admitted(t)
              \/ Open(t) \/ Logout(t) \/ LogoutDelete(t) \/ LoggedOut(t)
              \/ Abandon(t)
        \/ \E n \in Ids : Expire(n)

Spec == Init /\ [][Next]_vars

-------------------------------------------------------------------------------
(***************************************************************************)
(* Properties.                                                             *)
(***************************************************************************)

\* Type invariant; ids are only stored once they are handed out.
TypeOK ==
    /\ sessions \in [Ids -> {"none", "pending", "admin"}]
    /\ used \in 0..MaxSessions
    /\ \A n \in Ids : sessions[n] # "none" => n <= used
    /\ cookie \in [Browsers -> 0..used]
    /\ codes \subseteq urls /\ urls \subseteq 1..used
    /\ tab \in [Tabs -> [pc : {"ready", "redirected", "authorize", "returning", "exchange",
                               "verified", "admitted", "logout", "leaving"},
                         id : 0..used, state : 0..used, verifier : 0..used, page : 0..used]]
    /\ owner \in [1..used -> Browsers]
    /\ redeemed \in [Ids -> Seq(Browsers)]

\* callback: however often and wherever its URL is opened, with or without the state,
\* tokens for a login's code are issued at most once, and to the browser that began
\* the login; only there is a session made of it.  callback does send codes of
\* other browsers' logins, from a signed-in session with a URL without a state: it
\* has no verifier to send with them.
ExchangesAreBound ==
    /\ TypeOK
    /\ \A n \in Ids : redeemed[n] # <<>> => n \in DOMAIN owner /\ redeemed[n] = <<owner[n]>>
    /\ \A t \in Tabs : tab[t].pc \in {"verified", "admitted"} => owner[tab[t].id] = Owner[t]

\* One sign-in at the provider makes at most one session: as many sessions came
\* from a login as codes were redeemed for it, whatever replies were lost.
Sessions == {n \in Ids : sessions[n] = "admin"}
OneSessionPerSignIn == Cardinality(Sessions) + Cardinality(codes) <= Cardinality(urls)

\* A pending login or a session ends by its expiry or by a request of its own
\* browser that came back to the callback or logs out; another browser, whatever
\* URL it opens, cannot end it.  (A tab of the same browser can: GETDEL takes what
\* the cookie names, before the states are compared.)
BrowsersDoNotInterfere ==
    [][\A n \in DOMAIN owner : sessions[n] # "none" /\ sessions'[n] = "none" =>
          \/ tab' = tab
          \/ \E t \in Tabs : /\ Owner[t] = owner[n]
                             /\ tab[t].pc \in {"returning", "logout"}
                             /\ tab'[t].pc # tab[t].pc]_vars

\* protect: a POST acts on the session its page was rendered for.  A page left
\* open while another tab signed in again does not log the new session out.
LogoutsActOnTheirPage ==
    [][\A t \in Tabs : tab[t].pc = "logout" /\ tab'[t].pc = "leaving" =>
          \A n \in Ids : sessions'[n] # sessions[n] => n = tab[t].page]_vars
===============================================================================
