-------------------------- MODULE AdminSessionProofs --------------------------
(***************************************************************************)
(* Sign-ins are bound to their browser, make at most one session each and  *)
(* end only by their own browser, for any number of tabs and browsers and  *)
(* any number of logins.                                                   *)
(***************************************************************************)
EXTENDS AdminSession, FiniteSetTheorems, TLAPS

-------------------------------------------------------------------------------
(* The inductive invariant.                                                *)

TabType == [pc : {"ready", "redirected", "authorize", "returning", "exchange",
                  "verified", "admitted", "logout", "leaving"},
            id : 0..used, state : 0..used, verifier : 0..used, page : 0..used]

\* Where a tab is on its way to the provider, and where its id is its browser's own.
Outbound == {"redirected", "authorize"}
Owned == Outbound \cup {"verified", "admitted", "logout"}

\* A browser's cookie, the id a handler goes by and a verifier that callback found
\* name what was stored for that browser.
OwnersInv ==
    /\ \A b \in Browsers : cookie[b] # NoId => owner[cookie[b]] = b
    /\ \A t \in Tabs : tab[t].pc \in Owned => tab[t].id # NoId /\ owner[tab[t].id] = Owner[t]
    /\ \A t \in Tabs : tab[t].pc = "exchange" /\ tab[t].verifier # NoId =>
          owner[tab[t].verifier] = Owner[t]
    /\ \A t \in Tabs : tab[t].pc = "logout" => tab[t].id = tab[t].page

\* A login for which tokens were issued has lost its code, they went to its browser
\* once, and one tab at most is making a session of them.
GrantsInv ==
    /\ \A n \in Ids : redeemed[n] # <<>> => n \in urls \ codes /\ redeemed[n] = <<owner[n]>>
    /\ \A t \in Tabs : tab[t].pc = "verified" => redeemed[tab[t].id] # <<>>
    /\ \A t, u \in Tabs :
          t # u /\ tab[t].pc = "verified" /\ tab[u].pc = "verified" => tab[t].id # tab[u].id

\* A login on its way to the provider has no code yet, and is in one tab.
FreshInv ==
    /\ \A t \in Tabs : tab[t].pc \in Outbound => tab[t].id \notin urls
    /\ \A t, u \in Tabs :
          t # u /\ tab[t].pc \in Outbound /\ tab[u].pc \in Outbound => tab[t].id # tab[u].id

\* Logins whose code was redeemed and whose session is not stored yet.
Verified == {n \in Ids : \E t \in Tabs : tab[t].pc = "verified" /\ tab[t].id = n}

\* A login that came back from the provider has its code, is being admitted, or
\* has made a session: one of them.
CountInv == Cardinality(Sessions) + Cardinality(codes) + Cardinality(Verified)
                <= Cardinality(urls)

SignInInv == TypeOK /\ OwnersInv /\ GrantsInv /\ FreshInv /\ CountInv

-------------------------------------------------------------------------------
(* Counting.                                                               *)

\* Sets of ids are finite.
LEMMA IdsAreFinite ==
    \A S \in SUBSET Ids : IsFiniteSet(S) /\ Cardinality(S) \in Nat
<1>1. IsFiniteSet(Ids)
  BY FS_Interval, AdminSessionAssumption DEF Ids
<1> QED BY <1>1, FS_Subset, FS_CardinalityType

\* A set of ids inside another has no more elements.
LEMMA FewerIds ==
    ASSUME NEW S \in SUBSET Ids, NEW T \in SUBSET S
    PROVE  Cardinality(T) <= Cardinality(S)
BY IdsAreFinite, FS_Subset

\* One id more or less changes the number by one.
LEMMA OneId ==
    ASSUME NEW S \in SUBSET Ids, NEW n \in Ids
    PROVE  /\ n \notin S => Cardinality(S \cup {n}) = Cardinality(S) + 1
           /\ n \in S => Cardinality(S \ {n}) = Cardinality(S) - 1
           /\ Cardinality(S \cup {n}) <= Cardinality(S) + 1
<1>1. IsFiniteSet(S) /\ Cardinality(S) \in Nat
  BY IdsAreFinite
<1>2. Cardinality(S \cup {n}) = IF n \in S THEN Cardinality(S) ELSE Cardinality(S) + 1
  BY <1>1, FS_AddElement
<1>3. Cardinality(S \ {n}) = IF n \in S THEN Cardinality(S) - 1 ELSE Cardinality(S)
  BY <1>1, FS_RemoveElement
<1> QED BY <1>1, <1>2, <1>3

\* The sets that are counted are sets of ids.
LEMMA CountedAreIds ==
    ASSUME TypeOK
    PROVE  /\ Sessions \in SUBSET Ids /\ Verified \in SUBSET Ids
           /\ codes \in SUBSET Ids /\ urls \in SUBSET Ids
           /\ Cardinality(Sessions) \in Nat /\ Cardinality(Verified) \in Nat
           /\ Cardinality(codes) \in Nat /\ Cardinality(urls) \in Nat
<1>1. 1..used \subseteq Ids
  BY AdminSessionAssumption DEF TypeOK, Ids
<1>2. /\ Sessions \in SUBSET Ids /\ Verified \in SUBSET Ids
      /\ codes \in SUBSET Ids /\ urls \in SUBSET Ids
  BY <1>1 DEF TypeOK, Sessions, Verified
<1> QED BY <1>2, IdsAreFinite

-------------------------------------------------------------------------------
(* The steps.                                                              *)

\* A step of one tab that at most drops sessions and sets the browser's cookie: what
\* the new state of the tab has to respect to keep the invariant.
LEMMA QuietStep ==
    ASSUME SignInInv, NEW t \in Tabs, NEW v \in TabType, tab' = [tab EXCEPT ![t] = v],
           UNCHANGED <<used, codes, owner, urls, redeemed>>,
           sessions' \in [Ids -> {"none", "pending", "admin"}],
           \A n \in Ids : sessions'[n] \in {sessions[n], "none"},
           cookie' \in [Browsers -> 0..used],
           \A b \in Browsers : cookie'[b] # NoId => owner[cookie'[b]] = b,
           v.pc # "verified",
           v.pc \in Owned => v.id # NoId /\ owner[v.id] = Owner[t],
           v.pc = "exchange" /\ v.verifier # NoId => owner[v.verifier] = Owner[t],
           v.pc = "logout" => v.id = v.page,
           v.pc \in Outbound => /\ v.id \notin urls
                                /\ \A u \in Tabs \ {t} : tab[u].pc \in Outbound => tab[u].id # v.id
    PROVE  SignInInv'
<1>1. /\ tab \in [Tabs -> TabType] /\ TabType' = TabType /\ tab' \in [Tabs -> TabType]
      /\ tab'[t] = v /\ \A u \in Tabs \ {t} : tab'[u] = tab[u]
  BY DEF SignInInv, TypeOK, TabType
<1>2. TypeOK'
  <2>1. \A n \in Ids : sessions'[n] # "none" => n <= used'
    BY DEF SignInInv, TypeOK
  <2> QED BY <1>1, <2>1 DEF SignInInv, TypeOK, TabType
<1>3. OwnersInv'
  BY <1>1 DEF SignInInv, OwnersInv
<1>4. GrantsInv'
  BY <1>1 DEF SignInInv, GrantsInv
<1>5. FreshInv'
  BY <1>1 DEF SignInInv, FreshInv
<1>6. CountInv'
  <2>1. Verified' \subseteq Verified /\ Sessions' \subseteq Sessions
    BY <1>1 DEF Verified, Sessions
  <2>2. Cardinality(Verified') <= Cardinality(Verified)
    BY <2>1, CountedAreIds, FewerIds DEF SignInInv
  <2>3. Cardinality(Sessions') <= Cardinality(Sessions)
    BY <2>1, CountedAreIds, FewerIds DEF SignInInv
  <2>4. Cardinality(codes') = Cardinality(codes) /\ Cardinality(urls') = Cardinality(urls)
    OBVIOUS
  <2>5. Cardinality(Verified') \in Nat /\ Cardinality(Sessions') \in Nat
    BY <2>1, CountedAreIds, IdsAreFinite DEF SignInInv
  <2> QED BY <2>2, <2>3, <2>4, <2>5, CountedAreIds DEF SignInInv, CountInv
<1> QED BY <1>2, <1>3, <1>4, <1>5, <1>6 DEF SignInInv

\* A blank tab, which a finished handler leaves, keeps at most its page.
LEMMA TabIsTyped ==
    ASSUME TypeOK, NEW t \in Tabs
    PROVE  /\ tab[t] \in TabType /\ tab \in [Tabs -> TabType]
           /\ tab[t].id \in 0..used /\ tab[t].page \in 0..used
           /\ NewTab \in TabType /\ NewTab.pc = "ready"
           /\ [NewTab EXCEPT !.page = tab[t].page] \in TabType
           /\ [NewTab EXCEPT !.page = tab[t].page].pc = "ready"
           /\ Jar(t) \in 0..used /\ Owner[t] \in Browsers
           /\ NoId \in 0..used /\ used \in 0..MaxSessions /\ 1..used \subseteq 0..used
<1>1. tab[t] \in TabType /\ tab \in [Tabs -> TabType]
  BY DEF TypeOK, TabType
<1>2. tab[t].id \in 0..used /\ tab[t].page \in 0..used
  BY <1>1 DEF TabType
<1>3. /\ 0 \in 0..used /\ NoId \in 0..used /\ used \in 0..MaxSessions
      /\ 1..used \subseteq 0..used
  BY AdminSessionAssumption DEF TypeOK, NoId
<1>4. NewTab \in TabType /\ NewTab.pc = "ready"
  BY <1>3 DEF NewTab, TabType, NoId
<1>5. /\ [NewTab EXCEPT !.page = tab[t].page] \in TabType
      /\ [NewTab EXCEPT !.page = tab[t].page].pc = "ready"
  BY <1>2, <1>4 DEF TabType
<1>6. Jar(t) \in 0..used /\ Owner[t] \in Browsers
  BY DEF TypeOK, Jar, Browsers
<1> QED BY <1>1, <1>2, <1>3, <1>4, <1>5, <1>6

\* The states without an obligation.
LEMMA IdleStates ==
    \A pc \in {"ready", "returning", "leaving"} :
        /\ pc \notin Owned /\ pc \notin Outbound
        /\ pc # "exchange" /\ pc # "verified" /\ pc # "logout"
BY DEF Owned, Outbound

\* A tab that becomes idle keeps the invariant, whatever session it dropped and
\* whichever of its own ids its cookie names.
LEMMA IdleStep ==
    ASSUME SignInInv, NEW t \in Tabs, NEW v \in TabType, tab' = [tab EXCEPT ![t] = v],
           v.pc \in {"ready", "returning", "leaving"},
           UNCHANGED <<used, codes, owner, urls, redeemed>>,
           sessions' \in [Ids -> {"none", "pending", "admin"}],
           \A n \in Ids : sessions'[n] \in {sessions[n], "none"},
           \/ UNCHANGED cookie
           \/ \E id \in 0..used : SetCookie(t, id) /\ (id # NoId => owner[id] = Owner[t])
    PROVE  SignInInv'
<1>1. /\ cookie' \in [Browsers -> 0..used]
      /\ \A b \in Browsers : cookie'[b] # NoId => owner[cookie'[b]] = b
  <2>1. /\ Owner[t] \in Browsers /\ cookie \in [Browsers -> 0..used]
        /\ \A b \in Browsers : cookie[b] # NoId => owner[cookie[b]] = b
    BY TabIsTyped DEF SignInInv, TypeOK, OwnersInv
  <2>2. CASE UNCHANGED cookie
    BY <2>1, <2>2
  <2>3. ASSUME NEW id \in 0..used, SetCookie(t, id), id # NoId => owner[id] = Owner[t]
        PROVE  /\ cookie' \in [Browsers -> 0..used]
               /\ \A b \in Browsers : cookie'[b] # NoId => owner[cookie'[b]] = b
    BY <2>1, <2>3 DEF SetCookie
  <2> QED BY <2>2, <2>3
<1> QED BY <1>1, IdleStates, QuietStep

\* Finishing a request.
LEMMA DoneStep ==
    ASSUME SignInInv, NEW t \in Tabs, Done(t),
           UNCHANGED <<used, codes, owner, urls, redeemed>>,
           sessions' \in [Ids -> {"none", "pending", "admin"}],
           \A n \in Ids : sessions'[n] \in {sessions[n], "none"},
           \/ UNCHANGED cookie
           \/ \E id \in 0..used : SetCookie(t, id) /\ (id # NoId => owner[id] = Owner[t])
    PROVE  SignInInv'
BY TabIsTyped, IdleStep DEF Done, SignInInv

\* A step that leaves the sessions alone only drops some of them.
LEMMA SessionsKept ==
    ASSUME SignInInv, sessions' = sessions
    PROVE  /\ sessions' \in [Ids -> {"none", "pending", "admin"}]
           /\ \A n \in Ids : sessions'[n] \in {sessions[n], "none"}
BY DEF SignInInv, TypeOK

\* The redirect sets the cookie to the login it is for.
LEMMA RedirectedKeepsSignInInv ==
    ASSUME SignInInv, NEW t \in Tabs, Redirected(t)
    PROVE  SignInInv'
<1> DEFINE v == [tab[t] EXCEPT !.pc = "authorize", !.id = tab[t].id]
<1>1. tab[t] \in TabType /\ tab \in [Tabs -> TabType] /\ Owner[t] \in Browsers
  BY TabIsTyped DEF SignInInv
<1>2. /\ v \in TabType /\ v.pc = "authorize" /\ v.id = tab[t].id /\ tab' = [tab EXCEPT ![t] = v]
  BY <1>1 DEF Redirected, GoTo, TabType
<1>3. /\ tab[t].pc \in Outbound /\ tab[t].id \in 0..used
      /\ tab[t].id # NoId /\ owner[tab[t].id] = Owner[t] /\ tab[t].id \notin urls
      /\ \A u \in Tabs \ {t} : tab[u].pc \in Outbound => tab[u].id # tab[t].id
  BY <1>1 DEF Redirected, SignInInv, OwnersInv, FreshInv, Outbound, Owned, TabType
<1>4. /\ cookie' \in [Browsers -> 0..used]
      /\ \A b \in Browsers : cookie'[b] # NoId => owner[cookie'[b]] = b
  BY <1>1, <1>3 DEF Redirected, SetCookie, SignInInv, TypeOK, OwnersInv
<1> HIDE DEF v
<1>5. v.pc # "verified" /\ v.pc # "exchange" /\ v.pc # "logout"
  BY <1>2
<1> QED BY <1>2, <1>3, <1>4, <1>5, SessionsKept, QuietStep DEF Redirected

\* A callback URL is opened again.
LEMMA ReopenKeepsSignInInv ==
    ASSUME SignInInv, NEW t \in Tabs, NEW n \in Ids, NEW s, Reopen(t, n, s)
    PROVE  SignInInv'
<1> DEFINE v == [tab[t] EXCEPT !.pc = "returning", !.id = n, !.state = s]
<1>1. tab[t] \in TabType /\ n \in 0..used /\ s \in 0..used
  BY TabIsTyped DEF SignInInv, Reopen, TypeOK
<1>2. v \in TabType /\ v.pc = "returning" /\ tab' = [tab EXCEPT ![t] = v]
  BY <1>1 DEF Reopen, Return, TabType
<1> HIDE DEF v
<1> QED BY <1>2, SessionsKept, IdleStep DEF Reopen

\* The callback takes what the cookie names; with the right state the tab goes on
\* with the verifier of that login, or with none.
LEMMA CallbackKeepsSignInInv ==
    ASSUME SignInInv, NEW t \in Tabs, Callback(t)
    PROVE  SignInInv'
<1>1. /\ tab[t] \in TabType /\ Jar(t) \in 0..used /\ Owner[t] \in Browsers
      /\ UNCHANGED <<used, cookie, codes, owner, urls, redeemed>>
      /\ used \in 0..MaxSessions /\ tab[t].id \in 0..used
  BY TabIsTyped DEF SignInInv, Callback, TypeOK
<1>2. CASE Jar(t) = NoId
  BY <1>1, <1>2, SessionsKept, DoneStep DEF Callback, Consumed
<1>3. CASE Jar(t) # NoId
  <2>1. Jar(t) \in Ids
    BY <1>1, <1>3, AdminSessionAssumption DEF Ids, NoId
  <2>2. /\ sessions' = [sessions EXCEPT ![Jar(t)] = "none"]
        /\ sessions' \in [Ids -> {"none", "pending", "admin"}]
        /\ \A n \in Ids : sessions'[n] \in {sessions[n], "none"}
        /\ sessions'[Jar(t)] = "none"
    BY <1>3, <2>1 DEF Callback, Consume, Consumed, SignInInv, TypeOK
  <2>3. CASE Done(t)
    BY <1>1, <2>2, <2>3, DoneStep
  <2>4. CASE tab' = [tab EXCEPT ![t].pc = "exchange", ![t].verifier = Secret(Jar(t))]
    <3> DEFINE v == [tab[t] EXCEPT !.pc = "exchange", !.verifier = Secret(Jar(t))]
    <3>1. Secret(Jar(t)) \in {Jar(t), NoId} /\ Secret(Jar(t)) \in 0..used
      BY <1>1, TabIsTyped DEF Secret, SignInInv
    <3>2. /\ v \in TabType /\ v.pc = "exchange" /\ v.verifier = Secret(Jar(t))
          /\ tab' = [tab EXCEPT ![t] = v]
      BY <1>1, <2>4, <3>1 DEF TabType
    <3>3. owner[Jar(t)] = Owner[t]
      BY <1>1, <1>3 DEF SignInInv, OwnersInv, Jar
    <3>4. /\ cookie' \in [Browsers -> 0..used]
          /\ \A b \in Browsers : cookie'[b] # NoId => owner[cookie'[b]] = b
      BY <1>1 DEF SignInInv, TypeOK, OwnersInv
    <3> HIDE DEF v
    <3>5. v.pc \notin Outbound /\ v.pc \notin Owned /\ v.pc # "verified" /\ v.pc # "logout"
      BY <3>2 DEF Outbound, Owned
    <3>6. v.verifier # NoId => owner[v.verifier] = Owner[t]
      BY <3>1, <3>2, <3>3
    <3> QED BY <1>1, <2>2, <3>2, <3>4, <3>5, <3>6, QuietStep
  <2> QED BY <1>3, <2>3, <2>4 DEF Callback, Consumed
<1> QED BY <1>2, <1>3

\* The reply of a sign-in sets the cookie to the session it stored.
LEMMA AdmittedKeepsSignInInv ==
    ASSUME SignInInv, NEW t \in Tabs, Admitted(t)
    PROVE  SignInInv'
<1>1. tab[t].id \in 0..used /\ owner[tab[t].id] = Owner[t]
  BY TabIsTyped DEF SignInInv, OwnersInv, Admitted, Owned
<1> QED BY <1>1, SessionsKept, DoneStep DEF Admitted

\* The console is opened: the page is for the session of the cookie.
LEMMA OpenKeepsSignInInv ==
    ASSUME SignInInv, NEW t \in Tabs, Open(t)
    PROVE  SignInInv'
<1> DEFINE v == [tab[t] EXCEPT !.page = Jar(t)]
<1>1. tab[t] \in TabType /\ Jar(t) \in 0..used
  BY TabIsTyped DEF SignInInv
<1>2. v \in TabType /\ v.pc = "ready" /\ tab' = [tab EXCEPT ![t] = v]
  BY <1>1 DEF Open, TabType
<1> HIDE DEF v
<1> QED BY <1>2, SessionsKept, IdleStep DEF Open

\* A logout passes protect with the session of its page and its cookie.
LEMMA LogoutKeepsSignInInv ==
    ASSUME SignInInv, NEW t \in Tabs, Logout(t)
    PROVE  SignInInv'
<1> DEFINE v == [tab[t] EXCEPT !.pc = "logout", !.id = Jar(t)]
<1>1. tab[t] \in TabType /\ Jar(t) \in 0..used /\ Owner[t] \in Browsers
  BY TabIsTyped DEF SignInInv
<1>2. /\ v \in TabType /\ v.pc = "logout" /\ v.id = Jar(t) /\ v.page = tab[t].page
      /\ tab' = [tab EXCEPT ![t] = v]
  BY <1>1 DEF Logout, GoTo, TabType
<1>3. Jar(t) = tab[t].page /\ Jar(t) # NoId /\ owner[Jar(t)] = Owner[t]
  BY <1>1 DEF Logout, Passes, SignedIn, SignInInv, OwnersInv, Jar
<1>4. /\ cookie' \in [Browsers -> 0..used]
      /\ \A b \in Browsers : cookie'[b] # NoId => owner[cookie'[b]] = b
  BY DEF Logout, SignInInv, TypeOK, OwnersInv
<1> HIDE DEF v
<1>5. v.pc \notin Outbound /\ v.pc # "verified" /\ v.pc # "exchange"
  BY <1>2 DEF Outbound
<1> QED BY <1>2, <1>3, <1>4, <1>5, SessionsKept, QuietStep DEF Logout

\* A logout drops at most the session of its id.
LEMMA LogoutDeleteKeepsSignInInv ==
    ASSUME SignInInv, NEW t \in Tabs, LogoutDelete(t)
    PROVE  SignInInv'
<1> DEFINE v == [tab[t] EXCEPT !.pc = "leaving", !.id = NoId]
<1>1. tab[t] \in TabType /\ NoId \in 0..used
  BY TabIsTyped DEF SignInInv
<1>2. v \in TabType /\ v.pc = "leaving" /\ tab' = [tab EXCEPT ![t] = v]
  BY <1>1 DEF LogoutDelete, GoTo, TabType
<1>3. /\ sessions' \in [Ids -> {"none", "pending", "admin"}]
      /\ \A n \in Ids : sessions'[n] \in {sessions[n], "none"}
  BY DEF LogoutDelete, SignInInv, TypeOK
<1> HIDE DEF v
<1> QED BY <1>2, <1>3, IdleStep DEF LogoutDelete

\* The reply of a logout clears the cookie.
LEMMA LoggedOutKeepsSignInInv ==
    ASSUME SignInInv, NEW t \in Tabs, LoggedOut(t)
    PROVE  SignInInv'
<1>1. NewTab \in TabType /\ NewTab.pc = "ready" /\ NoId \in 0..used
  BY TabIsTyped DEF SignInInv
<1> QED BY <1>1, SessionsKept, IdleStep DEF LoggedOut

\* Giving up a sign-in leaves what was stored to expire.
LEMMA AbandonKeepsSignInInv ==
    ASSUME SignInInv, NEW t \in Tabs, Abandon(t)
    PROVE  SignInInv'
BY SessionsKept, DoneStep DEF Abandon

\* What SET under a fresh id does: the id is one above those handed out, nothing is
\* known of it yet, and its owner is the browser of the tab.
LEMMA StoreFacts ==
    ASSUME SignInInv, NEW t \in Tabs, NEW what \in {"pending", "admin"}, Store(t, what)
    PROVE  /\ used + 1 \in Ids /\ used' = used + 1 /\ used \in Nat
           /\ sessions' = [sessions EXCEPT ![used + 1] = what]
           /\ sessions[used + 1] = "none"
           /\ owner' \in [1..used' -> Browsers] /\ owner'[used + 1] = Owner[t]
           /\ \A m \in 1..used : owner'[m] = owner[m]
           /\ TabType \subseteq TabType'
<1>1. /\ used + 1 \in Ids /\ used' = used + 1 /\ used \in Nat
      /\ sessions' = [sessions EXCEPT ![used + 1] = what]
      /\ owner' = [m \in DOMAIN owner \cup {used + 1} |-> IF m = used + 1 THEN Owner[t] ELSE owner[m]]
  BY AdminSessionAssumption DEF Store, SignInInv, TypeOK
<1>2. DOMAIN owner = 1..used /\ 1..(used + 1) = 1..used \cup {used + 1}
      /\ owner \in [1..used -> Browsers]
  BY <1>1 DEF SignInInv, TypeOK
<1>3. Owner[t] \in Browsers
  BY DEF Browsers
<1>4. owner' \in [1..used' -> Browsers] /\ owner'[used + 1] = Owner[t]
      /\ \A m \in 1..used : owner'[m] = owner[m]
  BY <1>1, <1>2, <1>3
<1>5. sessions[used + 1] = "none"
  BY <1>1 DEF SignInInv, TypeOK
<1>6. TabType \subseteq TabType'
  BY <1>1 DEF TabType
<1> QED BY <1>1, <1>4, <1>5, <1>6

\* A login is stored, or a session on a verified login, which is used up by it.
LEMMA StoreStep ==
    ASSUME SignInInv, NEW t \in Tabs, NEW what \in {"pending", "admin"}, Store(t, what),
           NEW pc \in {"redirected", "admitted"}, GoTo(t, pc, used + 1),
           what = "admin" => tab[t].pc = "verified",
           UNCHANGED <<cookie, codes, urls, redeemed>>
    PROVE  SignInInv'
<1> DEFINE n == used + 1
           v == [tab[t] EXCEPT !.pc = pc, !.id = n]
<1>1. /\ n \in Ids /\ used' = n /\ used \in Nat /\ n \in Nat /\ n # NoId
      /\ sessions' = [sessions EXCEPT ![n] = what] /\ sessions[n] = "none"
      /\ owner' \in [1..used' -> Browsers] /\ owner'[n] = Owner[t]
      /\ \A m \in 1..used : owner'[m] = owner[m]
      /\ TabType \subseteq TabType'
  BY StoreFacts DEF NoId
<1>2. /\ tab \in [Tabs -> TabType] /\ tab[t] \in TabType
      /\ \A u \in Tabs : tab[u].id \in 0..used
  BY TabIsTyped DEF SignInInv
<1>3. /\ v \in TabType' /\ v.pc = pc /\ v.id = n
      /\ v.pc # "verified" /\ v.pc # "exchange" /\ v.pc # "logout"
  <2>1. tab[t] \in TabType' /\ n \in 0..used'
    BY <1>1, <1>2
  <2> HIDE DEF n
  <2>2. v \in TabType' /\ v.pc = pc /\ v.id = n
    BY <2>1 DEF TabType
  <2> HIDE DEF v
  <2> QED BY <2>2
<1>4. /\ tab' \in [Tabs -> TabType'] /\ tab'[t] = v
      /\ \A u \in Tabs \ {t} : tab'[u] = tab[u]
  BY <1>1, <1>2, <1>3 DEF GoTo
<1> HIDE DEF v
<1>5. TypeOK'
  <2>1. /\ sessions' \in [Ids -> {"none", "pending", "admin"}] /\ used' \in 0..MaxSessions
        /\ \A m \in Ids : sessions'[m] # "none" => m <= used'
    BY <1>1, AdminSessionAssumption DEF SignInInv, TypeOK, Ids
  <2>2. cookie' \in [Browsers -> 0..used'] /\ codes' \subseteq urls' /\ urls' \subseteq 1..used'
    BY <1>1 DEF SignInInv, TypeOK
  <2> QED BY <1>1, <1>4, <2>1, <2>2 DEF SignInInv, TypeOK, TabType
<1>6. OwnersInv'
  <2>1. \A b \in Browsers : cookie'[b] # NoId => owner'[cookie'[b]] = b
    <3>1. \A b \in Browsers : cookie[b] # NoId => cookie[b] \in 1..used
      BY <1>1 DEF SignInInv, TypeOK, NoId
    <3> QED BY <1>1, <3>1 DEF SignInInv, OwnersInv
  <2>2. \A u \in Tabs : tab'[u].pc \in Owned =>
            tab'[u].id # NoId /\ owner'[tab'[u].id] = Owner[u]
    <3>1. \A u \in Tabs : tab[u].id # NoId => tab[u].id \in 1..used
      BY <1>1, <1>2 DEF NoId
    <3> QED BY <1>1, <1>3, <1>4, <3>1 DEF SignInInv, OwnersInv
  <2>3. \A u \in Tabs : tab'[u].pc = "exchange" /\ tab'[u].verifier # NoId =>
            owner'[tab'[u].verifier] = Owner[u]
    <3>1. \A u \in Tabs : tab[u].verifier # NoId => tab[u].verifier \in 1..used
      BY <1>1, <1>2 DEF NoId, TabType
    <3> QED BY <1>1, <1>3, <1>4, <3>1 DEF SignInInv, OwnersInv
  <2> QED BY <1>3, <1>4, <2>1, <2>2, <2>3 DEF SignInInv, OwnersInv
<1>7. GrantsInv'
  <2>1. \A m \in Ids : redeemed'[m] # <<>> =>
            m \in urls' \ codes' /\ redeemed'[m] = <<owner'[m]>>
    BY <1>1 DEF SignInInv, TypeOK, GrantsInv
  <2> QED BY <1>3, <1>4, <2>1 DEF SignInInv, GrantsInv
<1>8. FreshInv'
  <2>1. n \notin urls /\ \A u \in Tabs : tab[u].id # n
    BY <1>1, <1>2 DEF SignInInv, TypeOK
  <2> QED BY <1>3, <1>4, <2>1 DEF SignInInv, FreshInv
<1>9. CountInv'
  <2>1. Cardinality(codes') = Cardinality(codes) /\ Cardinality(urls') = Cardinality(urls)
    OBVIOUS
  <2>2. /\ Verified \in SUBSET Ids /\ Sessions \in SUBSET Ids
        /\ Cardinality(Sessions) \in Nat /\ Cardinality(Verified) \in Nat
        /\ Cardinality(codes) \in Nat /\ Cardinality(urls) \in Nat
    BY CountedAreIds DEF SignInInv
  <2>3. CASE what = "pending"
    <3>1. Sessions' = Sessions
      BY <1>1, <2>3 DEF Sessions, SignInInv, TypeOK
    <3>2. Verified' \subseteq Verified
      BY <1>3, <1>4 DEF Verified
    <3>3. Cardinality(Verified') <= Cardinality(Verified) /\ Cardinality(Verified') \in Nat
      BY <2>2, <3>2, FewerIds, IdsAreFinite
    <3> QED BY <2>1, <2>2, <3>1, <3>3 DEF SignInInv, CountInv
  <2>4. CASE what = "admin"
    <3> DEFINE m == tab[t].id
    <3>1. Sessions' = Sessions \cup {n} /\ n \notin Sessions
      BY <1>1, <2>4 DEF Sessions, SignInInv, TypeOK
    <3>2. tab[t].pc = "verified" /\ m \in Ids /\ m \in Verified
      <4>1. m \in 0..used /\ m # NoId /\ tab[t].pc = "verified"
        BY <1>2, <2>4 DEF SignInInv, OwnersInv, Owned
      <4>2. m \in Ids
        BY <1>1, <4>1, AdminSessionAssumption DEF Ids, NoId
      <4> QED BY <4>1, <4>2 DEF Verified
    <3>3. Verified' \subseteq Verified \ {m}
      BY <1>3, <1>4, <3>2 DEF Verified, SignInInv, GrantsInv
    <3>4. Cardinality(Verified \ {m}) = Cardinality(Verified) - 1
      BY <2>2, <3>2, OneId
    <3>5. Verified \ {m} \in SUBSET Ids /\ Verified' \in SUBSET (Verified \ {m})
      BY <2>2, <3>3
    <3>6. Cardinality(Verified') <= Cardinality(Verified \ {m}) /\ Cardinality(Verified') \in Nat
      BY <3>5, FewerIds, IdsAreFinite
    <3>7. Cardinality(Sessions') = Cardinality(Sessions) + 1
      BY <1>1, <2>2, <3>1, OneId
    <3> QED BY <2>1, <2>2, <3>4, <3>6, <3>7 DEF SignInInv, CountInv
  <2> QED BY <2>3, <2>4
<1> QED BY <1>5, <1>6, <1>7, <1>8, <1>9 DEF SignInInv

\* The code is issued once: the login had none, and no other tab is at the provider
\* with it.
LEMMA SignInKeepsSignInInv ==
    ASSUME SignInInv, NEW t \in Tabs, SignIn(t)
    PROVE  SignInInv'
<1> DEFINE n == tab[t].id
           v == [tab[t] EXCEPT !.pc = "returning", !.id = n, !.state = n]
<1>1. /\ tab[t] \in TabType /\ tab \in [Tabs -> TabType] /\ TabType' = TabType
      /\ n \in 0..used /\ used \in 0..MaxSessions
  BY TabIsTyped DEF SignInInv, SignIn, TabType
<1>2. /\ v \in TabType /\ v.pc = "returning" /\ tab'[t] = v
      /\ tab' \in [Tabs -> TabType] /\ \A u \in Tabs \ {t} : tab'[u] = tab[u]
  BY <1>1 DEF SignIn, Return, TabType
<1>3. tab[t].pc \in Outbound /\ n # NoId /\ n \notin urls
      /\ \A u \in Tabs \ {t} : tab[u].pc \in Outbound => tab[u].id # n
  BY DEF SignIn, SignInInv, OwnersInv, FreshInv, Outbound, Owned
<1>4. n \in 1..used /\ n \in Ids
  BY <1>1, <1>3, AdminSessionAssumption DEF NoId, Ids
<1>5. codes' = codes \cup {n} /\ urls' = urls \cup {n}
      /\ UNCHANGED <<sessions, used, cookie, owner, redeemed>>
  BY DEF SignIn
<1> HIDE DEF v, n
<1>6. /\ v.pc \notin Owned /\ v.pc \notin Outbound
      /\ v.pc # "verified" /\ v.pc # "exchange" /\ v.pc # "logout"
  BY <1>2 DEF Outbound, Owned
<1>7. TypeOK'
  BY <1>1, <1>2, <1>4, <1>5 DEF SignInInv, TypeOK, TabType
<1>8. OwnersInv'
  BY <1>2, <1>5, <1>6 DEF SignInInv, OwnersInv
<1>9. GrantsInv'
  <2>1. \A m \in Ids : redeemed[m] # <<>> => m # n
    BY <1>3 DEF SignInInv, GrantsInv
  <2> QED BY <1>2, <1>5, <1>6, <2>1 DEF SignInInv, GrantsInv
<1>10. FreshInv'
  BY <1>2, <1>3, <1>5, <1>6 DEF SignInInv, FreshInv
<1>11. CountInv'
  <2>1. Sessions' = Sessions /\ Verified' \subseteq Verified
    BY <1>2, <1>5 DEF Sessions, Verified
  <2>2. /\ codes \in SUBSET Ids /\ urls \in SUBSET Ids /\ Verified \in SUBSET Ids
        /\ Cardinality(Sessions) \in Nat /\ Cardinality(Verified) \in Nat
        /\ Cardinality(codes) \in Nat /\ Cardinality(urls) \in Nat
    BY CountedAreIds DEF SignInInv
  <2>3. Cardinality(urls') = Cardinality(urls) + 1
    BY <1>3, <1>4, <1>5, <2>2, OneId DEF n
  <2>4. Cardinality(codes') <= Cardinality(codes) + 1 /\ Cardinality(codes') \in Nat
    BY <1>4, <1>5, <2>2, OneId, IdsAreFinite
  <2>5. Cardinality(Verified') <= Cardinality(Verified) /\ Cardinality(Verified') \in Nat
    BY <2>1, <2>2, FewerIds, IdsAreFinite
  <2> QED BY <2>1, <2>2, <2>3, <2>4, <2>5 DEF SignInInv, CountInv
<1> QED BY <1>7, <1>8, <1>9, <1>10, <1>11 DEF SignInInv

\* The code goes to the provider with the verifier that callback found: tokens are
\* issued only where both are of one login, which is this browser's, and whose
\* code is still there.
LEMMA ExchangeKeepsSignInInv ==
    ASSUME SignInInv, NEW t \in Tabs, Exchange(t)
    PROVE  SignInInv'
<1> DEFINE n == tab[t].id
           granted == Grants(n, tab[t].verifier)
<1>1. /\ tab[t] \in TabType /\ tab \in [Tabs -> TabType] /\ TabType' = TabType
      /\ n \in 0..used /\ used \in 0..MaxSessions
      /\ UNCHANGED <<sessions, used, cookie, owner, urls>>
      /\ tab[t].pc = "exchange" /\ codes' \in {codes, codes \ {n}}
      /\ redeemed \in [Ids -> Seq(Browsers)] /\ codes \subseteq Ids /\ Owner[t] \in Browsers
  BY TabIsTyped, CountedAreIds DEF SignInInv, Exchange, Redeem, TabType, TypeOK
<1>2. ASSUME granted
      PROVE  n \in codes /\ n \in Ids /\ n # NoId /\ owner[n] = Owner[t] /\ redeemed[n] = <<>>
  <2>1. n \in codes /\ n \in Ids /\ tab[t].verifier = n
    BY <1>1, <1>2 DEF Grants
  <2>2. n # NoId
    BY <2>1 DEF Ids, NoId
  <2>3. owner[n] = Owner[t] /\ redeemed[n] = <<>>
    BY <1>1, <2>1, <2>2 DEF SignInInv, OwnersInv, GrantsInv
  <2> QED BY <2>1, <2>2, <2>3
<1>3. \/ /\ granted /\ codes' = codes \ {n}
         /\ redeemed' = [redeemed EXCEPT ![n] = <<Owner[t]>>]
      \/ redeemed' = redeemed
  <2>1. CASE granted /\ redeemed' = [redeemed EXCEPT ![n] = Append(@, Owner[t])] /\ codes' = codes \ {n}
    <3>1. Append(<<>>, Owner[t]) = <<Owner[t]>>
      OBVIOUS
    <3> QED BY <1>1, <1>2, <2>1, <3>1
  <2> QED BY <2>1 DEF Exchange, Redeem
<1>4. PICK v \in TabType :
          /\ tab' = [tab EXCEPT ![t] = v]
          /\ \/ /\ v.pc = "verified" /\ v.id = n /\ granted
                /\ codes' = codes \ {n} /\ redeemed' = [redeemed EXCEPT ![n] = <<Owner[t]>>]
             \/ v.pc = "ready"
  <2>1. CASE Done(t)
    BY <2>1, TabIsTyped DEF Done, SignInInv
  <2>2. CASE /\ granted /\ GoTo(t, "verified", n) /\ codes' = codes \ {n}
             /\ redeemed' = [redeemed EXCEPT ![n] = Append(@, Owner[t])]
    <3> DEFINE v == [tab[t] EXCEPT !.pc = "verified", !.id = n]
    <3>1. v \in TabType /\ v.pc = "verified" /\ v.id = n
      BY <1>1 DEF TabType
    <3>2. Append(<<>>, Owner[t]) = <<Owner[t]>>
      OBVIOUS
    <3>3. redeemed' = [redeemed EXCEPT ![n] = <<Owner[t]>>]
      BY <1>1, <1>2, <2>2, <3>2
    <3> QED BY <2>2, <3>1, <3>3 DEF GoTo
  <2> QED BY <2>1, <2>2 DEF Exchange, Redeem
<1>5. /\ tab' \in [Tabs -> TabType] /\ tab'[t] = v
      /\ \A u \in Tabs \ {t} : tab'[u] = tab[u]
  BY <1>1, <1>4
<1>6. v.pc \in {"verified", "ready"} /\ v.pc \notin Outbound /\ v.pc # "exchange" /\ v.pc # "logout"
  BY <1>4 DEF Outbound
<1> HIDE DEF n, granted
<1>7. /\ redeemed' \in [Ids -> Seq(Browsers)]
      /\ \A m \in Ids : redeemed'[m] # <<>> =>
            redeemed'[m] = redeemed[m] \/ (m = n /\ granted /\ redeemed'[m] = <<Owner[t]>>
                                           /\ codes' = codes \ {n})
      /\ \A m \in Ids : redeemed[m] # <<>> => redeemed'[m] # <<>>
  <2>1. <<Owner[t]>> \in Seq(Browsers) /\ <<Owner[t]>> # <<>>
    BY <1>1
  <2> QED BY <1>1, <1>3, <2>1
<1>8. TypeOK'
  BY <1>1, <1>5, <1>7 DEF SignInInv, TypeOK, TabType
<1>9. OwnersInv'
  <2>1. v.pc \in Owned => v.id # NoId /\ owner[v.id] = Owner[t]
    BY <1>2, <1>4, <1>6 DEF Owned, Outbound
  <2> QED BY <1>1, <1>5, <1>6, <2>1 DEF SignInInv, OwnersInv
<1>10. GrantsInv'
  <2>1. \A m \in Ids : redeemed'[m] # <<>> =>
            m \in urls' \ codes' /\ redeemed'[m] = <<owner'[m]>>
    <3> SUFFICES ASSUME NEW m \in Ids, redeemed'[m] # <<>>
                 PROVE  m \in urls \ codes' /\ redeemed'[m] = <<owner[m]>>
      BY <1>1
    <3>1. CASE redeemed'[m] = redeemed[m]
      BY <1>1, <3>1 DEF SignInInv, GrantsInv
    <3>2. CASE m = n /\ granted /\ redeemed'[m] = <<Owner[t]>> /\ codes' = codes \ {n}
      BY <1>2, <3>2 DEF SignInInv, TypeOK
    <3> QED BY <1>7, <3>1, <3>2
  <2>2. \A u \in Tabs : tab[u].pc = "verified" => tab[u].id \in Ids
    <3>1. \A u \in Tabs : tab[u].pc = "verified" => tab[u].id # NoId /\ tab[u].id \in 0..used
      BY <1>1 DEF SignInInv, OwnersInv, Owned, TabType
    <3> QED BY <1>1, <3>1, AdminSessionAssumption DEF Ids, NoId
  <2>3. v.pc = "verified" => v.id = n /\ redeemed[n] = <<>> /\ redeemed'[n] # <<>>
    <3>1. <<Owner[t]>> # <<>>
      OBVIOUS
    <3> QED BY <1>1, <1>2, <1>4, <3>1
  <2>4. \A u \in Tabs : tab'[u].pc = "verified" => redeemed'[tab'[u].id] # <<>>
    BY <1>5, <1>7, <2>2, <2>3 DEF SignInInv, GrantsInv
  <2>5. \A u, w \in Tabs : u # w /\ tab'[u].pc = "verified" /\ tab'[w].pc = "verified"
            => tab'[u].id # tab'[w].id
    BY <1>5, <2>3 DEF SignInInv, GrantsInv
  <2> QED BY <2>1, <2>4, <2>5 DEF GrantsInv
<1>11. FreshInv'
  BY <1>1, <1>5, <1>6 DEF SignInInv, FreshInv
<1>12. CountInv'
  <2>1. Sessions' = Sessions /\ urls' = urls
    BY <1>1 DEF Sessions
  <2>2. /\ codes \in SUBSET Ids /\ Verified \in SUBSET Ids
        /\ Cardinality(Sessions) \in Nat /\ Cardinality(Verified) \in Nat
        /\ Cardinality(codes) \in Nat /\ Cardinality(urls) \in Nat
    BY CountedAreIds DEF SignInInv
  <2>3. Cardinality(codes') \in Nat /\ Cardinality(codes') <= Cardinality(codes)
    BY <1>1, <2>2, FewerIds, IdsAreFinite
  <2>4. CASE v.pc = "verified" /\ v.id = n /\ granted /\ codes' = codes \ {n}
    <3>1. Verified' \subseteq Verified \cup {n} /\ Verified \cup {n} \in SUBSET Ids
      BY <1>2, <1>5, <2>2, <2>4 DEF Verified
    <3>2. Cardinality(Verified \cup {n}) <= Cardinality(Verified) + 1
      BY <1>2, <2>2, <2>4, OneId
    <3>3. Cardinality(Verified \cup {n}) \in Nat /\ Cardinality(Verified') \in Nat
          /\ Cardinality(Verified') <= Cardinality(Verified \cup {n})
      BY <3>1, FewerIds, IdsAreFinite
    <3>4. Cardinality(codes') = Cardinality(codes) - 1
      BY <1>2, <2>2, <2>4, OneId
    <3> QED BY <2>1, <2>2, <2>3, <3>2, <3>3, <3>4 DEF SignInInv, CountInv
  <2>5. CASE v.pc = "ready"
    <3>1. Verified' \subseteq Verified
      BY <1>5, <2>5 DEF Verified
    <3>2. Cardinality(Verified') <= Cardinality(Verified) /\ Cardinality(Verified') \in Nat
      BY <2>2, <3>1, FewerIds, IdsAreFinite
    <3> QED BY <2>1, <2>2, <2>3, <3>2 DEF SignInInv, CountInv
  <2> QED BY <1>4, <2>4, <2>5
<1> QED BY <1>8, <1>9, <1>10, <1>11, <1>12 DEF SignInInv

\* An expiry drops one stored login or session.
LEMMA ExpireKeepsSignInInv ==
    ASSUME SignInInv, NEW n \in Ids, Expire(n)
    PROVE  SignInInv'
<1>1. /\ sessions' = [sessions EXCEPT ![n] = "none"]
      /\ UNCHANGED <<used, cookie, codes, tab, owner, urls, redeemed>>
  BY DEF Expire
<1>2. \A m \in Ids : sessions'[m] \in {sessions[m], "none"}
  BY <1>1 DEF SignInInv, TypeOK
<1>3. TypeOK'
  BY <1>1, <1>2 DEF SignInInv, TypeOK
<1>4. OwnersInv' /\ FreshInv'
  BY <1>1 DEF SignInInv, OwnersInv, FreshInv
<1>5. GrantsInv'
  BY <1>1 DEF SignInInv, GrantsInv
<1>6. CountInv'
  <2>1. Sessions' \in SUBSET Sessions /\ Verified' = Verified
    BY <1>1, <1>2 DEF Sessions, Verified
  <2>2. /\ Sessions \in SUBSET Ids
        /\ Cardinality(Sessions) \in Nat /\ Cardinality(Verified) \in Nat
        /\ Cardinality(codes) \in Nat /\ Cardinality(urls) \in Nat
    BY CountedAreIds DEF SignInInv
  <2>3. Cardinality(Sessions') <= Cardinality(Sessions) /\ Cardinality(Sessions') \in Nat
    BY <2>1, <2>2, FewerIds, IdsAreFinite
  <2> QED BY <1>1, <2>1, <2>2, <2>3 DEF SignInInv, CountInv
<1> QED BY <1>3, <1>4, <1>5, <1>6 DEF SignInInv

\* A login is stored; a verified sign-in is admitted, or fails and is lost.
LEMMA LoginAndAdmitKeepSignInInv ==
    ASSUME SignInInv, NEW t \in Tabs, Login(t) \/ Admit(t)
    PROVE  SignInInv'
<1>1. CASE Login(t)
  BY <1>1, StoreStep DEF Login
<1>2. CASE Admit(t) /\ Store(t, "admin") /\ GoTo(t, "admitted", used + 1)
  BY <1>2, StoreStep DEF Admit
<1>3. CASE Admit(t) /\ Done(t) /\ UNCHANGED <<sessions, used, owner>>
  BY <1>3, SessionsKept, DoneStep DEF Admit
<1> QED BY <1>1, <1>2, <1>3 DEF Admit

-------------------------------------------------------------------------------
(* The results.                                                            *)

\* The inductive invariant holds in every state of every run.
THEOREM SignInInvHolds == Spec => []SignInInv
<1>1. Init => SignInInv
  <2> SUFFICES ASSUME Init PROVE SignInInv
    OBVIOUS
  <2>1. /\ used = 0 /\ 1..used = {} /\ 0 \in 0..used /\ used \in 0..MaxSessions
        /\ sessions = [n \in Ids |-> "none"] /\ redeemed = [n \in Ids |-> <<>>]
        /\ codes = {} /\ urls = {} /\ \A b \in Browsers : cookie[b] = NoId
    BY AdminSessionAssumption DEF Init
  <2>2. NewTab \in TabType /\ NewTab.pc = "ready"
    BY <2>1 DEF NewTab, TabType, NoId
  <2>3. tab \in [Tabs -> TabType] /\ \A t \in Tabs : tab[t].pc = "ready"
    BY <2>2 DEF Init
  <2>4. owner \in [1..used -> Browsers] /\ cookie \in [Browsers -> 0..used]
    BY <2>1 DEF Init, NoId
  <2>5. TypeOK
    BY <2>1, <2>3, <2>4 DEF TypeOK, TabType
  <2>6. OwnersInv /\ GrantsInv /\ FreshInv
    BY <2>1, <2>3 DEF OwnersInv, GrantsInv, FreshInv, Outbound, Owned
  <2>7. Sessions = {} /\ Verified = {}
    BY <2>1, <2>3 DEF Sessions, Verified
  <2>8. CountInv
    BY <2>1, <2>7, FS_EmptySet DEF CountInv
  <2> QED BY <2>5, <2>6, <2>8 DEF SignInInv
<1>2. SignInInv /\ [Next]_vars => SignInInv'
  <2> SUFFICES ASSUME SignInInv, [Next]_vars PROVE SignInInv'
    OBVIOUS
  <2>1. ASSUME NEW t \in Tabs,
               \/ Login(t) \/ Redirected(t) \/ SignIn(t)
               \/ \E n \in Ids, s \in {NoId} \cup Ids : Reopen(t, n, s)
               \/ Callback(t) \/ Exchange(t) \/ Admit(t) \/ Admitted(t)
        PROVE  SignInInv'
    BY <2>1, LoginAndAdmitKeepSignInInv, RedirectedKeepsSignInInv, SignInKeepsSignInInv,
       ReopenKeepsSignInInv, CallbackKeepsSignInInv, ExchangeKeepsSignInInv,
       AdmittedKeepsSignInInv
  <2>2. ASSUME NEW t \in Tabs,
               Open(t) \/ Logout(t) \/ LogoutDelete(t) \/ LoggedOut(t) \/ Abandon(t)
        PROVE  SignInInv'
    BY <2>2, OpenKeepsSignInInv, LogoutKeepsSignInInv, LogoutDeleteKeepsSignInInv,
       LoggedOutKeepsSignInInv, AbandonKeepsSignInInv
  <2>3. ASSUME NEW n \in Ids, Expire(n) PROVE SignInInv'
    BY <2>3, ExpireKeepsSignInInv
  <2>4. CASE UNCHANGED vars
    BY <2>4 DEF vars, SignInInv, TypeOK, OwnersInv, GrantsInv, FreshInv, CountInv, Sessions,
                Verified
  <2> QED BY <2>1, <2>2, <2>3, <2>4 DEF Next
<1> QED BY <1>1, <1>2, PTL DEF Spec

\* ExchangesAreBound: whatever callback URLs are opened where, with or without a state,
\* tokens for a login are issued at most once, to the browser that began it, and
\* the session made of them is that browser's.
THEOREM CodesAreBound == Spec => []ExchangesAreBound
<1>1. SignInInv => ExchangesAreBound
  <2> SUFFICES ASSUME SignInInv PROVE ExchangesAreBound
    OBVIOUS
  <2>1. \A n \in Ids : redeemed[n] # <<>> => n \in DOMAIN owner /\ redeemed[n] = <<owner[n]>>
    BY DEF SignInInv, GrantsInv, TypeOK
  <2>2. \A t \in Tabs : tab[t].pc \in {"verified", "admitted"} => owner[tab[t].id] = Owner[t]
    BY DEF SignInInv, OwnersInv, Owned
  <2> QED BY <2>1, <2>2 DEF ExchangesAreBound, SignInInv
<1> QED BY <1>1, SignInInvHolds, PTL

\* OneSessionPerSignIn: there are never more sessions than sign-ins at the provider.
THEOREM SessionsNeedSignIns == Spec => []OneSessionPerSignIn
<1>1. SignInInv => OneSessionPerSignIn
  BY CountedAreIds DEF SignInInv, CountInv, OneSessionPerSignIn
<1> QED BY <1>1, SignInInvHolds, PTL

\* What a step of one tab does to sessions and to the other tabs.
LEMMA OneTabMoves ==
    ASSUME SignInInv, NEW t \in Tabs,
           \/ Login(t) \/ Redirected(t) \/ SignIn(t)
           \/ \E n \in Ids, s \in {NoId} \cup Ids : Reopen(t, n, s)
           \/ Callback(t) \/ Exchange(t) \/ Admit(t) \/ Admitted(t)
           \/ Open(t) \/ Logout(t) \/ LogoutDelete(t) \/ LoggedOut(t) \/ Abandon(t)
    PROVE  /\ \A u \in Tabs \ {t} : tab'[u] = tab[u]
           /\ \/ sessions' = sessions
              \/ Callback(t) \/ LogoutDelete(t)
              \/ Store(t, "pending") \/ Store(t, "admin")
           /\ tab[t].pc = "logout" => LogoutDelete(t)
<1>1. tab \in [Tabs -> TabType]
  BY DEF SignInInv, TypeOK, TabType
<1>2. \A u \in Tabs \ {t} : tab'[u] = tab[u]
  BY <1>1 DEF Login, Redirected, SignIn, Reopen, Callback, Exchange, Admit, Admitted, Open,
     Logout, LogoutDelete, LoggedOut, Abandon, GoTo, Return, Done
<1>3. \/ sessions' = sessions
      \/ Callback(t) \/ LogoutDelete(t)
      \/ Store(t, "pending") \/ Store(t, "admin")
  BY DEF Login, Redirected, SignIn, Reopen, Exchange, Admit, Admitted, Open, Logout,
     LoggedOut, Abandon
<1>4. tab[t].pc = "logout" => LogoutDelete(t)
  BY DEF Login, Redirected, SignIn, Reopen, Callback, Exchange, Admit, Admitted, Open,
     Logout, LoggedOut, Abandon
<1> QED BY <1>2, <1>3, <1>4

\* BrowsersDoNotInterfere: what is stored for one browser ends by its expiry or by that
\* browser's own callback or logout.
THEOREM OnlyOwnersEndSessions == Spec => BrowsersDoNotInterfere
<1> DEFINE ByOwner(n) == \E t \in Tabs : /\ Owner[t] = owner[n]
                                         /\ tab[t].pc \in {"returning", "logout"}
                                         /\ tab'[t].pc # tab[t].pc
<1>1. ASSUME SignInInv, [Next]_vars, NEW n \in DOMAIN owner,
             sessions[n] # "none", sessions'[n] = "none", tab' # tab
      PROVE  ByOwner(n)
  <2>1. /\ n \in Ids /\ n \in 1..used /\ sessions \in [Ids -> {"none", "pending", "admin"}]
        /\ tab \in [Tabs -> TabType] /\ used \in Nat
    BY <1>1, AdminSessionAssumption DEF SignInInv, TypeOK, Ids, TabType
  <2>2. PICK t \in Tabs :
            \/ Login(t) \/ Redirected(t) \/ SignIn(t)
            \/ \E m \in Ids, s \in {NoId} \cup Ids : Reopen(t, m, s)
            \/ Callback(t) \/ Exchange(t) \/ Admit(t) \/ Admitted(t)
            \/ Open(t) \/ Logout(t) \/ LogoutDelete(t) \/ LoggedOut(t) \/ Abandon(t)
    BY <1>1 DEF Next, vars, Expire
  <2>3. CASE sessions' = sessions
    BY <1>1, <2>3
  <2>4. CASE Store(t, "pending") \/ Store(t, "admin")
    <3>1. PICK what \in {"pending", "admin"} : Store(t, what)
      BY <2>4
    <3>2. sessions' = [sessions EXCEPT ![used + 1] = what]
      BY <1>1, <3>1, StoreFacts
    <3>3. n # used + 1
      BY <2>1
    <3> QED BY <1>1, <2>1, <3>2, <3>3
  <2>5. CASE Callback(t)
    <3>1. Jar(t) # NoId /\ sessions' = [sessions EXCEPT ![Jar(t)] = "none"]
      BY <1>1, <2>5 DEF Callback, Consumed, Consume
    <3>2. n = Jar(t)
      BY <1>1, <2>1, <3>1
    <3>3. Owner[t] \in Browsers
      BY DEF Browsers
    <3>4. owner[n] = Owner[t]
      BY <1>1, <3>1, <3>2, <3>3 DEF SignInInv, OwnersInv, Jar
    <3>5. tab[t].pc = "returning" /\ tab'[t].pc # "returning"
      <4>1. CASE Done(t)
        BY <1>1, <2>1, <2>5, <4>1, TabIsTyped DEF Done, Callback, SignInInv
      <4>2. CASE tab' = [tab EXCEPT ![t].pc = "exchange", ![t].verifier = Secret(Jar(t))]
        BY <2>1, <2>5, <4>2 DEF Callback, TabType
      <4> QED BY <2>5, <4>1, <4>2 DEF Callback, Consumed
    <3> QED BY <3>4, <3>5
  <2>6. CASE LogoutDelete(t)
    <3>1. sessions' = [sessions EXCEPT ![tab[t].id] = "none"] /\ tab[t].pc = "logout"
      BY <1>1, <2>6 DEF LogoutDelete
    <3>2. n = tab[t].id
      BY <1>1, <2>1, <3>1
    <3>3. owner[n] = Owner[t]
      BY <1>1, <3>1, <3>2 DEF SignInInv, OwnersInv, Owned
    <3>4. tab'[t].pc = "leaving"
      BY <2>1, <2>6 DEF LogoutDelete, GoTo, TabType
    <3> QED BY <3>1, <3>3, <3>4
  <2> QED BY <1>1, <2>2, <2>3, <2>4, <2>5, <2>6, OneTabMoves
<1>2. ASSUME SignInInv, [Next]_vars
      PROVE  [\A n \in DOMAIN owner : sessions[n] # "none" /\ sessions'[n] = "none" =>
                 \/ tab' = tab
                 \/ \E t \in Tabs : /\ Owner[t] = owner[n]
                                    /\ tab[t].pc \in {"returning", "logout"}
                                    /\ tab'[t].pc # tab[t].pc]_vars
  BY <1>1, <1>2
<1> QED BY <1>2, SignInInvHolds, PTL DEF Spec, BrowsersDoNotInterfere

\* LogoutsActOnTheirPage: a logout ends no session but the one its page was rendered
\* for, although other tabs may have replaced the cookie meanwhile.
THEOREM LogoutsAreOfTheirPage == Spec => LogoutsActOnTheirPage
<1>1. ASSUME SignInInv, [Next]_vars, NEW t \in Tabs, tab[t].pc = "logout",
             tab'[t].pc = "leaving", NEW n \in Ids, sessions'[n] # sessions[n]
      PROVE  n = tab[t].page
  <2>1. /\ sessions \in [Ids -> {"none", "pending", "admin"}]
        /\ tab[t].id = tab[t].page
    BY <1>1 DEF SignInInv, TypeOK, OwnersInv
  <2>2. tab' # tab
    BY <1>1
  <2>3. PICK u \in Tabs :
            \/ Login(u) \/ Redirected(u) \/ SignIn(u)
            \/ \E m \in Ids, s \in {NoId} \cup Ids : Reopen(u, m, s)
            \/ Callback(u) \/ Exchange(u) \/ Admit(u) \/ Admitted(u)
            \/ Open(u) \/ Logout(u) \/ LogoutDelete(u) \/ LoggedOut(u) \/ Abandon(u)
    BY <1>1, <2>2 DEF Next, vars, Expire
  <2>4. u = t
    BY <1>1, <2>3, OneTabMoves
  <2>5. LogoutDelete(t)
    BY <1>1, <2>3, <2>4, OneTabMoves
  <2>6. sessions' = [sessions EXCEPT ![tab[t].id] = "none"]
    BY <1>1, <2>5 DEF LogoutDelete
  <2> QED BY <1>1, <2>1, <2>6
<1>2. ASSUME SignInInv, [Next]_vars
      PROVE  [\A t \in Tabs : tab[t].pc = "logout" /\ tab'[t].pc = "leaving" =>
                 \A n \in Ids : sessions'[n] # sessions[n] => n = tab[t].page]_vars
  BY <1>1, <1>2
<1> QED BY <1>2, SignInInvHolds, PTL DEF Spec, LogoutsActOnTheirPage
===============================================================================
