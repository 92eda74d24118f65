------------------------- MODULE AuthenticationProofs -------------------------
(***************************************************************************)
(* Waits for the key set are bounded, verdicts on tokens are recent, the   *)
(* provider is asked no more often than needed and revoked API keys stay   *)
(* out, for any number of requests, keys and rotations.                    *)
(***************************************************************************)
EXTENDS Authentication, Integers, FiniteSetTheorems, TLAPS

-------------------------------------------------------------------------------
(* The inductive invariant.                                                *)

Busy == {"waiting", "fetching", "fetched"}

RequestType == [pc : {"new", "waiting", "fetching", "fetched", "lookup"} \cup Decided,
                start : 0..now, set : 0..Published, told : BOOLEAN, overtaken : Nat]

\* Keys were published one after the other.
ProviderInv ==
    /\ Published \in Nat
    /\ \A m, n \in DOMAIN since : m <= n => since[m] <= since[n]

\* Until when a request that is in this state may have to wait.
Allowed(q) == q.start + (1 + q.overtaken) * Timeout

\* Nobody has waited longer, and the deadline of the request that holds
\* jwtRefreshMu is no later than that of anyone behind it; an answer from the
\* provider came before the deadline.
QueueInv ==
    /\ \A r \in Requests : req[r].pc \in Busy => now <= Allowed(req[r])
    /\ \A r \in Requests : req[r].pc = "fetched" => now <= req[r].start + Timeout
    /\ \A h, w \in Requests : mutex = h /\ req[w].pc = "waiting" =>
          req[h].start + Timeout <= Allowed(req[w])

\* Key n was published at time t or later.
PublishedSince(n, t) == n + 1 \in DOMAIN since => since[n + 1] >= t

\* The set is refreshed only while it is stale.  The cached one was published a
\* timeout before it was stored, or later; a fetched one during the fetch.
SetsInv ==
    /\ mutex # Nobody => Stale(jwks)
    /\ PublishedSince(jwks.key, jwks.at - Timeout)
    /\ \A r \in Requests : req[r].pc = "fetched" => PublishedSince(req[r].set, req[r].start)

\* Requests with a token come to the key set, requests with a key to the record.
UsesInv ==
    \A r \in Requests : /\ req[r].pc \in Busy => r \notin KeyUses /\ Signer[r] \in DOMAIN since
                        /\ req[r].pc = "lookup" => r \in KeyUses

\* A confirmed revocation is in the record, and so it stays.
RecordInv ==
    /\ acked => apikey = "revoked"
    /\ admin = "revoking" => apikey # "absent"
    /\ \A r \in Requests : req[r].told => apikey = "revoked"

AuthInv == /\ TypeOK /\ ProviderInv /\ QueueInv /\ SetsInv /\ UsesInv /\ RecordInv
           /\ RevokedKeysRefused

-------------------------------------------------------------------------------
(* The steps of requests.                                                  *)

\* A request may wait for its timeout at least, and each fetch that overtakes it
\* adds one.
LEMMA AllowedGrows ==
    ASSUME TypeOK, NEW q \in RequestType
    PROVE  /\ q.start \in Nat /\ now \in Nat /\ Timeout \in Nat
           /\ Allowed(q) \in Nat /\ q.start + Timeout <= Allowed(q)
           /\ Allowed([q EXCEPT !.overtaken = @ + 1]) = Allowed(q) + Timeout
           /\ [q EXCEPT !.overtaken = @ + 1] \in RequestType
<1>1. Timeout \in Nat /\ now \in Nat /\ q.start \in Nat /\ q.overtaken \in Nat
  BY AuthenticationAssumption DEF TypeOK, RequestType
<1>2. \A n, T \in Nat : n * T \in Nat /\ (1 + n) * T = T + n * T
  OBVIOUS
<1> DEFINE n == q.overtaken
<1>3. n \in Nat /\ 1 + n \in Nat
  BY <1>1
<1> HIDE DEF n
<1>4. n * Timeout \in Nat /\ (1 + n) * Timeout = Timeout + n * Timeout
      /\ (1 + (1 + n)) * Timeout = Timeout + (1 + n) * Timeout
  BY <1>1, <1>2, <1>3
<1>5. [q EXCEPT !.overtaken = @ + 1] \in RequestType
      /\ [q EXCEPT !.overtaken = @ + 1].start = q.start
      /\ [q EXCEPT !.overtaken = @ + 1].overtaken = 1 + n
  BY <1>1 DEF RequestType, n
<1>6. Allowed(q) = q.start + (1 + n) * Timeout
  BY DEF Allowed, n
<1>7. Allowed([q EXCEPT !.overtaken = @ + 1]) = q.start + (1 + (1 + n)) * Timeout
  BY <1>5 DEF Allowed
<1> QED BY <1>1, <1>4, <1>5, <1>6, <1>7

\* What a step of one request has to respect to keep the invariant: the mutex is
\* left by the request itself, held only for a stale set, and what is stored or
\* answered comes from where it should.
LEMMA RequestStep ==
    ASSUME AuthInv, NEW r \in Requests, NEW v \in RequestType,
           req' = [req EXCEPT ![r] = v], UNCHANGED <<now, since, keyVars>>,
           mutex' \in Requests \cup {Nobody},
           mutex' = r <=> v.pc \in {"fetching", "fetched"},
           \A s \in Requests \ {r} : mutex' = s <=> mutex = s,
           jwks' \in [key : 0..Published, at : 0..now],
           mutex' # Nobody => Stale(jwks)',
           PublishedSince(jwks.key, jwks.at - Timeout)',
           v.pc \in Busy => /\ now <= Allowed(v)
                            /\ r \notin KeyUses /\ Signer[r] \in DOMAIN since,
           v.pc = "waiting" => v.start = now,
           v.pc = "fetched" => PublishedSince(v.set, v.start) /\ now <= v.start + Timeout,
           mutex' = r => \A w \in Waiting \ {r} : v.start + Timeout <= Allowed(req[w]),
           v.pc = "lookup" => r \in KeyUses,
           v.told => apikey = "revoked",
           r \in KeyUses /\ v.pc = "accepted" => ~v.told /\ apikey # "absent"
    PROVE  AuthInv'
<1>1. /\ req \in [Requests -> RequestType] /\ RequestType' = RequestType
      /\ Published' = Published
  BY DEF AuthInv, TypeOK, RequestType, Published
<1>2. req' \in [Requests -> RequestType] /\ req'[r] = v
      /\ \A s \in Requests \ {r} : req'[s] = req[s]
  BY <1>1
<1>3. TypeOK'
  <2>1. \A s \in Requests : mutex' = s <=> req'[s].pc \in {"fetching", "fetched"}
    BY <1>2 DEF AuthInv, TypeOK
  <2>2. /\ DOMAIN since' = 1..Published' /\ \A n \in DOMAIN since' : since'[n] \in 0..now'
        /\ now' \in 0..MaxTime /\ apikey' \in {"absent", "live", "revoked"}
        /\ admin' \in {"idle", "revoking"} /\ acked' \in BOOLEAN
    BY <1>1 DEF AuthInv, TypeOK, keyVars
  <2>3. jwks' \in [key : 0..Published', at : 0..now']
    BY <1>1
  <2>4. req' \in [Requests -> RequestType']
    BY <1>1, <1>2
  <2> QED BY <2>1, <2>2, <2>3, <2>4 DEF TypeOK, RequestType
<1>4. ProviderInv'
  BY <1>1 DEF AuthInv, ProviderInv
<1>5. QueueInv'
  <2>0. \A s \in Requests \ {r} : Allowed(req'[s]) = Allowed(req[s])
    BY <1>2
  <2>1. \A s \in Requests : req'[s].pc \in Busy => now' <= Allowed(req'[s])
    BY <1>2, <2>0 DEF AuthInv, QueueInv
  <2>2. ASSUME NEW h \in Requests, NEW w \in Requests, mutex' = h, req'[w].pc = "waiting"
        PROVE  req'[h].start + Timeout <= Allowed(req'[w])
    <3>1. CASE h = r
      <4>1. w # r /\ w \in Waiting
        BY <1>2, <2>2, <3>1 DEF Waiting
      <4> QED BY <1>2, <2>0, <2>2, <3>1, <4>1
    <3>2. CASE h # r /\ w = r
      <4>1. req[h] \in RequestType /\ req'[h] = req[h] /\ req'[w] = v /\ v.start = now
        BY <1>1, <1>2, <2>2, <3>2
      <4>2. req[h].start \in 0..now /\ now \in Nat /\ Timeout \in Nat
        BY <4>1, AuthenticationAssumption DEF RequestType, AuthInv, TypeOK
      <4>3. v.start + Timeout <= Allowed(v) /\ Allowed(v) \in Nat
        BY AllowedGrows DEF AuthInv
      <4> HIDE DEF Allowed
      <4> QED BY <4>1, <4>2, <4>3
    <3>3. CASE h # r /\ w # r
      BY <1>2, <2>0, <2>2, <3>3 DEF AuthInv, QueueInv
    <3> QED BY <3>1, <3>2, <3>3
  <2>3. \A s \in Requests : req'[s].pc = "fetched" => now' <= req'[s].start + Timeout
    BY <1>2 DEF AuthInv, QueueInv
  <2> QED BY <2>1, <2>2, <2>3 DEF QueueInv
<1>6. SetsInv'
  BY <1>2 DEF AuthInv, SetsInv, PublishedSince
<1>7. UsesInv'
  BY <1>2 DEF AuthInv, UsesInv
<1>8. RecordInv' /\ RevokedKeysRefused'
  BY <1>2, AuthenticationAssumption DEF AuthInv, RecordInv, RevokedKeysRefused, keyVars
<1> QED BY <1>3, <1>4, <1>5, <1>6, <1>7, <1>8 DEF AuthInv

\* What the type invariant says of one request.
LEMMA RequestIsTyped ==
    ASSUME TypeOK, NEW r \in Requests
    PROVE  /\ req[r] \in RequestType
           /\ req[r].start \in 0..now /\ req[r].set \in 0..Published
           /\ now \in Nat /\ 0 \in 0..now
           /\ Timeout \in Nat /\ MaxAge \in Nat
<1>1. Timeout \in Nat /\ MaxAge \in Nat /\ MaxTime \in Nat
  BY AuthenticationAssumption
<1>2. now \in Nat /\ 0 \in 0..now
  BY <1>1 DEF TypeOK
<1>3. req[r] \in RequestType
  BY DEF TypeOK, RequestType
<1> QED BY <1>1, <1>2, <1>3 DEF RequestType

\* A verdict of accepted or refused is a decision.
LEMMA VerdictIsDecided ==
    \A r, key : Verdict(r, key) \in Decided /\ Verdict(r, key) # "unavailable"
BY DEF Verdict, Decided

\* Answering a request that does not hold the mutex keeps the invariant.
LEMMA AnswerKeepsAuthInv ==
    ASSUME AuthInv, NEW r \in Requests, NEW verdict \in Decided, Answer(r, verdict),
           UNCHANGED <<now, since, keyVars>>,
           \/ mutex = r /\ mutex' = Nobody
           \/ mutex # r /\ mutex' = mutex,
           jwks' \in [key : 0..Published, at : 0..now],
           mutex' # Nobody => jwks' = jwks,
           PublishedSince(jwks.key, jwks.at - Timeout)',
           r \in KeyUses /\ verdict = "accepted" => ~req[r].told /\ apikey # "absent"
    PROVE  AuthInv'
<1> DEFINE v == [req[r] EXCEPT !.pc = verdict, !.start = 0, !.set = 0, !.overtaken = 0]
<1>1. req[r] \in RequestType /\ 0 \in 0..now /\ 0 \in 0..Published
  BY RequestIsTyped DEF AuthInv, ProviderInv
<1>2. v \in RequestType /\ v.pc = verdict /\ v.told = req[r].told
  BY <1>1 DEF RequestType, Decided
<1>3. req' = [req EXCEPT ![r] = v]
  BY DEF Answer
<1>4. v.pc \notin Busy /\ v.pc # "lookup" /\ v.pc \in Decided
  BY <1>2 DEF Busy, Decided
<1>5. req[r].told => apikey = "revoked"
  BY DEF AuthInv, RecordInv
<1>6. /\ mutex' \in Requests \cup {Nobody} /\ mutex' # r
      /\ \A s \in Requests \ {r} : mutex' = s <=> mutex = s
  BY AuthenticationAssumption DEF AuthInv, TypeOK, Nobody
<1>7. mutex' # Nobody => Stale(jwks)'
  <2>1. CASE mutex' = Nobody
    BY <2>1
  <2>2. CASE mutex' # Nobody
    BY <2>2 DEF AuthInv, SetsInv, Stale, NoSet
  <2> QED BY <2>1, <2>2
<1> HIDE DEF v
<1>8. v.pc \notin {"waiting", "fetching", "fetched"}
  BY <1>4 DEF Busy
<1> QED BY <1>2, <1>3, <1>4, <1>5, <1>6, <1>7, <1>8, RequestStep

\* A token arrives: the answer, or a place in the queue for the mutex.
LEMMA ArriveKeepsAuthInv ==
    ASSUME AuthInv, NEW r \in Requests, Arrive(r)
    PROVE  AuthInv'
<1>1. /\ r \notin KeyUses /\ Signer[r] \in DOMAIN since /\ req[r].pc = "new"
      /\ UNCHANGED <<now, since, keyVars>> /\ jwks' = jwks /\ mutex' = mutex
  BY DEF Arrive, tokenVars
<1>2. req[r] \in RequestType /\ now \in Nat /\ now \in 0..now /\ Timeout \in Nat
  BY RequestIsTyped DEF AuthInv
<1>3. PICK v : /\ req' = [req EXCEPT ![r] = v]
               /\ v = IF Stale(jwks) THEN [req[r] EXCEPT !.pc = "waiting", !.start = now]
                                     ELSE [req[r] EXCEPT !.pc = Verdict(r, jwks.key)]
  BY DEF Arrive
<1>4. v \in RequestType /\ v.told = req[r].told /\ v.pc \in {"waiting"} \cup Decided
      /\ (v.pc = "waiting" => v.start = now)
  <2>1. CASE Stale(jwks)
    BY <1>2, <1>3, <2>1 DEF RequestType
  <2>2. CASE ~Stale(jwks)
    BY <1>2, <1>3, <2>2, VerdictIsDecided DEF RequestType, Decided
  <2> QED BY <2>1, <2>2
<1>5. v.pc \notin {"fetching", "fetched", "lookup"}
  BY <1>4 DEF Decided
<1>6. mutex # r /\ mutex \in Requests \cup {Nobody}
  BY <1>1 DEF AuthInv, TypeOK
<1>7. /\ mutex' # Nobody => Stale(jwks)'
      /\ PublishedSince(jwks.key, jwks.at - Timeout)'
  BY <1>1 DEF AuthInv, SetsInv, Stale, PublishedSince
<1>8. jwks' \in [key : 0..Published, at : 0..now]
  BY <1>1 DEF AuthInv, TypeOK
<1>9. v.told => apikey = "revoked"
  BY <1>4 DEF AuthInv, RecordInv
<1>10. v.pc \in Busy => now <= Allowed(v)
  <2>1. v.start + Timeout <= Allowed(v) /\ Allowed(v) \in Nat
    BY <1>4, AllowedGrows DEF AuthInv
  <2> QED BY <1>2, <1>4, <1>5, <2>1 DEF Busy
<1> QED BY <1>1, <1>3, <1>4, <1>5, <1>6, <1>7, <1>8, <1>9, <1>10, RequestStep

\* A request with the API key arrives and remembers what the administrator knows.
LEMMA ArriveKeyKeepsAuthInv ==
    ASSUME AuthInv, NEW r \in Requests, ArriveKey(r)
    PROVE  AuthInv'
<1> DEFINE v == [req[r] EXCEPT !.pc = "lookup", !.told = acked]
<1>1. /\ r \in KeyUses /\ req[r].pc = "new"
      /\ UNCHANGED <<now, since, keyVars>> /\ jwks' = jwks /\ mutex' = mutex
      /\ req' = [req EXCEPT ![r] = v]
  BY DEF ArriveKey, tokenVars
<1>2. req[r] \in RequestType /\ acked \in BOOLEAN
  BY RequestIsTyped DEF AuthInv, TypeOK
<1>3. v \in RequestType /\ v.told = acked /\ v.pc = "lookup"
  BY <1>2 DEF RequestType
<1>4. mutex # r /\ mutex \in Requests \cup {Nobody}
  BY <1>1 DEF AuthInv, TypeOK
<1>5. /\ mutex' # Nobody => Stale(jwks)'
      /\ PublishedSince(jwks.key, jwks.at - Timeout)'
  BY <1>1 DEF AuthInv, SetsInv, Stale, PublishedSince
<1>6. jwks' \in [key : 0..Published, at : 0..now] /\ (acked => apikey = "revoked")
  BY <1>1 DEF AuthInv, TypeOK, RecordInv
<1> HIDE DEF v
<1>7. v.pc \notin Busy /\ v.pc # "accepted"
  BY <1>3 DEF Busy
<1> QED BY <1>1, <1>3, <1>4, <1>5, <1>6, <1>7, RequestStep

\* A request takes the free mutex and fetches; those that wait were overtaken, and
\* its deadline is a timeout from now at the latest.
LEMMA BeginFetchKeepsAuthInv ==
    ASSUME AuthInv, NEW r \in Requests, MayLock(r), BeginFetch(r), Stale(jwks),
           UNCHANGED <<now, since, jwks, keyVars>>
    PROVE  AuthInv'
<1>1. /\ mutex = Nobody /\ req[r].pc = "waiting" /\ mutex' = r /\ r # Nobody
      /\ Published' = Published /\ UNCHANGED <<now, since, jwks, apikey, admin, acked>>
  BY AuthenticationAssumption DEF MayLock, BeginFetch, Nobody, keyVars, Published
<1>2. req \in [Requests -> RequestType] /\ RequestType' = RequestType
  BY <1>1 DEF AuthInv, TypeOK, RequestType
<1>3. req'[r] = [req[r] EXCEPT !.pc = "fetching"] /\ req'[r] \in RequestType
      /\ req'[r].pc = "fetching" /\ req'[r].start = req[r].start
      /\ Allowed(req'[r]) = Allowed(req[r])
  BY <1>2 DEF BeginFetch, RequestType, Allowed
<1>4. \A w \in Waiting \ {r} :
         /\ req'[w] = [req[w] EXCEPT !.overtaken = @ + 1] /\ req'[w] \in RequestType
         /\ Allowed(req'[w]) = Allowed(req[w]) + Timeout
  BY <1>2, AllowedGrows DEF BeginFetch, AuthInv, Waiting
<1>5. \A s \in Requests \ {r} : s \notin Waiting => req'[s] = req[s]
  BY DEF BeginFetch
<1>6. \A s \in Requests \ {r} : /\ req'[s].pc = req[s].pc /\ req'[s].start = req[s].start
                                 /\ req'[s].set = req[s].set
  BY <1>2, <1>4, <1>5 DEF RequestType
<1>7. \A s \in Requests : req'[s].told = req[s].told
  <2>1. req'[r].told = req[r].told
    BY <1>2, <1>3 DEF RequestType
  <2>2. \A w \in Waiting \ {r} : req'[w].told = req[w].told
    BY <1>2, <1>4 DEF RequestType, Waiting
  <2> QED BY <1>5, <2>1, <2>2
<1>8. TypeOK'
  <2>1. req' \in [Requests -> RequestType']
    <3>1. \A s \in Requests : req'[s] \in RequestType
      BY <1>2, <1>3, <1>4, <1>5
    <3>2. DOMAIN req' = Requests /\ req' = [s \in Requests |-> req'[s]]
      BY DEF BeginFetch
    <3> QED BY <1>2, <3>1, <3>2
  <2>2. \A s \in Requests : mutex' = s <=> req'[s].pc \in {"fetching", "fetched"}
    <3>1. \A s \in Requests : req[s].pc \notin {"fetching", "fetched"}
      BY <1>1, AuthenticationAssumption DEF AuthInv, TypeOK, Nobody
    <3> QED BY <1>1, <1>3, <1>6, <3>1
  <2> QED BY <1>1, <2>1, <2>2 DEF AuthInv, TypeOK, RequestType
<1>9. QueueInv'
  <2>1. \A s \in Requests : /\ Allowed(req[s]) \in Nat /\ req[s].start \in 0..now
                             /\ now \in Nat /\ Timeout \in Nat
    BY <1>2, AllowedGrows, RequestIsTyped DEF AuthInv
  <2>2. \A s \in Waiting : now <= Allowed(req[s])
    BY DEF AuthInv, QueueInv, Busy, Waiting
  <2>3. \A s \in Requests : req'[s].pc \in Busy => now' <= Allowed(req'[s])
    <3> SUFFICES ASSUME NEW s \in Requests, req'[s].pc \in Busy
                 PROVE  now <= Allowed(req'[s])
      BY <1>1
    <3>1. CASE s = r
      BY <1>1, <1>3, <2>2, <3>1 DEF Waiting
    <3>2. CASE s \in Waiting \ {r}
      <4>1. Allowed(req'[s]) = Allowed(req[s]) + Timeout
        BY <1>4, <3>2
      <4> QED BY <2>1, <2>2, <3>2, <4>1
    <3>3. CASE s # r /\ s \notin Waiting
      <4>1. req'[s] = req[s]
        BY <1>5, <3>3
      <4> QED BY <4>1 DEF AuthInv, QueueInv
    <3> QED BY <3>1, <3>2, <3>3
  <2>4. ASSUME NEW h \in Requests, NEW w \in Requests, mutex' = h, req'[w].pc = "waiting"
        PROVE  req'[h].start + Timeout <= Allowed(req'[w])
    <3>1. h = r /\ w \in Waiting \ {r}
      BY <1>1, <1>3, <1>6, <2>4 DEF Waiting
    <3>2. now <= Allowed(req[w]) /\ Allowed(req'[w]) = Allowed(req[w]) + Timeout
      BY <1>4, <2>2, <3>1
    <3>3. /\ req'[h].start \in Nat /\ req'[h].start <= now /\ now \in Nat /\ Timeout \in Nat
          /\ Allowed(req[w]) \in Nat
      <4>1. req'[h].start = req[h].start
        BY <1>3, <3>1
      <4>2. req[h].start \in 0..now /\ now \in Nat /\ Timeout \in Nat /\ Allowed(req[w]) \in Nat
        BY <2>1
      <4> QED BY <4>1, <4>2
    <3> QED BY <3>2, <3>3
  <2>5. \A s \in Requests : req'[s].pc = "fetched" => now' <= req'[s].start + Timeout
    BY <1>1, <1>3, <1>6 DEF AuthInv, QueueInv
  <2> QED BY <2>3, <2>4, <2>5 DEF QueueInv
<1>10. SetsInv'
  BY <1>1, <1>3, <1>6 DEF AuthInv, SetsInv, PublishedSince, Stale
<1>11. ProviderInv' /\ UsesInv'
  BY <1>1, <1>3, <1>6 DEF AuthInv, ProviderInv, UsesInv, Busy
<1>12. RecordInv' /\ RevokedKeysRefused'
  BY <1>1, <1>3, <1>6, <1>7, AuthenticationAssumption DEF AuthInv, RecordInv, RevokedKeysRefused
<1> QED BY <1>8, <1>9, <1>10, <1>11, <1>12 DEF AuthInv

\* A request gets the mutex: the set is stale, and it fetches, or it is not, and
\* the request is answered.
LEMMA RefreshKeepsAuthInv ==
    ASSUME AuthInv, NEW r \in Requests, Refresh(r)
    PROVE  AuthInv'
<1>1. /\ mutex = Nobody /\ req[r].pc = "waiting" /\ jwks' = jwks
      /\ UNCHANGED <<now, since, keyVars>>
  BY DEF Refresh, MayLock
<1>2. /\ jwks' \in [key : 0..Published, at : 0..now] /\ r # Nobody
      /\ PublishedSince(jwks.key, jwks.at - Timeout)'
  BY <1>1, AuthenticationAssumption DEF AuthInv, TypeOK, SetsInv, PublishedSince, Nobody
<1>3. r \notin KeyUses
  BY <1>1 DEF AuthInv, UsesInv, Busy
<1>4. CASE Stale(jwks)
  BY <1>1, <1>4, BeginFetchKeepsAuthInv DEF Refresh
<1>5. CASE ~Stale(jwks)
  <2>1. Answer(r, Verdict(r, jwks.key)) /\ mutex' = mutex
    BY <1>5 DEF Refresh
  <2> QED BY <1>1, <1>2, <1>3, <2>1, VerdictIsDecided, AnswerKeepsAuthInv
<1> QED BY <1>4, <1>5

\* The provider answers with the key it publishes at this moment.
LEMMA FetchAnsweredKeepsAuthInv ==
    ASSUME AuthInv, NEW r \in Requests, FetchAnswered(r)
    PROVE  AuthInv'
<1> DEFINE v == [req[r] EXCEPT !.pc = "fetched", !.set = Published]
<1>1. /\ req[r].pc = "fetching" /\ req' = [req EXCEPT ![r] = v]
      /\ UNCHANGED <<now, since, keyVars>> /\ jwks' = jwks /\ mutex' = mutex
  BY DEF FetchAnswered, tokenVars
<1>2. req[r] \in RequestType /\ Published \in 0..Published /\ Published \in Nat
  BY RequestIsTyped DEF AuthInv, ProviderInv
<1>3. /\ v \in RequestType /\ v.pc = "fetched" /\ v.set = Published
      /\ v.start = req[r].start /\ v.told = req[r].told
  BY <1>2 DEF RequestType
<1>4. mutex = r /\ r # Nobody
  BY <1>1, AuthenticationAssumption DEF AuthInv, TypeOK, Nobody
<1>5. /\ Stale(jwks)' /\ PublishedSince(jwks.key, jwks.at - Timeout)'
      /\ jwks' \in [key : 0..Published, at : 0..now]
  BY <1>1, <1>4 DEF AuthInv, SetsInv, Stale, PublishedSince, TypeOK
<1>6. PublishedSince(Published, req[r].start)
  BY <1>2 DEF AuthInv, TypeOK, PublishedSince
<1>7. /\ r \notin KeyUses /\ Signer[r] \in DOMAIN since /\ now <= Allowed(req[r])
      /\ req[r].told => apikey = "revoked"
  BY <1>1 DEF AuthInv, UsesInv, QueueInv, RecordInv, Busy
<1>8. \A w \in Waiting : req[r].start + Timeout <= Allowed(req[w])
  BY <1>4 DEF AuthInv, QueueInv, Waiting
<1>9. now <= req[r].start + Timeout /\ Allowed(v) = Allowed(req[r])
  <2>1. req[r].start \in Nat /\ now \in Nat /\ Timeout \in Nat
    BY RequestIsTyped DEF AuthInv
  <2>2. now < req[r].start + Timeout
    BY <2>1 DEF FetchAnswered, Expired
  <2> QED BY <1>2, <2>1, <2>2 DEF Allowed, RequestType
<1> HIDE DEF v
<1> QED BY <1>1, <1>3, <1>4, <1>5, <1>6, <1>7, <1>8, <1>9, RequestStep

\* The fetched set is stored; its key was published while the fetch ran, which
\* is a timeout ago at most.
LEMMA FetchStoreKeepsAuthInv ==
    ASSUME AuthInv, NEW r \in Requests, FetchStore(r)
    PROVE  AuthInv'
<1>1. /\ req[r].pc = "fetched" /\ mutex' = Nobody /\ UNCHANGED <<now, since, keyVars>>
      /\ jwks' = [key |-> req[r].set, at |-> now] /\ Answer(r, Verdict(r, req[r].set))
  BY DEF FetchStore
<1>2. mutex = r
  BY <1>1 DEF AuthInv, TypeOK
<1>3. /\ req[r].start \in 0..now /\ req[r].set \in 0..Published /\ now \in Nat
      /\ Timeout \in Nat
  BY RequestIsTyped DEF AuthInv
<1>4. r \notin KeyUses /\ now <= req[r].start + Timeout
      /\ PublishedSince(req[r].set, req[r].start)
  BY <1>1 DEF AuthInv, UsesInv, QueueInv, SetsInv, Busy
<1>5. PublishedSince(jwks.key, jwks.at - Timeout)'
  <2>1. jwks'.key = req[r].set /\ jwks'.at = now
    BY <1>1
  <2>2. \A n \in DOMAIN since : since[n] \in Int
    BY DEF AuthInv, TypeOK
  <2> QED BY <1>1, <1>3, <1>4, <2>1, <2>2 DEF PublishedSince
<1>6. jwks' \in [key : 0..Published, at : 0..now]
  BY <1>1, <1>3
<1> QED BY <1>1, <1>2, <1>4, <1>5, <1>6, VerdictIsDecided, AnswerKeepsAuthInv

\* A failed fetch answers 503 and unlocks; the old set stays.
LEMMA FetchFailKeepsAuthInv ==
    ASSUME AuthInv, NEW r \in Requests, FetchFail(r)
    PROVE  AuthInv'
<1>1. mutex = r
  BY DEF AuthInv, TypeOK, FetchFail
<1>2. /\ PublishedSince(jwks.key, jwks.at - Timeout)'
      /\ jwks' \in [key : 0..Published, at : 0..now]
  BY DEF FetchFail, AuthInv, TypeOK, SetsInv, PublishedSince
<1>3. "unavailable" \in Decided /\ "unavailable" # "accepted"
  BY DEF Decided
<1> QED BY <1>1, <1>2, <1>3, AnswerKeepsAuthInv DEF FetchFail

\* A key is accepted only on a live record, which no confirmed revocation left.
LEMMA LookupKeepsAuthInv ==
    ASSUME AuthInv, NEW r \in Requests, Lookup(r)
    PROVE  AuthInv'
<1>1. /\ req[r].pc = "lookup" /\ UNCHANGED <<now, since, keyVars>>
      /\ jwks' = jwks /\ mutex' = mutex
  BY DEF Lookup, tokenVars
<1>2. mutex # r
  BY <1>1 DEF AuthInv, TypeOK
<1>3. /\ PublishedSince(jwks.key, jwks.at - Timeout)'
      /\ jwks' \in [key : 0..Published, at : 0..now]
  BY <1>1 DEF AuthInv, TypeOK, SetsInv, PublishedSince
<1>4. PICK verdict \in Decided :
          Answer(r, verdict) /\ (verdict = "accepted" => Usable)
  BY DEF Lookup, Decided
<1>5. Usable => ~req[r].told /\ apikey # "absent"
  BY DEF Usable, AuthInv, RecordInv
<1> QED BY <1>1, <1>2, <1>3, <1>4, <1>5, AnswerKeepsAuthInv

-------------------------------------------------------------------------------
(* The provider, the clock and the administrator.                          *)

\* A rotation adds one key to those the provider has used.
LEMMA RotateAddsKey ==
    ASSUME AuthInv, Rotate
    PROVE  /\ Published' = Published + 1 /\ DOMAIN since' = 1..(Published + 1)
           /\ since'[Published + 1] = now
           /\ \A n \in 1..Published : since'[n] = since[n]
<1>1. Published \in Nat
  BY DEF AuthInv, ProviderInv
<1>2. since' = [n \in 1..(Published + 1) |-> IF n > Published THEN now ELSE since[n]]
  BY DEF Rotate
<1>3. DOMAIN since' = 1..(Published + 1)
  BY <1>2
<1>4. Cardinality(1..(Published + 1)) = Published + 1
  BY <1>1, FS_Interval
<1>5. Published' = Published + 1
  BY <1>3, <1>4 DEF Published
<1> QED BY <1>1, <1>2, <1>3, <1>5

\* A rotation is later than everything that was read or stored before it.
LEMMA RotateKeepsAuthInv ==
    ASSUME AuthInv, Rotate
    PROVE  AuthInv'
<1> DEFINE P == Published
<1>1. /\ P' = P + 1 /\ DOMAIN since' = 1..(P + 1) /\ since'[P + 1] = now
      /\ \A n \in 1..P : since'[n] = since[n]
  BY RotateAddsKey
<1>2. /\ P \in Nat /\ DOMAIN since = 1..P /\ \A n \in 1..P : since[n] \in 0..now
      /\ now \in Nat /\ Timeout \in Nat
  <2>1. Timeout \in Nat /\ MaxTime \in Nat
    BY AuthenticationAssumption
  <2>2. P \in Nat
    BY DEF AuthInv, ProviderInv
  <2>3. now \in 0..MaxTime /\ DOMAIN since = 1..P /\ \A n \in DOMAIN since : since[n] \in 0..now
    BY DEF AuthInv, TypeOK
  <2> QED BY <2>1, <2>2, <2>3
<1>3. UNCHANGED <<now, jwks, mutex, req, apikey, admin, acked>>
  BY DEF Rotate, keyVars
<1> HIDE DEF P
<1>4. RequestType \subseteq RequestType'
  BY <1>1, <1>2, <1>3 DEF RequestType, P, Decided
<1>5. TypeOK'
  <2>1. req' \in [Requests -> RequestType']
    BY <1>3, <1>4 DEF AuthInv, TypeOK, RequestType
  <2>2. jwks' \in [key : 0..P', at : 0..now']
    BY <1>1, <1>2, <1>3 DEF AuthInv, TypeOK, P
  <2>3. DOMAIN since' = 1..P' /\ \A n \in DOMAIN since' : since'[n] \in 0..now'
    BY <1>1, <1>2, <1>3
  <2> QED BY <1>3, <2>1, <2>2, <2>3 DEF AuthInv, TypeOK, RequestType, P
<1>6. ProviderInv'
  BY <1>1, <1>2 DEF AuthInv, ProviderInv, P
<1>7. \A n \in 0..P, t \in Int : t <= now /\ PublishedSince(n, t) => PublishedSince(n, t)'
  BY <1>1, <1>2 DEF PublishedSince
<1>8. SetsInv'
  <2>1. jwks.key \in 0..P /\ jwks.at \in 0..now
    BY DEF AuthInv, TypeOK, P
  <2>2. PublishedSince(jwks.key, jwks.at - Timeout)'
    BY <1>2, <1>3, <1>7, <2>1 DEF AuthInv, SetsInv, PublishedSince
  <2>3. ASSUME NEW r \in Requests, req[r].pc = "fetched"
        PROVE  PublishedSince(req[r].set, req[r].start)'
    <3>1. req[r].set \in 0..P /\ req[r].start \in 0..now
      BY RequestIsTyped DEF AuthInv, P
    <3>2. PublishedSince(req[r].set, req[r].start)
      BY <2>3 DEF AuthInv, SetsInv
    <3> QED BY <1>1, <1>2, <1>3, <3>1, <3>2 DEF PublishedSince
  <2> QED BY <1>3, <2>2, <2>3 DEF AuthInv, SetsInv, Stale
<1>9. QueueInv'
  BY <1>3 DEF AuthInv, QueueInv
<1>10. UsesInv' /\ RecordInv' /\ RevokedKeysRefused'
  BY <1>1, <1>2, <1>3 DEF AuthInv, UsesInv, RecordInv, RevokedKeysRefused
<1> QED BY <1>5, <1>6, <1>8, <1>9, <1>10 DEF AuthInv

\* Time passes only while the holder of the mutex is within its deadline, which is
\* no later than what those behind it may have to wait.
LEMMA TickKeepsAuthInv ==
    ASSUME AuthInv, Tick
    PROVE  AuthInv'
<1>1. /\ now' = now + 1 /\ now \in Nat /\ MaxTime \in Nat /\ now < MaxTime
      /\ UNCHANGED <<since, jwks, mutex, req, apikey, admin, acked>>
      /\ Timeout \in Nat /\ Published' = Published /\ MaxAge \in Nat
  BY AuthenticationAssumption DEF AuthInv, TypeOK, Tick, tokenVars, keyVars, Published
<1>2. RequestType \subseteq RequestType'
  BY <1>1 DEF RequestType, Decided
<1>3. TypeOK'
  <2>1. req' \in [Requests -> RequestType']
    BY <1>1, <1>2 DEF AuthInv, TypeOK, RequestType
  <2>2. jwks' \in [key : 0..Published', at : 0..now']
    BY <1>1 DEF AuthInv, TypeOK
  <2>3. \A n \in DOMAIN since' : since'[n] \in 0..now'
    BY <1>1 DEF AuthInv, TypeOK
  <2>4. now' \in 0..MaxTime
    BY <1>1
  <2> QED BY <1>1, <2>1, <2>2, <2>3, <2>4 DEF AuthInv, TypeOK, RequestType
<1>4. QueueInv'
  <2>1. ASSUME NEW r \in Requests, req[r].pc \in {"fetching", "fetched"}
        PROVE  now + 1 <= req[r].start + Timeout
    <3>1. req[r].start \in 0..now /\ ~Expired(r)
      BY <2>1, RequestIsTyped DEF AuthInv, Tick
    <3> QED BY <1>1, <3>1 DEF Expired
  <2>2. ASSUME NEW r \in Requests, req[r].pc \in Busy
        PROVE  now + 1 <= Allowed(req[r])
    <3>1. /\ req[r].start \in Nat /\ Allowed(req[r]) \in Nat
          /\ req[r].start + Timeout <= Allowed(req[r])
      BY AllowedGrows, RequestIsTyped DEF AuthInv
    <3>2. CASE req[r].pc \in {"fetching", "fetched"}
      BY <1>1, <2>1, <3>1, <3>2
    <3>3. CASE req[r].pc = "waiting"
      <4>1. mutex \in Requests
        BY <3>3 DEF Tick, Waiting, AuthInv, TypeOK
      <4>2. req[mutex].start + Timeout <= Allowed(req[r])
            /\ req[mutex].pc \in {"fetching", "fetched"}
        BY <3>3, <4>1 DEF AuthInv, QueueInv, TypeOK
      <4>3. req[mutex].start \in Nat
        BY <4>1, RequestIsTyped DEF AuthInv
      <4> QED BY <1>1, <2>1, <3>1, <4>1, <4>2, <4>3
    <3> QED BY <2>2, <3>2, <3>3 DEF Busy
  <2> QED BY <1>1, <2>1, <2>2 DEF QueueInv, AuthInv, Allowed
<1>5. SetsInv'
  <2>1. Stale(jwks) => Stale(jwks)'
    BY <1>1 DEF Stale, AuthInv, TypeOK
  <2> QED BY <1>1, <2>1 DEF AuthInv, SetsInv, PublishedSince
<1>6. ProviderInv' /\ UsesInv' /\ RecordInv' /\ RevokedKeysRefused'
  BY <1>1 DEF AuthInv, ProviderInv, UsesInv, RecordInv, RevokedKeysRefused
<1> QED BY <1>3, <1>4, <1>5, <1>6 DEF AuthInv

\* The record is created once and never comes back from a revocation.
LEMMA AdminKeepsAuthInv ==
    ASSUME AuthInv, CreateKey \/ RevokeExists \/ RevokeSet \/ RevokeFail
    PROVE  AuthInv'
<1>1. UNCHANGED <<now, since, jwks, mutex, req>> /\ Published' = Published
  BY DEF CreateKey, RevokeExists, RevokeSet, RevokeFail, tokenVars, Published
<1>2. /\ apikey' \in {"absent", "live", "revoked"} /\ admin' \in {"idle", "revoking"}
      /\ acked' \in BOOLEAN
      /\ acked' => apikey' = "revoked"
      /\ admin' = "revoking" => apikey' # "absent"
      /\ apikey = "revoked" => apikey' = "revoked"
      /\ apikey # "absent" => apikey' # "absent"
  <2>1. CASE CreateKey
    BY <2>1 DEF CreateKey, AuthInv, TypeOK, RecordInv
  <2>2. CASE RevokeExists
    BY <2>2 DEF RevokeExists, AuthInv, TypeOK, RecordInv
  <2>3. CASE RevokeSet
    BY <2>3 DEF RevokeSet, AuthInv, TypeOK, RecordInv
  <2>4. CASE RevokeFail
    BY <2>4 DEF RevokeFail, AuthInv, TypeOK, RecordInv
  <2> QED BY <2>1, <2>2, <2>3, <2>4
<1>3. TypeOK'
  BY <1>1, <1>2 DEF AuthInv, TypeOK
<1>4. ProviderInv' /\ QueueInv' /\ SetsInv' /\ UsesInv'
  BY <1>1 DEF AuthInv, ProviderInv, QueueInv, SetsInv, UsesInv, Stale, PublishedSince
<1>5. RecordInv' /\ RevokedKeysRefused'
  BY <1>1, <1>2 DEF AuthInv, RecordInv, RevokedKeysRefused
<1> QED BY <1>3, <1>4, <1>5 DEF AuthInv

-------------------------------------------------------------------------------
(* The results.                                                            *)

\* The inductive invariant holds in every state of every run.
THEOREM AuthInvHolds == Spec => []AuthInv
<1>1. Init => AuthInv
  <2> SUFFICES ASSUME Init PROVE AuthInv
    OBVIOUS
  <2>1. DOMAIN since = {1} /\ since[1] = 0 /\ now = 0 /\ jwks = NoSet /\ mutex = Nobody
    BY DEF Init
  <2>2. Published = 1 /\ {1} = 1..1
    BY <2>1, FS_Singleton DEF Published
  <2>3. NewRequest \in RequestType /\ NewRequest.pc = "new" /\ NewRequest.told = FALSE
    BY <2>1, <2>2 DEF NewRequest, RequestType
  <2>4. req \in [Requests -> RequestType] /\ \A r \in Requests : req[r] = NewRequest
    BY <2>3 DEF Init
  <2>5. TypeOK
    <3>1. jwks \in [key : 0..Published, at : 0..now]
      BY <2>1, <2>2 DEF NoSet
    <3>2. \A r \in Requests : mutex = r <=> req[r].pc \in {"fetching", "fetched"}
      BY <2>1, <2>3, <2>4, AuthenticationAssumption DEF Nobody
    <3>3. now \in 0..MaxTime /\ \A n \in DOMAIN since : since[n] \in 0..now
      BY <2>1, AuthenticationAssumption
    <3>4. mutex \in Requests \cup {Nobody} /\ DOMAIN since = 1..Published
      BY <2>1, <2>2
    <3> QED BY <2>4, <3>1, <3>2, <3>3, <3>4 DEF Init, TypeOK, RequestType
  <2>6. ProviderInv
    BY <2>1, <2>2 DEF ProviderInv
  <2>7. QueueInv /\ UsesInv
    BY <2>3, <2>4 DEF QueueInv, UsesInv, Busy
  <2>8. SetsInv
    BY <2>1, <2>3, <2>4, AuthenticationAssumption DEF SetsInv, PublishedSince, NoSet
  <2>9. RecordInv /\ RevokedKeysRefused
    BY <2>3, <2>4, AuthenticationAssumption DEF Init, RecordInv, RevokedKeysRefused
  <2> QED BY <2>5, <2>6, <2>7, <2>8, <2>9 DEF AuthInv
<1>2. AuthInv /\ [Next]_vars => AuthInv'
  <2> SUFFICES ASSUME AuthInv, [Next]_vars PROVE AuthInv'
    OBVIOUS
  <2>1. CASE Rotate
    BY <2>1, RotateKeepsAuthInv
  <2>2. CASE Tick
    BY <2>2, TickKeepsAuthInv
  <2>3. CASE CreateKey \/ RevokeExists \/ RevokeSet \/ RevokeFail
    BY <2>3, AdminKeepsAuthInv
  <2>4. ASSUME NEW r \in Requests, Arrive(r) PROVE AuthInv'
    BY <2>4, ArriveKeepsAuthInv
  <2>5. ASSUME NEW r \in Requests, ArriveKey(r) PROVE AuthInv'
    BY <2>5, ArriveKeyKeepsAuthInv
  <2>6. ASSUME NEW r \in Requests, Serve(r) PROVE AuthInv'
    BY <2>6, RefreshKeepsAuthInv, FetchAnsweredKeepsAuthInv, FetchStoreKeepsAuthInv,
       FetchFailKeepsAuthInv, LookupKeepsAuthInv DEF Serve
  <2>7. CASE UNCHANGED vars
    BY <2>7 DEF vars, AuthInv, TypeOK, ProviderInv, QueueInv, SetsInv, UsesInv, RecordInv,
                RevokedKeysRefused, Published, PublishedSince, Stale
  <2> QED BY <2>1, <2>2, <2>3, <2>4, <2>5, <2>6, <2>7 DEF Next
<1> QED BY <1>1, <1>2, PTL DEF Spec

\* OneTimeoutPerFetch: although sync.Mutex knows no deadline and no order, nobody
\* waits for jwtRefreshMu longer than the route's timeout and one more for each
\* fetch begun meanwhile, since fetches end with the deadline of their request.
THEOREM WaitsAreBounded == Spec => []OneTimeoutPerFetch
<1>1. AuthInv => OneTimeoutPerFetch
  BY DEF AuthInv, QueueInv, OneTimeoutPerFetch, Refreshing, Allowed, Busy
<1> QED BY <1>1, AuthInvHolds, PTL

\* RevokedKeysRefused: a request that begins after revokeAPIKey confirmed is refused,
\* and so is a key nobody created.
THEOREM RevocationsHold == Spec => []RevokedKeysRefused
<1>1. AuthInv => RevokedKeysRefused
  BY DEF AuthInv
<1> QED BY <1>1, AuthInvHolds, PTL

\* StoresAreSpaced: verifyJWT replaces the key set only when it has gone stale.
THEOREM RefreshesAreSpaced == Spec => StoresAreSpaced
<1>1. ASSUME AuthInv, [Next]_vars
      PROVE  [jwks # NoSet /\ jwks' # jwks => now - jwks.at > MaxAge]_vars
  <2> SUFFICES ASSUME jwks # NoSet, jwks' # jwks PROVE now - jwks.at > MaxAge
    OBVIOUS
  <2>1. PICK r \in Requests : FetchStore(r)
    BY <1>1 DEF Next, vars, Rotate, Tick, CreateKey, RevokeExists, RevokeSet, RevokeFail,
       Arrive, ArriveKey, Serve, Refresh, BeginFetch, FetchAnswered, FetchFail, Lookup, tokenVars
  <2>2. mutex # Nobody
    BY <1>1, <2>1, AuthenticationAssumption DEF AuthInv, TypeOK, FetchStore, Nobody
  <2> QED BY <1>1, <2>2 DEF AuthInv, SetsInv, Stale
<1> QED BY <1>1, AuthInvHolds, PTL DEF Spec, StoresAreSpaced

\* The verdict on a key set that was published no longer than `back` ago is right
\* about some moment since then: the keys are used in order.
LEMMA VerdictIsRecent ==
    ASSUME AuthInv, NEW r \in Requests, Signer[r] \in DOMAIN since, NEW back \in Nat,
           NEW key \in 0..Published, PublishedSince(key, now - back)
    PROVE  /\ Verdict(r, key) = "accepted" => PublishedWithin(Signer[r], back)
           /\ Verdict(r, key) = "refused" => UnpublishedWithin(Signer[r], back)
<1> DEFINE s == Signer[r]
<1>1. /\ Published \in Nat /\ DOMAIN since = 1..Published /\ now \in Nat /\ s \in 1..Published
      /\ \A n \in DOMAIN since : since[n] \in 0..now
      /\ \A m, n \in DOMAIN since : m <= n => since[m] <= since[n]
  BY AuthenticationAssumption DEF AuthInv, TypeOK, ProviderInv
<1> HIDE DEF s
<1>2. s = key => PublishedWithin(s, back)
  BY <1>1 DEF PublishedSince, PublishedWithin
<1>3. s # key => UnpublishedWithin(s, back)
  <2>1. CASE s < Published
    BY <1>1, <2>1 DEF UnpublishedWithin
  <2>2. CASE s = Published /\ s # key
    <3>1. key + 1 \in 1..Published /\ key + 1 <= s
      BY <1>1, <2>2
    <3>2. since[key + 1] >= now - back /\ since[key + 1] <= since[s]
      BY <1>1, <3>1 DEF PublishedSince
    <3>3. since[key + 1] \in Nat /\ since[s] \in Nat
      BY <1>1, <3>1
    <3>4. since[s] + back >= now
      BY <1>1, <3>2, <3>3
    <3> QED BY <3>4 DEF UnpublishedWithin
  <2> QED BY <1>1, <2>1, <2>2
<1> QED BY <1>2, <1>3 DEF Verdict, s

\* VerdictsAreRecent: verifyJWT lets a withdrawn key in, and turns a new one away, for
\* at most MaxAge and one timeout.
THEOREM VerdictsFollowTheProvider == Spec => VerdictsAreRecent
<1> DEFINE Back == MaxAge + Timeout
           Right(r) == /\ req'[r].pc = "accepted" => PublishedWithin(Signer[r], Back)
                       /\ req'[r].pc = "refused"  => UnpublishedWithin(Signer[r], Back)
<1>1. ASSUME AuthInv, [Next]_vars, NEW r \in Requests \ KeyUses, req'[r].pc # req[r].pc
      PROVE  Right(r)
  <2>1. /\ MaxAge \in Nat /\ Timeout \in Nat /\ Back \in Nat /\ now \in Nat
        /\ req \in [Requests -> RequestType] /\ r \notin KeyUses
        /\ jwks.key \in 0..Published /\ jwks.at \in 0..now
        /\ \A n \in DOMAIN since : since[n] \in Int
    <3>1. MaxAge \in Nat /\ Timeout \in Nat /\ MaxTime \in Nat
      BY AuthenticationAssumption
    <3>2. now \in 0..MaxTime /\ \A n \in DOMAIN since : since[n] \in 0..now
      BY <1>1 DEF AuthInv, TypeOK
    <3>3. req \in [Requests -> RequestType] /\ jwks \in [key : 0..Published, at : 0..now]
      BY <1>1 DEF AuthInv, TypeOK, RequestType
    <3> QED BY <1>1, <3>1, <3>2, <3>3
  <2>2. ~Stale(jwks) => PublishedSince(jwks.key, now - Back)
    BY <1>1, <2>1 DEF AuthInv, SetsInv, PublishedSince, Stale
  <2>3. CASE Arrive(r)
    <3>1. Signer[r] \in DOMAIN since
      BY <2>3 DEF Arrive
    <3>2. req'[r] = IF Stale(jwks) THEN [req[r] EXCEPT !.pc = "waiting", !.start = now]
                                   ELSE [req[r] EXCEPT !.pc = Verdict(r, jwks.key)]
      BY <2>1, <2>3 DEF Arrive
    <3>3. CASE Stale(jwks)
      <4>1. req'[r].pc = "waiting"
        BY <2>1, <3>2, <3>3 DEF RequestType
      <4> QED BY <4>1
    <3>4. CASE ~Stale(jwks)
      <4>1. req'[r].pc = Verdict(r, jwks.key)
        BY <2>1, <3>2, <3>4 DEF RequestType
      <4> QED BY <1>1, <2>1, <2>2, <3>1, <3>4, <4>1, VerdictIsRecent
    <3> QED BY <3>3, <3>4
  <2>4. CASE Refresh(r)
    <3>1. Signer[r] \in DOMAIN since
      BY <1>1, <2>4 DEF Refresh, MayLock, AuthInv, UsesInv, Busy
    <3>2. CASE Stale(jwks)
      <4>1. req'[r].pc = "fetching"
        BY <2>1, <2>4, <3>2 DEF Refresh, BeginFetch, RequestType
      <4> QED BY <4>1
    <3>3. CASE ~Stale(jwks)
      <4>1. req'[r].pc = Verdict(r, jwks.key)
        BY <2>1, <2>4, <3>3 DEF Refresh, Answer, RequestType
      <4> QED BY <1>1, <2>1, <2>2, <3>1, <3>3, <4>1, VerdictIsRecent
    <3> QED BY <3>2, <3>3
  <2>5. CASE FetchStore(r)
    <3>1. /\ Signer[r] \in DOMAIN since /\ now <= req[r].start + Timeout
          /\ PublishedSince(req[r].set, req[r].start)
      BY <1>1, <2>5 DEF FetchStore, AuthInv, UsesInv, QueueInv, SetsInv, Busy
    <3>2. req[r].set \in 0..Published /\ req[r].start \in 0..now
      BY <1>1, RequestIsTyped DEF AuthInv
    <3>3. PublishedSince(req[r].set, now - Back)
      BY <2>1, <3>1, <3>2 DEF PublishedSince
    <3>4. req'[r].pc = Verdict(r, req[r].set)
      BY <2>1, <2>5 DEF FetchStore, Answer, RequestType
    <3> QED BY <1>1, <2>1, <3>1, <3>2, <3>3, <3>4, VerdictIsRecent
  <2>6. CASE FetchAnswered(r) \/ FetchFail(r)
    <3>1. req'[r].pc \in {"fetched", "unavailable"}
      BY <2>1, <2>6 DEF FetchAnswered, FetchFail, Answer, RequestType
    <3> QED BY <3>1
  <2>7. ~Lookup(r) /\ ~ArriveKey(r)
    BY <1>1 DEF Lookup, ArriveKey, AuthInv, UsesInv
  <2>8. ASSUME NEW q \in Requests \ {r}, Arrive(q) \/ ArriveKey(q) \/ Serve(q)
        PROVE  FALSE
    <3>1. req'[r].pc = req[r].pc
      BY <2>1, <2>8 DEF Arrive, ArriveKey, Serve, Refresh, BeginFetch, FetchAnswered,
         FetchStore, FetchFail, Lookup, Answer, RequestType
    <3> QED BY <1>1, <3>1
  <2>9. PICK q \in Requests : Arrive(q) \/ ArriveKey(q) \/ Serve(q)
    <3>1. req' # req
      BY <1>1
    <3> QED BY <1>1, <3>1 DEF Next, vars, Rotate, Tick, CreateKey, RevokeExists, RevokeSet,
                              RevokeFail
  <2>10. q = r
    BY <2>8, <2>9
  <2>11. \/ Arrive(r) \/ Refresh(r) \/ FetchStore(r)
         \/ FetchAnswered(r) \/ FetchFail(r)
    BY <2>7, <2>9, <2>10 DEF Serve
  <2> QED BY <2>3, <2>4, <2>5, <2>6, <2>11
<1>2. ASSUME AuthInv, [Next]_vars
      PROVE  [\A r \in Requests \ KeyUses : req'[r].pc # req[r].pc =>
                 /\ req'[r].pc = "accepted" => PublishedWithin(Signer[r], MaxAge + Timeout)
                 /\ req'[r].pc = "refused"  => UnpublishedWithin(Signer[r], MaxAge + Timeout)]_vars
  BY <1>1, <1>2
<1> QED BY <1>2, AuthInvHolds, PTL DEF Spec, VerdictsAreRecent
===============================================================================
