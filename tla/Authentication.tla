---------------------------- MODULE Authentication ----------------------------
(***************************************************************************)
(* How one route of one process decides who a request is from.             *)
(*                                                                         *)
(* Bearer tokens: the signing keys of the identity provider are cached for *)
(* MaxAge and refreshed by one request at a time under jwtRefreshMu, which *)
(* ignores the deadline of the requests that wait for it.  The provider    *)
(* replaces its key now and then.                                          *)
(*                                                                         *)
(* API keys: records in Redis that the admin API creates and revokes while *)
(* requests read them.                                                     *)
(*                                                                         *)
(* Work inside the process takes no time: only a fetch lets the clock run. *)
(***************************************************************************)
EXTENDS Naturals, FiniteSets

CONSTANTS Requests,     \* requests to the route
          KeyUses,      \* those of them that present the API key
          Signer,       \* Signer[r]: which of the provider's keys signed r's token
          MaxAge,       \* five minutes: how long a fetched key set is used
          Timeout,      \* timeout of the route, from admission
          MaxRotations, \* bound: keys the provider moves on to
          MaxTime       \* bound: the clock

ASSUME AuthenticationAssumption ==
    /\ KeyUses \subseteq Requests /\ "nobody" \notin Requests
    /\ Signer \in [Requests -> Nat]
    /\ {MaxAge, Timeout, MaxRotations, MaxTime} \subseteq Nat

VARIABLES
    now,
    since,      \* provider: when it moved on to its n-th key
    jwks,       \* auth.jwks and jwksAt: the key in the cached set, and its age
    mutex,      \* the request that holds jwtRefreshMu
    req,        \* per request: where it is, what it has read, what it was told
    apikey,     \* Redis: the record of the API key
    admin,      \* where the admin request that creates or revokes it is
    acked       \* history: the revocation was confirmed to the administrator

tokenVars == <<since, jwks, mutex>>
keyVars == <<apikey, admin, acked>>
vars == <<now, since, jwks, mutex, req, apikey, admin, acked>>

Nobody == "nobody"
NoSet == [key |-> 0, at |-> 0]

\* Keys are numbered in the order the provider uses them; it publishes the last.
Published == Cardinality(DOMAIN since)

\* told and overtaken are kept for properties: a revocation was confirmed before
\* the request came; fetches that others began while it waited for the mutex.
NewRequest == [pc |-> "new", start |-> 0, set |-> 0, told |-> FALSE, overtaken |-> 0]

Init == /\ now = 0
        /\ since = [n \in {1} |-> 0]
        /\ jwks = NoSet
        /\ mutex = Nobody
        /\ req = [r \in Requests |-> NewRequest]
        /\ apikey = "absent"
        /\ admin = "idle"
        /\ acked = FALSE

-------------------------------------------------------------------------------
(* The provider.                                                            *)

Rotate == /\ Published <= MaxRotations
          /\ since' = [n \in 1..(Published + 1) |-> IF n > Published THEN now ELSE since[n]]
          /\ UNCHANGED <<now, jwks, mutex, req, keyVars>>

-------------------------------------------------------------------------------
(* verifyJWT.                                                               *)

Stale(set) == set = NoSet \/ now - set.at > MaxAge

\* The signature is checked against the key of the set; a token whose other
\* claims are wrong (issuer, audience, subject, times) is refused whatever the
\* set says and is left out.
Verdict(r, key) == IF Signer[r] = key THEN "accepted" ELSE "refused"

\* The locals of the handler end with it.
Answer(r, verdict) == req' = [req EXCEPT ![r].pc = verdict, ![r].start = 0, ![r].set = 0,
                                         ![r].overtaken = 0]

Waiting == {r \in Requests : req[r].pc = "waiting"}

\* A token signed with a key the provider has used arrives; the cached set is
\* read under jwksMu.
Arrive(r) ==
    /\ r \notin KeyUses
    /\ Signer[r] \in DOMAIN since
    /\ req[r].pc = "new"
    /\ req' = [req EXCEPT ![r] =
          IF Stale(jwks) THEN [@ EXCEPT !.pc = "waiting", !.start = now]
                         ELSE [@ EXCEPT !.pc = Verdict(r, jwks.key)]]
    /\ UNCHANGED <<now, tokenVars, keyVars>>

\* Lock of a sync.Mutex that is free: no order among the requests that are at it,
\* a newcomer may take it before a waiter that Unlock has just woken.  (A waiter
\* that loses so after a millisecond is served next; the model allows more.)
MayLock(r) == mutex = Nobody /\ req[r].pc = "waiting"

\* r holds the mutex and fetches, the others that wait have been overtaken.
BeginFetch(r) ==
    /\ mutex' = r
    /\ req' = [w \in Requests |->
          IF w = r THEN [req[w] EXCEPT !.pc = "fetching"]
          ELSE IF w \in Waiting THEN [req[w] EXCEPT !.overtaken = @ + 1]
          ELSE req[w]]

\* Mutant: the set is not looked at again under the mutex.
RefreshUnchecked(r) ==
    /\ MayLock(r)
    /\ BeginFetch(r)
    /\ UNCHANGED <<now, since, jwks, keyVars>>

\* Lock; the set is read again, another request may have refreshed it.
Refresh(r) ==
    /\ MayLock(r)
    /\ IF Stale(jwks)
         THEN BeginFetch(r)
         ELSE /\ Answer(r, Verdict(r, jwks.key))
              /\ UNCHANGED mutex
    /\ UNCHANGED <<now, since, jwks, keyVars>>

\* Mutant: the fetch has a timeout of its own instead of the request's.
ExpiredAlone(r) == now >= req[r].start + 2 * Timeout

\* jwk.Fetch gives up when the request's context ends.
Expired(r) == now >= req[r].start + Timeout

\* The provider answers the fetch with the set it publishes.
FetchAnswered(r) ==
    /\ req[r].pc = "fetching"
    /\ ~Expired(r)
    /\ req' = [req EXCEPT ![r].pc = "fetched", ![r].set = Published]
    /\ UNCHANGED <<now, tokenVars, keyVars>>

\* The answer has arrived: store it, unlock, verify.
FetchStore(r) ==
    /\ req[r].pc = "fetched"
    /\ jwks' = [key |-> req[r].set, at |-> now]
    /\ mutex' = Nobody
    /\ Answer(r, Verdict(r, req[r].set))
    /\ UNCHANGED <<now, since, keyVars>>

\* Mutant: when the provider does not answer, the old set is used once more.
FetchFailUsesOld(r) ==
    /\ req[r].pc \in {"fetching", "fetched"}
    /\ mutex' = Nobody
    /\ Answer(r, IF jwks = NoSet THEN "unavailable" ELSE Verdict(r, jwks.key))
    /\ UNCHANGED <<now, since, jwks, keyVars>>

\* Mutant: the error path returns with the mutex held.
FetchFailLocked(r) ==
    /\ req[r].pc \in {"fetching", "fetched"}
    /\ Answer(r, "unavailable")
    /\ UNCHANGED <<now, since, jwks, mutex, keyVars>>

\* No answer in time, an error, or the client went away.
FetchFail(r) ==
    /\ req[r].pc \in {"fetching", "fetched"}
    /\ mutex' = Nobody
    /\ Answer(r, "unavailable")
    /\ UNCHANGED <<now, since, jwks, keyVars>>

-------------------------------------------------------------------------------
(* API keys: createAPIKey, revokeAPIKey, and the lookup by the route.       *)

\* HSET of a new record; the administrator gets the secret if the reply comes.
CreateKey == /\ admin = "idle"
             /\ apikey = "absent"
             /\ apikey' = "live"
             /\ UNCHANGED <<now, tokenVars, req, admin, acked>>

\* EXISTS.  A key that is not there yet is answered 404, a failure 503.
RevokeExists == /\ admin = "idle"
                /\ apikey # "absent"
                /\ admin' = "revoking"
                /\ UNCHANGED <<now, tokenVars, req, apikey, acked>>

\* HSET revoked=1; the reply may be lost, and then nothing is confirmed.
RevokeSet == /\ admin = "revoking"
             /\ admin' = "idle"
             /\ apikey' = "revoked"
             /\ acked' \in {acked, TRUE}
             /\ UNCHANGED <<now, tokenVars, req>>

RevokeFail == /\ admin = "revoking"
              /\ admin' = "idle"
              /\ UNCHANGED <<now, tokenVars, req, apikey, acked>>

\* The request with the key is admitted; it is not one of the policy's own keys.
ArriveKey(r) ==
    /\ r \in KeyUses
    /\ req[r].pc = "new"
    /\ req' = [req EXCEPT ![r].pc = "lookup", ![r].told = acked]
    /\ UNCHANGED <<now, tokenVars, keyVars>>

\* Mutant: the record is looked up and its revoked mark ignored.
UsableIfNamed == apikey # "absent"

\* HGETALL: a record that is not revoked and has a name.  An absent key is an
\* empty record.
Usable == apikey = "live"

\* Redis may not answer; then the key is refused.
Lookup(r) ==
    /\ req[r].pc = "lookup"
    /\ \/ Answer(r, IF Usable THEN "accepted" ELSE "refused")
       \/ Answer(r, "refused")
    /\ UNCHANGED <<now, tokenVars, keyVars>>

-------------------------------------------------------------------------------
\* A unit of time passes while fetches are on their way, none past its deadline.
Tick == /\ now < MaxTime
        /\ \A r \in Requests : req[r].pc \in {"fetching", "fetched"} => ~Expired(r)
        /\ mutex = Nobody => Waiting = {}
        /\ now' = now + 1
        /\ UNCHANGED <<tokenVars, req, keyVars>>

Serve(r) == \/ Refresh(r) \/ FetchAnswered(r) \/ FetchStore(r) \/ FetchFail(r)
            \/ Lookup(r)

Next == \/ Rotate \/ Tick
        \/ CreateKey \/ RevokeExists \/ RevokeSet \/ RevokeFail
        \/ \E r \in Requests : Arrive(r) \/ ArriveKey(r) \/ Serve(r)

\* Goroutines run, and a fetch ends at its context's deadline at the latest.
Fairness == \A r \in Requests : WF_vars(Serve(r))

Spec == Init /\ [][Next]_vars /\ Fairness

-------------------------------------------------------------------------------
(***************************************************************************)
(* Properties.                                                             *)
(***************************************************************************)

Decided == {"accepted", "refused", "unavailable"}

\* Type invariant; jwtRefreshMu is held exactly by the request that fetches.
TypeOK ==
    /\ now \in 0..MaxTime
    /\ DOMAIN since = 1..Published /\ \A n \in DOMAIN since : since[n] \in 0..now
    /\ jwks \in [key : 0..Published, at : 0..now]
    /\ mutex \in Requests \cup {Nobody}
    /\ \A r \in Requests : mutex = r <=> req[r].pc \in {"fetching", "fetched"}
    /\ req \in [Requests -> [pc : {"new", "waiting", "fetching", "fetched", "lookup"} \cup Decided,
                             start : 0..now, set : 0..Published, told : BOOLEAN,
                             overtaken : Nat]]
    /\ apikey \in {"absent", "live", "revoked"}
    /\ admin \in {"idle", "revoking"}
    /\ acked \in BOOLEAN

\* The provider published key n at some moment of the last `back` units of time.
PublishedWithin(n, back) == n + 1 \in DOMAIN since => since[n + 1] + back >= now

\* The provider did not publish key n at some moment of that time.
UnpublishedWithin(n, back) == n + 1 \in DOMAIN since \/ since[n] + back >= now

\* verifyJWT: a withdrawn key opens the route, and a new one is turned away, for
\* at most five minutes and one request timeout, whatever refreshes failed, were
\* slow, or were overtaken by a rotation while their answer was on its way.
VerdictsAreRecent ==
    [][\A r \in Requests \ KeyUses : req'[r].pc # req[r].pc =>
          /\ req'[r].pc = "accepted" => PublishedWithin(Signer[r], MaxAge + Timeout)
          /\ req'[r].pc = "refused"  => UnpublishedWithin(Signer[r], MaxAge + Timeout)]_vars

\* The requests that wait for the set or fetch it.
Refreshing == {r \in Requests : req[r].pc \in {"waiting", "fetching", "fetched"}}

\* jwtRefreshMu is not context-aware, but its holders are, in whatever order they
\* get it: a request waits for its timeout, and for one more for each fetch that
\* another one began meanwhile, never for the sum of what its predecessors had
\* left to wait; a request that gets the mutex too late gives it up at once.
OneTimeoutPerFetch ==
    /\ TypeOK
    /\ \A r \in Refreshing : now <= req[r].start + (1 + req[r].overtaken) * Timeout

\* "`timeout` | Route deadline" (docs/configuration.md:46): verifyJWT keeps no
\* request past the deadline of its route.
RouteDeadlineHolds == \A r \in Refreshing : now <= req[r].start + Timeout

\* The double check: requests that find the set stale together fetch it once, so
\* the provider is asked for a set only when the stored one has gone stale.
StoresAreSpaced == [][jwks # NoSet /\ jwks' # jwks => now - jwks.at > MaxAge]_vars

\* revokeAPIKey: no request that begins after a revocation was confirmed gets in
\* on that key, on any process, and neither does a key that was never created.
RevokedKeysRefused ==
    \A r \in KeyUses : req[r].pc = "accepted" => ~req[r].told /\ apikey # "absent"

\* Every request is told something: a failed fetch releases those behind it.
EveryRequestDecided ==
    \A r \in Requests : [](req[r].pc # "new" => <>(req[r].pc \in Decided))
===============================================================================
