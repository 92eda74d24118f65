----------------------------- MODULE ResponseCache ----------------------------
(***************************************************************************)
(* The distributed response cache of one route: gateways look a key up in  *)
(* Redis, forward on a miss and store the answer, while an administrator   *)
(* invalidates the route with SCAN and UNLINK.                             *)
(***************************************************************************)
EXTENDS Naturals

CONSTANTS Requests,     \* concurrent requests, at any gateway
          Shapes,       \* what tells requests apart: their principal and method
          PerPrincipal, \* the cache policy's per_principal
          Ttl,          \* its ttl, in clock ticks
          MaxAge,       \* the max-age upstream sends with a "short" answer
          MaxTime       \* bound: clock ticks explored

ASSUME CacheAssumption == /\ PerPrincipal \in BOOLEAN
                          /\ Ttl \in Nat \ {0}
                          /\ MaxAge \in Nat \ {0}
                          /\ MaxTime \in Nat

\* Kinds of answer: "uncacheable" has a status other than 200, Set-Cookie,
\* no-store or private; "short" has a positive max-age; "revalidate" says
\* no-cache or max-age=0; "plain" says nothing.
Kinds == {"uncacheable", "short", "revalidate", "plain"}

NoShape == [principal |-> "nobody", method |-> "none"]

\* Redis keys of the route, given as the set of requests that share one.
Keys == SUBSET Shapes

VARIABLES now,
          cache,      \* Redis: the entries [key, shape, kind, storedAt, expires]
          req,        \* the requests
          inv,        \* the invalidation: "none", "scanning", "done", "failed"
          unscanned,  \* keys SCAN has yet to visit
          found,      \* keys of the last SCAN reply, not unlinked yet
          old         \* history: keys whose entry dates from before the invalidation

vars == <<now, cache, req, inv, unscanned, found, old>>

NewRequest == [pc |-> "new", shape |-> NoShape, bypass |-> FALSE, kind |-> "none",
               hitKind |-> "none", hitAge |-> 0]

Init == /\ now = 0
        /\ cache = {}
        /\ req = [r \in Requests |-> NewRequest]
        /\ inv = "none"
        /\ unscanned = {}
        /\ found = {}
        /\ old = {}

\* cacheKey: method and URI always, the principal when the policy says so.
KeyOf(sh) ==
    {x \in Shapes : x.method = sh.method /\ (PerPrincipal => x.principal = sh.principal)}

Entries(k) == {x \in cache : x.key = k}

-------------------------------------------------------------------------------
\* The next request.  bypass: cacheKey is empty, for another method or for a
\* Cache-Control of no-cache or no-store, and the cache is left alone.
Arrive(r, sh, bypass) ==
    /\ req[r].pc \in {"new", "done"}
    /\ req' = [req EXCEPT ![r] = [NewRequest EXCEPT !.pc = "lookup", !.shape = sh,
                                                    !.bypass = bypass]]
    /\ UNCHANGED <<now, cache, inv, unscanned, found, old>>

\* serveCached: a hit is answered from the entry.
Hit(r) ==
    /\ req[r].pc = "lookup"
    /\ ~req[r].bypass
    /\ \E x \in Entries(KeyOf(req[r].shape)) :
          req' = [req EXCEPT ![r].pc = "done", ![r].hitKind = x.kind,
                             ![r].hitAge = now - x.storedAt]
    /\ UNCHANGED <<now, cache, inv, unscanned, found, old>>

\* A miss, an empty key, or Redis does not answer: forward to the upstream.
Fetch(r, kind) ==
    /\ req[r].pc = "lookup"
    /\ req' = [req EXCEPT ![r].pc = "fill", ![r].kind = kind]
    /\ UNCHANGED <<now, cache, inv, unscanned, found, old>>

\* cacheMaxAge: zero when the answer has none.
MaxAgeOf(kind) == IF kind = "short" THEN MaxAge ELSE 0

\* Mutant: the policy's ttl, whatever the upstream says.
LifetimePolicyOnly(kind) == Ttl

\* A positive max-age that is smaller than the ttl replaces it.
Lifetime(kind) ==
    IF MaxAgeOf(kind) > 0 /\ MaxAgeOf(kind) < Ttl THEN MaxAgeOf(kind) ELSE Ttl

Cacheable(r) == ~req[r].bypass /\ req[r].kind # "uncacheable"

\* The response is written and storeCached sets the entry.
Fill(r) ==
    LET k == KeyOf(req[r].shape) IN
    /\ req[r].pc = "fill"
    /\ Cacheable(r)
    /\ req' = [req EXCEPT ![r] = NewRequest]
    /\ cache' = (cache \ Entries(k)) \cup
                {[key |-> k, shape |-> req[r].shape, kind |-> req[r].kind,
                  storedAt |-> now, expires |-> now + Lifetime(req[r].kind)]}
    /\ old' = old \ {k}
    /\ UNCHANGED <<now, inv, unscanned, found>>

\* Nothing to store, or the SET failed.
NoFill(r) ==
    /\ req[r].pc = "fill"
    /\ req' = [req EXCEPT ![r] = NewRequest]
    /\ UNCHANGED <<now, cache, inv, unscanned, found, old>>

-------------------------------------------------------------------------------
(* invalidateCache.  SCAN (external) visits every key that exists throughout  *)
(* the iteration, in some order and in batches of its own choosing.          *)

InvStart ==
    /\ inv = "none"
    /\ inv' = "scanning"
    /\ unscanned' = {KeyOf(sh) : sh \in Shapes}
    /\ old' = {x.key : x \in cache}
    /\ UNCHANGED <<now, cache, req, found>>

InvScan(batch) ==
    /\ inv = "scanning"
    /\ found = {}
    /\ batch # {}
    /\ unscanned' = unscanned \ batch
    /\ found' = {k \in batch : Entries(k) # {}}
    /\ UNCHANGED <<now, cache, req, inv, old>>

InvUnlink ==
    /\ inv = "scanning"
    /\ found # {}
    /\ cache' = {x \in cache : x.key \notin found}
    /\ found' = {}
    /\ old' = old \ found
    /\ UNCHANGED <<now, req, inv, unscanned>>

\* Mutant: one SCAN reply is taken for the whole iteration.
InvDoneAfterOneReply ==
    /\ inv = "scanning"
    /\ found = {}
    /\ unscanned # {KeyOf(sh) : sh \in Shapes}
    /\ inv' = "done"
    /\ UNCHANGED <<now, cache, req, unscanned, found, old>>

\* The cursor is zero again and the last reply is unlinked.
InvDone ==
    /\ inv = "scanning"
    /\ unscanned = {}
    /\ found = {}
    /\ inv' = "done"
    /\ UNCHANGED <<now, cache, req, unscanned, found, old>>

\* Redis fails in the middle: 503, and what was unlinked stays unlinked.
InvFail ==
    /\ inv = "scanning"
    /\ inv' = "failed"
    /\ unscanned' = {} /\ found' = {}
    /\ UNCHANGED <<now, cache, req, old>>

Tick ==
    /\ now < MaxTime
    /\ now' = now + 1
    /\ cache' = {x \in cache : x.expires > now + 1}
    /\ old' = old \cap {x.key : x \in cache'}
    /\ UNCHANGED <<req, inv, unscanned, found>>

Next == \/ \E r \in Requests :
              \/ \E sh \in Shapes, bypass \in BOOLEAN : Arrive(r, sh, bypass)
              \/ Hit(r)
              \/ \E kind \in Kinds : Fetch(r, kind)
              \/ Fill(r) \/ NoFill(r)
        \/ InvStart \/ InvUnlink \/ InvDone \/ InvFail
        \/ \E batch \in SUBSET unscanned : InvScan(batch)
        \/ Tick

Spec == Init /\ [][Next]_vars

-------------------------------------------------------------------------------
\* Type invariant; a key has at most one entry, and no entry outlives the policy's
\* ttl.
TypeOK ==
    /\ now \in 0..MaxTime
    /\ cache \subseteq [key : Keys, shape : Shapes, kind : Kinds,
                        storedAt : 0..MaxTime, expires : Nat]
    /\ \A x, y \in cache : x.key = y.key => x = y
    /\ \A x \in cache : now < x.expires /\ x.expires <= x.storedAt + Ttl
    /\ \A r \in Requests : req[r].pc \in {"new", "lookup", "fill", "done"}
    /\ inv \in {"none", "scanning", "done", "failed"}
    /\ unscanned \subseteq Keys /\ found \subseteq Keys /\ old \subseteq Keys

\* A cached answer is served only while both the policy's ttl and a positive
\* max-age of the upstream last, and one the upstream or the request excludes
\* is never served from the cache.  (no-cache and max-age=0 of an upstream exclude
\* nothing: cacheMaxAge takes them for no max-age at all.)
HitsAreFresh ==
    /\ TypeOK
    /\ \A r \in Requests : req[r].hitKind # "none" =>
           /\ req[r].hitKind # "uncacheable" /\ ~req[r].bypass
           /\ req[r].hitAge < Ttl
           /\ req[r].hitKind = "short" => req[r].hitAge < MaxAge

\* "request/response `Cache-Control` directives are respected"
\* (docs/configuration.md:69): an answer whose upstream said no-cache or max-age=0
\* is not served again from the cache.  cacheMaxAge does not tell max-age=0 from
\* none and nobody looks for no-cache, so it is, for the policy's ttl.
DirectivesAreRespected == \A r \in Requests : req[r].hitKind # "revalidate"

\* "Clear one route or the complete gateway cache" (admin-ui/index.html:140): a
\* completed invalidation leaves no entry from before it began, although gateways
\* keep filling and entries expire while it scans.
InvalidationIsComplete == inv = "done" => old = {}
===============================================================================
