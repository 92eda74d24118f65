-------------------------- MODULE ResponseCacheProofs -------------------------
(***************************************************************************)
(* A hit is fresh, and a completed invalidation leaves nothing old,        *)
(* for every set of requests, principals and methods, every ttl and         *)
(* max-age and every length of run.                                         *)
(***************************************************************************)
EXTENDS ResponseCache, Integers, TLAPS

-------------------------------------------------------------------------------
(* The operators.                                                          *)

\* Keys are sets of request shapes, and a shape is one of those sharing its key.
LEMMA KeyOfFacts ==
    /\ \A sh : KeyOf(sh) \in Keys
    /\ \A sh \in Shapes : sh \in KeyOf(sh)
BY DEF KeyOf, Keys

\* An entry lives for at least a tick, for at most the ttl, and for at most the
\* max-age where the upstream sent one.
LEMMA LifetimeFacts ==
    \A kind : /\ Lifetime(kind) \in Nat \ {0}
              /\ Lifetime(kind) <= Ttl
              /\ kind = "short" => Lifetime(kind) <= MaxAge
BY CacheAssumption DEF Lifetime, MaxAgeOf

-------------------------------------------------------------------------------
(* The inductive invariant.                                                *)

RequestStates == [pc : {"new", "lookup", "fill", "done"},
                  shape : Shapes \cup {NoShape}, bypass : BOOLEAN,
                  kind : Kinds \cup {"none"},
                  hitKind : Kinds \cup {"none"},
                  hitAge : Int]

\* A request that was not answered yet has no hit; while it is forwarded it has
\* a shape, and the answer it waits to store has a kind.
RequestsInv ==
    /\ req \in [Requests -> RequestStates]
    /\ \A r \in Requests :
          /\ req[r].pc # "done" => req[r].hitKind = "none"
          /\ req[r].pc \in {"lookup", "fill"} => req[r].shape \in Shapes
          /\ req[r].pc = "fill" => req[r].kind \in Kinds

\* An entry is under the key of the request it was made for, was allowed in, and
\* expires when its own lifetime ends.
EntriesInv ==
    \A x \in cache : /\ x.key = KeyOf(x.shape)
                     /\ x.kind # "uncacheable"
                     /\ x.expires = x.storedAt + Lifetime(x.kind)

\* An entry from before the invalidation exists, and is yet to be visited or
\* waits to be unlinked.
ScanInv ==
    /\ old \subseteq {x.key : x \in cache}
    /\ inv = "scanning" => old \subseteq unscanned \cup found
    /\ inv = "done" => old = {}

CacheInv == TypeOK /\ RequestsInv /\ EntriesInv /\ ScanInv
            /\ HitsAreFresh

-------------------------------------------------------------------------------
(* The steps of a request.                                                 *)

\* A request that is not answered from the cache changes nothing else.
LEMMA QuietStepKeepsCacheInv ==
    ASSUME CacheInv, NEW r \in Requests, NEW v \in RequestStates,
           v.hitKind = "none",
           v.pc \in {"lookup", "fill"} => v.shape \in Shapes,
           v.pc = "fill" => v.kind \in Kinds,
           req' = [req EXCEPT ![r] = v],
           UNCHANGED <<now, cache, inv, unscanned, found, old>>
    PROVE  CacheInv'
<1>1. TypeOK'
  BY DEF CacheInv, TypeOK, RequestsInv, RequestStates
<1>2. RequestsInv'
  BY DEF CacheInv, RequestsInv
<1>3. HitsAreFresh'
  BY <1>1 DEF CacheInv, RequestsInv, HitsAreFresh
<1>4. EntriesInv' /\ ScanInv'
  BY DEF CacheInv, EntriesInv, ScanInv
<1> QED BY <1>1, <1>2, <1>3, <1>4 DEF CacheInv

\* A blank request is a request.
LEMMA NewRequestFacts ==
    /\ NewRequest \in RequestStates
    /\ NewRequest.pc = "new" /\ NewRequest.hitKind = "none"
BY DEF NewRequest, RequestStates

\* A request arrives with a shape and no hit.
LEMMA ArriveKeepsCacheInv ==
    ASSUME CacheInv, NEW r \in Requests, NEW sh \in Shapes, NEW bypass \in BOOLEAN,
           Arrive(r, sh, bypass)
    PROVE  CacheInv'
<1> DEFINE v == [NewRequest EXCEPT !.pc = "lookup", !.shape = sh, !.bypass = bypass]
<1>1. v \in RequestStates /\ v.hitKind = "none" /\ v.shape \in Shapes /\ v.pc = "lookup"
  BY NewRequestFacts DEF RequestStates
<1>2. req' = [req EXCEPT ![r] = v] /\ UNCHANGED <<now, cache, inv, unscanned, found, old>>
  BY DEF Arrive
<1> HIDE DEF v
<1> QED BY <1>1, <1>2, QuietStepKeepsCacheInv

\* A request that is forwarded keeps its shape and gets an answer of some kind.
LEMMA FetchKeepsCacheInv ==
    ASSUME CacheInv, NEW r \in Requests, NEW kind \in Kinds, Fetch(r, kind)
    PROVE  CacheInv'
<1> DEFINE v == [req[r] EXCEPT !.pc = "fill", !.kind = kind]
<1>1. req[r] \in RequestStates /\ req[r].shape \in Shapes /\ req[r].hitKind = "none"
  BY DEF CacheInv, RequestsInv, Fetch
<1>2. /\ v \in RequestStates /\ v.hitKind = "none" /\ v.shape \in Shapes
      /\ v.kind \in Kinds /\ v.pc = "fill"
  BY <1>1 DEF RequestStates
<1>3. req' = [req EXCEPT ![r] = v] /\ UNCHANGED <<now, cache, inv, unscanned, found, old>>
  BY DEF Fetch
<1> HIDE DEF v
<1> QED BY <1>2, <1>3, QuietStepKeepsCacheInv

\* An answer that is not stored leaves the cache alone.
LEMMA NoFillKeepsCacheInv ==
    ASSUME CacheInv, NEW r \in Requests, NoFill(r)
    PROVE  CacheInv'
BY QuietStepKeepsCacheInv, NewRequestFacts DEF NoFill

\* A hit: the entry is under the request's own key and has not expired.
LEMMA HitKeepsCacheInv ==
    ASSUME CacheInv, NEW r \in Requests, Hit(r)
    PROVE  CacheInv'
<1>1. PICK x \in Entries(KeyOf(req[r].shape)) :
          req' = [req EXCEPT ![r].pc = "done", ![r].hitKind = x.kind,
                             ![r].hitAge = now - x.storedAt]
  BY DEF Hit
<1> DEFINE v == [req[r] EXCEPT !.pc = "done", !.hitKind = x.kind,
                               !.hitAge = now - x.storedAt]
<1>2. x \in cache /\ x.key = KeyOf(req[r].shape)
  BY DEF Entries
<1>3. /\ x.shape \in Shapes /\ x.kind \in Kinds /\ x.storedAt \in 0..MaxTime
      /\ x.expires \in Nat /\ now < x.expires /\ now \in 0..MaxTime
  BY <1>2 DEF CacheInv, TypeOK
<1>4. /\ x.kind # "uncacheable"
      /\ x.expires = x.storedAt + Lifetime(x.kind)
  BY <1>2 DEF CacheInv, EntriesInv
<1>5. req[r] \in RequestStates /\ ~req[r].bypass
  BY DEF CacheInv, RequestsInv, Hit
<1>6. /\ v \in RequestStates /\ v.pc = "done" /\ v.hitKind = x.kind
      /\ v.bypass = req[r].bypass /\ v.hitAge = now - x.storedAt
  <2>1. now - x.storedAt \in Int
    BY <1>3, CacheAssumption
  <2> QED BY <1>3, <1>5, <2>1 DEF RequestStates
<1>7. req' = [req EXCEPT ![r] = v] /\ UNCHANGED <<now, cache, inv, unscanned, found, old>>
  BY <1>1 DEF Hit
<1>8. v.hitAge < Ttl /\ (v.hitKind = "short" => v.hitAge < MaxAge)
  BY <1>3, <1>4, <1>6, LifetimeFacts, CacheAssumption
<1> HIDE DEF v
<1>9. TypeOK'
  BY <1>6, <1>7 DEF CacheInv, TypeOK, RequestsInv, RequestStates
<1>10. RequestsInv'
  BY <1>6, <1>7 DEF CacheInv, RequestsInv
<1>11. HitsAreFresh'
  BY <1>4, <1>5, <1>6, <1>7, <1>8, <1>9 DEF CacheInv, RequestsInv, HitsAreFresh
<1>12. EntriesInv' /\ ScanInv'
  BY <1>7 DEF CacheInv, EntriesInv, ScanInv
<1> QED BY <1>9, <1>10, <1>11, <1>12 DEF CacheInv

\* Storing an answer replaces the entry of its key, which is new from then on.
LEMMA FillKeepsCacheInv ==
    ASSUME CacheInv, NEW r \in Requests, Fill(r)
    PROVE  CacheInv'
<1> DEFINE k == KeyOf(req[r].shape)
           e == [key |-> k, shape |-> req[r].shape, kind |-> req[r].kind,
                 storedAt |-> now, expires |-> now + Lifetime(req[r].kind)]
           EntryStates == [key : Keys, shape : Shapes, kind : Kinds,
                           storedAt : 0..MaxTime, expires : Nat]
<1>1. /\ req[r] \in RequestStates /\ req[r].shape \in Shapes /\ req[r].kind \in Kinds
      /\ req[r].kind # "uncacheable"
  BY DEF CacheInv, RequestsInv, Fill, Cacheable
<1>2. /\ req' = [req EXCEPT ![r] = NewRequest]
      /\ cache' = {x \in cache : x.key # k} \cup {e}
      /\ old' = old \ {k}
      /\ UNCHANGED <<now, inv, unscanned, found>>
  BY DEF Fill, Entries
<1>3. /\ e \in EntryStates /\ e.key = KeyOf(e.shape) /\ e.key = k
      /\ e.kind # "uncacheable" /\ e.expires = e.storedAt + Lifetime(e.kind)
      /\ now < e.expires /\ e.expires <= e.storedAt + Ttl
  <2>1. now \in 0..MaxTime /\ k \in Keys
    BY KeyOfFacts DEF CacheInv, TypeOK
  <2> QED BY <1>1, <2>1, LifetimeFacts, CacheAssumption
<1> HIDE DEF e, k
<1>4. TypeOK'
  <2>1. cache' \subseteq EntryStates
    BY <1>2, <1>3 DEF CacheInv, TypeOK
  <2>2. \A x, y \in cache' : x.key = y.key => x = y
    BY <1>2, <1>3 DEF CacheInv, TypeOK
  <2>3. \A x \in cache' : now < x.expires /\ x.expires <= x.storedAt + Ttl
    BY <1>2, <1>3 DEF CacheInv, TypeOK
  <2>4. \A s \in Requests : req'[s].pc \in {"new", "lookup", "fill", "done"}
    BY <1>2, NewRequestFacts DEF CacheInv, TypeOK, RequestsInv
  <2> QED BY <1>2, <2>1, <2>2, <2>3, <2>4 DEF CacheInv, TypeOK
<1>5. RequestsInv'
  BY <1>2, NewRequestFacts DEF CacheInv, RequestsInv
<1>6. EntriesInv'
  BY <1>2, <1>3 DEF CacheInv, EntriesInv
<1>7. ScanInv'
  BY <1>2, <1>3 DEF CacheInv, ScanInv
<1>8. HitsAreFresh'
  BY <1>2, <1>4, NewRequestFacts DEF CacheInv, RequestsInv, HitsAreFresh
<1> QED BY <1>4, <1>5, <1>6, <1>7, <1>8 DEF CacheInv

-------------------------------------------------------------------------------
(* The invalidation and the clock.                                         *)

\* Losing entries keeps what is said of each entry, and of each hit.
LEMMA FewerEntries ==
    ASSUME CacheInv, cache' \subseteq cache, UNCHANGED <<now, req>>,
           inv' \in {"none", "scanning", "done", "failed"},
           unscanned' \subseteq Keys, found' \subseteq Keys, old' \subseteq Keys,
           ScanInv'
    PROVE  CacheInv'
<1>1. TypeOK'
  BY DEF CacheInv, TypeOK
<1>2. EntriesInv' /\ RequestsInv'
  BY DEF CacheInv, EntriesInv, RequestsInv
<1>3. HitsAreFresh'
  BY <1>1 DEF CacheInv, HitsAreFresh
<1> QED BY <1>1, <1>2, <1>3 DEF CacheInv

\* The invalidation starts: every entry there is counts as old, and every key is
\* yet to be visited.
LEMMA InvStartKeepsCacheInv ==
    ASSUME CacheInv, InvStart
    PROVE  CacheInv'
<1>1. \A x \in cache : x.key \in Keys /\ x.shape \in Shapes /\ x.key = KeyOf(x.shape)
  BY DEF CacheInv, TypeOK, EntriesInv
<1>2. old' \subseteq Keys /\ old' \subseteq unscanned' /\ unscanned' \subseteq Keys
  BY <1>1, KeyOfFacts DEF InvStart
<1>3. ScanInv'
  BY <1>2 DEF InvStart, ScanInv
<1> QED BY <1>2, <1>3, FewerEntries DEF InvStart, CacheInv, TypeOK

\* A reply names the visited keys that have an entry, old ones included.
LEMMA InvScanKeepsCacheInv ==
    ASSUME CacheInv, NEW batch \in SUBSET unscanned, InvScan(batch)
    PROVE  CacheInv'
<1>1. ScanInv'
  BY DEF InvScan, ScanInv, Entries, CacheInv
<1> QED BY <1>1, FewerEntries DEF InvScan, CacheInv, TypeOK

\* UNLINK removes the entries of the last reply.
LEMMA InvUnlinkKeepsCacheInv ==
    ASSUME CacheInv, InvUnlink
    PROVE  CacheInv'
<1>1. ScanInv'
  BY DEF InvUnlink, ScanInv, CacheInv
<1> QED BY <1>1, FewerEntries DEF InvUnlink, CacheInv, TypeOK

\* The invalidation ends, in success only with every key visited and unlinked.
LEMMA InvEndKeepsCacheInv ==
    ASSUME CacheInv, InvDone \/ InvFail
    PROVE  CacheInv'
<1>1. CASE InvDone
  <2>1. ScanInv'
    BY <1>1 DEF InvDone, ScanInv, CacheInv
  <2> QED BY <1>1, <2>1, FewerEntries DEF InvDone, CacheInv, TypeOK
<1>2. CASE InvFail
  <2>1. ScanInv'
    BY <1>2 DEF InvFail, ScanInv, CacheInv
  <2> QED BY <1>2, <2>1, FewerEntries DEF InvFail, CacheInv, TypeOK
<1> QED BY <1>1, <1>2

\* A tick removes the expired entries, old or not.
LEMMA TickKeepsCacheInv ==
    ASSUME CacheInv, Tick
    PROVE  CacheInv'
<1>1. /\ now' = now + 1 /\ now' \in 0..MaxTime
      /\ cache' = {x \in cache : x.expires > now + 1}
      /\ UNCHANGED <<req, inv, unscanned, found>>
  BY CacheAssumption DEF Tick, CacheInv, TypeOK
<1>2. TypeOK'
  <2>1. cache' \subseteq cache /\ \A x \in cache' : now' < x.expires
    BY <1>1, CacheAssumption DEF CacheInv, TypeOK
  <2>2. old' \subseteq Keys
    BY DEF Tick, CacheInv, TypeOK
  <2> QED BY <1>1, <2>1, <2>2 DEF CacheInv, TypeOK
<1>3. EntriesInv' /\ RequestsInv'
  BY <1>1 DEF CacheInv, EntriesInv, RequestsInv
<1>4. HitsAreFresh'
  BY <1>1, <1>2 DEF CacheInv, HitsAreFresh
<1>5. ScanInv'
  BY DEF CacheInv, ScanInv, Tick
<1> QED BY <1>2, <1>3, <1>4, <1>5 DEF CacheInv

-------------------------------------------------------------------------------
(* The results.                                                            *)

\* The inductive invariant holds in every state of every run.
THEOREM CacheInvHolds == Spec => []CacheInv
<1>1. Init => CacheInv
  <2> SUFFICES ASSUME Init PROVE CacheInv
    OBVIOUS
  <2>1. RequestsInv
    BY NewRequestFacts DEF Init, RequestsInv
  <2>2. TypeOK
    BY <2>1, CacheAssumption DEF Init, TypeOK, RequestsInv, RequestStates
  <2>3. HitsAreFresh
    BY <2>2, NewRequestFacts DEF Init, HitsAreFresh
  <2> QED BY <2>1, <2>2, <2>3 DEF Init, CacheInv, EntriesInv, ScanInv
<1>2. CacheInv /\ [Next]_vars => CacheInv'
  <2> SUFFICES ASSUME CacheInv, [Next]_vars PROVE CacheInv'
    OBVIOUS
  <2>1. ASSUME NEW r \in Requests, NEW sh \in Shapes, NEW bypass \in BOOLEAN,
               Arrive(r, sh, bypass)
        PROVE  CacheInv'
    BY <2>1, ArriveKeepsCacheInv
  <2>2. ASSUME NEW r \in Requests, Hit(r) PROVE CacheInv'
    BY <2>2, HitKeepsCacheInv
  <2>3. ASSUME NEW r \in Requests, NEW kind \in Kinds, Fetch(r, kind) PROVE CacheInv'
    BY <2>3, FetchKeepsCacheInv
  <2>4. ASSUME NEW r \in Requests, Fill(r) PROVE CacheInv'
    BY <2>4, FillKeepsCacheInv
  <2>5. ASSUME NEW r \in Requests, NoFill(r) PROVE CacheInv'
    BY <2>5, NoFillKeepsCacheInv
  <2>6. CASE InvStart
    BY <2>6, InvStartKeepsCacheInv
  <2>7. CASE InvUnlink
    BY <2>7, InvUnlinkKeepsCacheInv
  <2>8. CASE InvDone \/ InvFail
    BY <2>8, InvEndKeepsCacheInv
  <2>9. ASSUME NEW batch \in SUBSET unscanned, InvScan(batch) PROVE CacheInv'
    BY <2>9, InvScanKeepsCacheInv
  <2>10. CASE Tick
    BY <2>10, TickKeepsCacheInv
  <2>11. CASE UNCHANGED vars
    BY <2>11 DEF vars, CacheInv, TypeOK, RequestsInv, EntriesInv, ScanInv,
                 HitsAreFresh
  <2> QED BY <2>1, <2>2, <2>3, <2>4, <2>5, <2>6, <2>7, <2>8, <2>9, <2>10, <2>11 DEF Next
<1> QED BY <1>1, <1>2, PTL DEF Spec

\* HitsAreFresh: what serveCached answers with is younger than the policy's ttl and
\* than the upstream's max-age, and was storable in the first place.
THEOREM HitsAreNeverStale == Spec => []HitsAreFresh
<1>1. CacheInv => HitsAreFresh
  BY DEF CacheInv
<1> QED BY <1>1, CacheInvHolds, PTL

\* InvalidationIsComplete: when invalidateCache reports success nothing stored before
\* it began is left, in whatever batches SCAN replied and whatever gateways stored
\* or Redis expired meanwhile.
THEOREM InvalidationLeavesNothingOld == Spec => []InvalidationIsComplete
<1>1. CacheInv => InvalidationIsComplete
  BY DEF CacheInv, ScanInv, InvalidationIsComplete
<1> QED BY <1>1, CacheInvHolds, PTL
===============================================================================
