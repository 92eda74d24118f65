---------------------------- MODULE DataPlaneProofs ---------------------------
(***************************************************************************)
(* The request pipeline, for any number of requests, endpoints, retries,   *)
(* slots and snapshots: the semaphore is exact, requests are sent no more   *)
(* often than allowed, responses are closed, a steady endpoint is found and *)
(* refusals have a cause.                                                  *)
(***************************************************************************)
EXTENDS DataPlane, Integers, FiniteSetTheorems, TLAPS

-------------------------------------------------------------------------------
(* The round-robin scan.                                                   *)

\* A position of the scan is an endpoint.
LEMMA ModIsEndpoint == \A n \in Nat : n % Count \in Endpoints
BY PoolAssumption DEF Endpoints

\* Count steps from any endpoint on meet every endpoint.
LEMMA ScanMeetsAll ==
    ASSUME NEW start \in Endpoints, NEW e \in Endpoints
    PROVE  \E i \in 0 .. Count - 1 : (start + i) % Count = e
<1>1. Count \in Nat \ {0} /\ start \in 0 .. Count - 1 /\ e \in 0 .. Count - 1
  BY PoolAssumption DEF Endpoints
<1>2. CASE start <= e
  <2>1. e - start \in 0 .. Count - 1 /\ start + (e - start) = e
    BY <1>1, <1>2
  <2>2. e % Count = e
    BY <1>1
  <2> QED BY <2>1, <2>2
<1>3. CASE e < start
  <2>1. e - start + Count \in 0 .. Count - 1 /\ start + (e - start + Count) = e + Count
    BY <1>1, <1>3
  <2>2. (e + Count) % Count = e
    BY <1>1
  <2> QED BY <2>1, <2>2
<1> QED BY <1>1, <1>2, <1>3

-------------------------------------------------------------------------------
(* The inductive invariant.                                                *)

Outcomes == {"none", "refused", "policy", "noHealthy", "badGateway", "served"}

RequestType ==
    [pc : {"new", "routed", "admitted", "pick", "probe", "picked", "inflight", "respond", "done"},
     snap : Snapshots \cup {0}, attempt : Nat, start : Endpoints, offset : 0..Count,
     endpoint : Endpoints, counted : BOOLEAN, expired : BOOLEAN, steady : SUBSET Endpoints,
     calls : Nat, bodies : Nat, outcome : Outcomes]

HoldingPcs == {"admitted", "pick", "probe", "picked", "inflight", "respond"}

\* Attempts are counted before they are made, and never beyond those allowed.
AttemptsOK(r, q) ==
    /\ q.attempt <= Attempts(r)
    /\ q.calls <= q.attempt
    /\ q.pc \in {"new", "routed", "admitted"} => q.attempt = 0
    /\ q.pc \in {"pick", "probe", "picked"} => q.calls < q.attempt

\* An endpoint that a request passed over failed a check itself, or the snapshot
\* was replaced.
Excused(s, e) == refuted[s][e] \/ s < current

\* The endpoints passed over were unhealthy once since the scan began; those that
\* were healthy all the time still are.
ScanOK(q) ==
    q.pc = "probe" =>
        /\ \A i \in 0 .. Count - 1 : i < q.offset =>
              LET e == (q.start + i) % Count IN e \notin q.steady /\ Excused(q.snap, e)
        /\ \A e \in q.steady : healthy[q.snap][e]

RequestOK(r, q) ==
    /\ q \in RequestType
    /\ q.pc # "new" => q.snap \in Snapshots
    /\ AttemptsOK(r, q)
    /\ q.bodies = IF q.pc = "respond" THEN 1 ELSE 0
    /\ ScanOK(q)
    /\ q.outcome = "noHealthy" => q.pc = "done" /\ \A e \in Endpoints : Excused(q.snap, e)

RequestsInv ==
    /\ req \in [Requests -> RequestType]
    /\ \A r \in Requests : RequestOK(r, req[r])

\* Only replaced snapshots are cancelled, and a flag is down for a reason.
HealthInv ==
    /\ \A s \in cancelled : s < current
    /\ \A s \in Snapshots, e \in Endpoints : ~healthy[s][e] => refuted[s][e] \/ s \in cancelled

PlaneType ==
    /\ current \in Snapshots
    /\ cancelled \subseteq Snapshots
    /\ healthy \in [Snapshots -> [Endpoints -> BOOLEAN]]
    /\ checker \in [Snapshots -> [Endpoints -> {"none", "waiting", "checking", "stopped"}]]
    /\ refuted \in [Snapshots -> [Endpoints -> BOOLEAN]]
    /\ breaker \in [Snapshots -> [Endpoints -> Breaker]]
    /\ next \in [Snapshots -> Endpoints]

SlotsInv ==
    /\ slots \in [Snapshots -> 0..Concurrency]
    /\ Concurrency > 0 => \A s \in Snapshots : slots[s] = Cardinality(Holders(s))

PlaneInv == PlaneType /\ HealthInv /\ RequestsInv /\ SlotsInv

-------------------------------------------------------------------------------
(* The semaphore.                                                          *)

\* Holders are the requests whose program counter is between acquire and release.
LEMMA HoldersByPc ==
    \A s : Holders(s) = {r \in Requests : req[r].pc \in HoldingPcs /\ req[r].snap = s}
BY DEF Holders, Holding, HoldingPcs

\* They are finitely many.
LEMMA HoldersFinite ==
    \A s : IsFiniteSet(Holders(s)) /\ Cardinality(Holders(s)) \in Nat
BY PoolAssumption, FS_Subset, FS_CardinalityType DEF Holders

\* A step of one request keeps the semaphore exact if it takes a free slot when it
\* begins to hold one, and gives it back when it ceases to.
LEMMA SlotsStep ==
    ASSUME SlotsInv, NEW r \in Requests,
           \A k \in Requests \ {r} : req'[k].pc = req[k].pc /\ req'[k].snap = req[k].snap,
           LET was == req[r].pc \in HoldingPcs
               is  == req'[r].pc \in HoldingPcs
           IN  \/ ~was /\ ~is /\ slots' = slots
               \/ was /\ is /\ req'[r].snap = req[r].snap /\ slots' = slots
               \/ /\ ~was /\ is /\ req'[r].snap = req[r].snap /\ req[r].snap \in Snapshots
                  /\ ~Full(req[r].snap)
                  /\ slots' = IF Concurrency = 0 THEN slots ELSE [slots EXCEPT ![req[r].snap] = @ + 1]
               \/ /\ was /\ ~is /\ req[r].snap \in Snapshots
                  /\ slots' = IF Concurrency = 0 THEN slots ELSE [slots EXCEPT ![req[r].snap] = @ - 1]
    PROVE  SlotsInv'
<1> DEFINE s0 == req[r].snap
<1>1. /\ Concurrency \in Nat /\ slots \in [Snapshots -> 0..Concurrency]
      /\ \A s \in Snapshots : Cardinality(Holders(s)) \in Nat
  BY PoolAssumption, HoldersFinite DEF SlotsInv
<1>2. \A s : Holders(s)' = {k \in Requests : req'[k].pc \in HoldingPcs /\ req'[k].snap = s}
  BY DEF Holders, Holding, HoldingPcs
<1>3. CASE /\ slots' = slots
           /\ \/ req[r].pc \notin HoldingPcs /\ req'[r].pc \notin HoldingPcs
              \/ /\ req[r].pc \in HoldingPcs /\ req'[r].pc \in HoldingPcs
                 /\ req'[r].snap = req[r].snap
  <2>1. \A s : Holders(s)' = Holders(s)
    BY <1>2, <1>3, HoldersByPc
  <2> QED BY <1>3, <2>1 DEF SlotsInv
<1>4. CASE /\ req[r].pc \notin HoldingPcs /\ req'[r].pc \in HoldingPcs /\ req'[r].snap = s0
           /\ s0 \in Snapshots /\ ~Full(s0)
           /\ slots' = IF Concurrency = 0 THEN slots ELSE [slots EXCEPT ![s0] = @ + 1]
  <2>1. \A s : Holders(s)' = IF s = s0 THEN Holders(s) \cup {r} ELSE Holders(s)
    BY <1>2, <1>4, HoldersByPc
  <2>2. r \notin Holders(s0)
    BY <1>4, HoldersByPc
  <2>3. Cardinality(Holders(s0) \cup {r}) = Cardinality(Holders(s0)) + 1
    BY <2>2, HoldersFinite, FS_AddElement
  <2>4. CASE Concurrency = 0
    BY <1>1, <1>4, <2>4 DEF SlotsInv
  <2>5. CASE Concurrency > 0
    <3>1. slots[s0] \in 0..Concurrency /\ slots[s0] < Concurrency
      BY <1>1, <1>4, <2>5 DEF Full
    <3>2. slots' = [slots EXCEPT ![s0] = slots[s0] + 1] /\ slots[s0] + 1 \in 0..Concurrency
      BY <1>1, <1>4, <2>5, <3>1
    <3>3. slots' \in [Snapshots -> 0..Concurrency]
      BY <1>1, <3>2
    <3>4. ASSUME NEW s \in Snapshots PROVE slots'[s] = Cardinality(Holders(s)')
      <4>1. CASE s = s0
        BY <1>1, <2>1, <2>3, <2>5, <3>2, <4>1 DEF SlotsInv
      <4>2. CASE s # s0
        BY <1>1, <2>1, <2>5, <3>2, <4>2 DEF SlotsInv
      <4> QED BY <4>1, <4>2
    <3> QED BY <3>3, <3>4 DEF SlotsInv
  <2> QED BY <1>1, <2>4, <2>5
<1>5. CASE /\ req[r].pc \in HoldingPcs /\ req'[r].pc \notin HoldingPcs /\ s0 \in Snapshots
           /\ slots' = IF Concurrency = 0 THEN slots ELSE [slots EXCEPT ![s0] = @ - 1]
  <2>1. \A s : Holders(s)' = IF s = s0 THEN Holders(s) \ {r} ELSE Holders(s)
    BY <1>2, <1>5, HoldersByPc
  <2>2. r \in Holders(s0)
    BY <1>5, HoldersByPc
  <2>3. Cardinality(Holders(s0) \ {r}) = Cardinality(Holders(s0)) - 1
    BY <2>2, HoldersFinite, FS_RemoveElement
  <2>4. CASE Concurrency = 0
    BY <1>1, <1>5, <2>4 DEF SlotsInv
  <2>5. CASE Concurrency > 0
    <3>1. Cardinality(Holders(s0) \ {r}) \in Nat
      BY HoldersFinite, FS_RemoveElement, FS_CardinalityType
    <3>2. slots[s0] = Cardinality(Holders(s0)) /\ slots[s0] - 1 \in 0..Concurrency
      BY <1>1, <1>5, <2>3, <2>5, <3>1 DEF SlotsInv
    <3>3. slots' = [slots EXCEPT ![s0] = slots[s0] - 1]
      BY <1>1, <1>5, <2>5
    <3>4. slots' \in [Snapshots -> 0..Concurrency]
      BY <1>1, <3>2, <3>3
    <3>5. ASSUME NEW s \in Snapshots PROVE slots'[s] = Cardinality(Holders(s)')
      <4>1. CASE s = s0
        BY <1>1, <2>1, <2>3, <3>2, <3>3, <4>1 DEF SlotsInv
      <4>2. CASE s # s0
        BY <1>1, <2>1, <2>5, <3>3, <4>2 DEF SlotsInv
      <4> QED BY <4>1, <4>2
    <3> QED BY <3>4, <3>5 DEF SlotsInv
  <2> QED BY <1>1, <2>4, <2>5
<1> QED BY <1>3, <1>4, <1>5

\* The semaphore stays exact where no request moves.
LEMMA SlotsUntouched ==
    ASSUME SlotsInv, slots' = slots,
           \A k \in Requests : req'[k].pc = req[k].pc /\ req'[k].snap = req[k].snap
    PROVE  SlotsInv'
<1>1. \A s : Holders(s)' = Holders(s)
  BY DEF Holders, Holding
<1> QED BY <1>1 DEF SlotsInv

-------------------------------------------------------------------------------
(* Requests.                                                               *)

\* Whether the breaker counts a call is of no concern to the request.
LEMMA UncountedIsOK ==
    ASSUME NEW r, NEW q, RequestOK(r, q)
    PROVE  /\ RequestOK(r, [q EXCEPT !.counted = FALSE])
           /\ [q EXCEPT !.counted = FALSE].pc = q.pc
           /\ [q EXCEPT !.counted = FALSE].snap = q.snap
<1> DEFINE w == [q EXCEPT !.counted = FALSE]
<1>1. q \in RequestType
  BY DEF RequestOK
<1>2. /\ w \in RequestType /\ w.pc = q.pc /\ w.snap = q.snap /\ w.attempt = q.attempt
      /\ w.start = q.start /\ w.offset = q.offset /\ w.steady = q.steady
      /\ w.calls = q.calls /\ w.bodies = q.bodies /\ w.outcome = q.outcome
  BY <1>1 DEF RequestType
<1> HIDE DEF w
<1>3. RequestOK(r, w)
  BY <1>2 DEF RequestOK, AttemptsOK, ScanOK
<1> QED BY <1>2, <1>3 DEF w

\* A step of one request that leaves health alone: the others are at most uncounted
\* by a breaker that changed its state.
LEMMA RequestStep ==
    ASSUME PlaneInv, NEW r \in Requests, NEW v, RequestOK(r, v),
           req' = [k \in Requests |-> req'[k]],
           \A k \in Requests : LET q == IF k = r THEN v ELSE req[k]
                               IN  req'[k] = q \/ req'[k] = [q EXCEPT !.counted = FALSE],
           UNCHANGED <<current, cancelled, healthy, checker, refuted>>,
           breaker' \in [Snapshots -> [Endpoints -> Breaker]],
           next' \in [Snapshots -> Endpoints],
           LET was == req[r].pc \in HoldingPcs
               is  == v.pc \in HoldingPcs
           IN  \/ ~was /\ ~is /\ slots' = slots
               \/ was /\ is /\ v.snap = req[r].snap /\ slots' = slots
               \/ /\ ~was /\ is /\ v.snap = req[r].snap /\ req[r].snap \in Snapshots
                  /\ ~Full(req[r].snap)
                  /\ slots' = IF Concurrency = 0 THEN slots ELSE [slots EXCEPT ![req[r].snap] = @ + 1]
               \/ /\ was /\ ~is /\ req[r].snap \in Snapshots
                  /\ slots' = IF Concurrency = 0 THEN slots ELSE [slots EXCEPT ![req[r].snap] = @ - 1]
    PROVE  PlaneInv'
<1>1. PlaneType' /\ HealthInv'
  BY DEF PlaneInv, PlaneType, HealthInv
<1>2. ASSUME NEW k \in Requests
      PROVE  /\ RequestOK(k, req'[k])
             /\ k = r => req'[k].pc = v.pc /\ req'[k].snap = v.snap
             /\ k # r => req'[k].pc = req[k].pc /\ req'[k].snap = req[k].snap
  <2>1. CASE k = r
    <3>1. req'[k] = v \/ req'[k] = [v EXCEPT !.counted = FALSE]
      BY <2>1
    <3>2. /\ RequestOK(r, [v EXCEPT !.counted = FALSE])
          /\ [v EXCEPT !.counted = FALSE].pc = v.pc /\ [v EXCEPT !.counted = FALSE].snap = v.snap
      BY UncountedIsOK
    <3> QED BY <2>1, <3>1, <3>2, Zenon
  <2>2. CASE k # r
    <3>1. req'[k] = req[k] \/ req'[k] = [req[k] EXCEPT !.counted = FALSE]
      BY <2>2
    <3>2. RequestOK(k, req[k])
      BY DEF PlaneInv, RequestsInv
    <3>3. /\ RequestOK(k, [req[k] EXCEPT !.counted = FALSE])
          /\ [req[k] EXCEPT !.counted = FALSE].pc = req[k].pc
          /\ [req[k] EXCEPT !.counted = FALSE].snap = req[k].snap
      BY <3>2, UncountedIsOK
    <3> QED BY <2>2, <3>1, <3>2, <3>3, Zenon
  <2> QED BY <2>1, <2>2
<1>3. RequestsInv'
  <2>1. req' \in [Requests -> RequestType]
    BY <1>2 DEF RequestOK
  <2>2. ASSUME NEW k \in Requests PROVE RequestOK(k, req[k])'
    <3>1. RequestOK(k, req'[k])
      BY <1>2
    <3> QED BY <3>1 DEF RequestOK, AttemptsOK, ScanOK, Excused
  <2> QED BY <2>1, <2>2 DEF RequestsInv
<1>4. SlotsInv'
  BY <1>2, SlotsStep DEF PlaneInv
<1> QED BY <1>1, <1>3, <1>4 DEF PlaneInv

\* The same where no breaker is involved.
LEMMA PlainStep ==
    ASSUME PlaneInv, NEW r \in Requests, NEW v, RequestOK(r, v), Set(r, v),
           UNCHANGED <<current, cancelled, healthy, checker, refuted, breaker>>,
           next' \in [Snapshots -> Endpoints],
           LET was == req[r].pc \in HoldingPcs
               is  == v.pc \in HoldingPcs
           IN  \/ ~was /\ ~is /\ slots' = slots
               \/ was /\ is /\ v.snap = req[r].snap /\ slots' = slots
               \/ /\ ~was /\ is /\ v.snap = req[r].snap /\ req[r].snap \in Snapshots
                  /\ ~Full(req[r].snap)
                  /\ slots' = IF Concurrency = 0 THEN slots ELSE [slots EXCEPT ![req[r].snap] = @ + 1]
               \/ /\ was /\ ~is /\ req[r].snap \in Snapshots
                  /\ slots' = IF Concurrency = 0 THEN slots ELSE [slots EXCEPT ![req[r].snap] = @ - 1]
    PROVE  PlaneInv'
<1>1. req \in [Requests -> RequestType] /\ req' = [req EXCEPT ![r] = v]
  BY DEF PlaneInv, RequestsInv, Set
<1>2. req' = [k \in Requests |-> req'[k]]
  BY <1>1
<1>3. \A k \in Requests : req'[k] = IF k = r THEN v ELSE req[k]
  BY <1>1
<1>4. breaker' \in [Snapshots -> [Endpoints -> Breaker]]
  BY DEF PlaneInv, PlaneType
<1> QED BY <1>2, <1>3, <1>4, RequestStep

\* What the invariant says of one request and of the counter.
LEMMA RequestFacts ==
    ASSUME PlaneInv, NEW r \in Requests
    PROVE  /\ req[r] \in RequestType /\ RequestOK(r, req[r])
           /\ req[r].pc # "new" => req[r].snap \in Snapshots
           /\ Attempts(r) \in Nat \ {0}
           /\ next \in [Snapshots -> Endpoints]
BY PoolAssumption DEF PlaneInv, RequestsInv, RequestOK, Attempts, PlaneType

\* An answer with any outcome but "no healthy upstream" keeps a request in order.
LEMMA AnsweredIsOK ==
    ASSUME PlaneInv, NEW r \in Requests, NEW how \in Outcomes, req[r].pc # "new",
           req[r].pc # "respond",
           how = "noHealthy" => \A e \in Endpoints : Excused(req[r].snap, e)
    PROVE  RequestOK(r, Answered(r, how)) /\ Answered(r, how).pc = "done"
<1> DEFINE v == [req[r] EXCEPT !.pc = "done", !.outcome = how, !.steady = {}]
<1>1. req[r] \in RequestType /\ RequestOK(r, req[r]) /\ v = Answered(r, how)
  BY RequestFacts DEF Answered
<1>2. /\ v \in RequestType /\ v.pc = "done" /\ v.snap = req[r].snap /\ v.attempt = req[r].attempt
      /\ v.calls = req[r].calls /\ v.bodies = req[r].bodies /\ v.outcome = how
  BY <1>1 DEF RequestType, Outcomes
<1> HIDE DEF v
<1>3. RequestOK(r, v)
  BY <1>1, <1>2 DEF RequestOK, AttemptsOK, ScanOK
<1> QED BY <1>1, <1>2, <1>3

\* A request that holds a slot and leaves with an answer gives the slot back.
LEMMA LeaveKeeps ==
    ASSUME PlaneInv, NEW r \in Requests, NEW how \in Outcomes, Leave(r, how),
           req[r].pc \in HoldingPcs, req[r].pc # "respond",
           how = "noHealthy" => \A e \in Endpoints : Excused(req[r].snap, e),
           UNCHANGED <<current, cancelled, healthy, checker, refuted, breaker, next>>
    PROVE  PlaneInv'
<1>1. req[r].pc # "new" /\ req[r].snap \in Snapshots /\ next' \in [Snapshots -> Endpoints]
  BY RequestFacts DEF HoldingPcs
<1>2. RequestOK(r, Answered(r, how)) /\ Answered(r, how).pc = "done"
  BY <1>1, AnsweredIsOK
<1>3. /\ Set(r, Answered(r, how))
      /\ slots' = IF Concurrency = 0 THEN slots ELSE [slots EXCEPT ![req[r].snap] = @ - 1]
  BY DEF Leave, SlotsAfter
<1>4. Answered(r, how).pc \notin HoldingPcs
  BY <1>2 DEF HoldingPcs
<1> QED BY <1>1, <1>2, <1>3, <1>4, PlainStep

-------------------------------------------------------------------------------
(* The steps of a request up to the decision to forward.                   *)

\* Routing takes the current snapshot.
LEMMA RouteKeeps ==
    ASSUME PlaneInv, NEW r \in Requests, Route(r)
    PROVE  PlaneInv'
<1> DEFINE v == [req[r] EXCEPT !.pc = "routed", !.snap = current]
<1>1. /\ req[r] \in RequestType /\ RequestOK(r, req[r]) /\ next' \in [Snapshots -> Endpoints]
      /\ current \in Snapshots /\ req[r].pc = "new"
  BY RequestFacts DEF Route, PlaneInv, PlaneType
<1>2. /\ v \in RequestType /\ v.pc = "routed" /\ v.snap = current /\ v.attempt = req[r].attempt
      /\ v.calls = req[r].calls /\ v.bodies = req[r].bodies /\ v.outcome = req[r].outcome
  BY <1>1 DEF RequestType
<1>3. /\ Set(r, v) /\ slots' = slots
      /\ UNCHANGED <<current, cancelled, healthy, checker, refuted, breaker>>
  BY DEF Route
<1> HIDE DEF v
<1>4. RequestOK(r, v)
  BY <1>1, <1>2 DEF RequestOK, AttemptsOK, ScanOK, Excused
<1>5. req[r].pc \notin HoldingPcs /\ v.pc \notin HoldingPcs
  BY <1>1, <1>2 DEF HoldingPcs
<1> QED BY <1>1, <1>3, <1>4, <1>5, PlainStep

\* A refused request never had a slot.
LEMMA RefuseKeeps ==
    ASSUME PlaneInv, NEW r \in Requests, Refuse(r)
    PROVE  PlaneInv'
<1>1. /\ req[r].pc = "routed" /\ next' \in [Snapshots -> Endpoints]
      /\ Set(r, Answered(r, "refused")) /\ slots' = slots
      /\ UNCHANGED <<current, cancelled, healthy, checker, refuted, breaker>>
  BY RequestFacts DEF Refuse
<1>2. RequestOK(r, Answered(r, "refused")) /\ Answered(r, "refused").pc = "done"
  BY <1>1, AnsweredIsOK DEF Outcomes
<1>3. req[r].pc \notin HoldingPcs /\ Answered(r, "refused").pc \notin HoldingPcs
  BY <1>1, <1>2 DEF HoldingPcs
<1> QED BY <1>1, <1>2, <1>3, PlainStep

\* Admission takes a slot that is free.
LEMMA AdmitKeeps ==
    ASSUME PlaneInv, NEW r \in Requests, Admit(r)
    PROVE  PlaneInv'
<1> DEFINE v == [req[r] EXCEPT !.pc = "admitted"]
<1>1. /\ req[r] \in RequestType /\ RequestOK(r, req[r]) /\ next' \in [Snapshots -> Endpoints]
      /\ req[r].pc = "routed" /\ req[r].snap \in Snapshots
  BY RequestFacts DEF Admit
<1>2. /\ v \in RequestType /\ v.pc = "admitted" /\ v.snap = req[r].snap /\ v.attempt = req[r].attempt
      /\ v.calls = req[r].calls /\ v.bodies = req[r].bodies /\ v.outcome = req[r].outcome
  BY <1>1 DEF RequestType
<1>3. /\ Set(r, v) /\ ~Full(req[r].snap)
      /\ slots' = IF Concurrency = 0 THEN slots ELSE [slots EXCEPT ![req[r].snap] = @ + 1]
      /\ UNCHANGED <<current, cancelled, healthy, checker, refuted, breaker>>
  BY DEF Admit
<1> HIDE DEF v
<1>4. RequestOK(r, v)
  BY <1>1, <1>2 DEF RequestOK, AttemptsOK, ScanOK
<1>5. req[r].pc \notin HoldingPcs /\ v.pc \in HoldingPcs
  BY <1>1, <1>2 DEF HoldingPcs
<1> QED BY <1>1, <1>2, <1>3, <1>4, <1>5, PlainStep

\* A policy answers.
LEMMA PolicyAnswersKeeps ==
    ASSUME PlaneInv, NEW r \in Requests, PolicyAnswers(r)
    PROVE  PlaneInv'
<1>1. /\ req[r].pc \in HoldingPcs /\ req[r].pc # "respond" /\ Leave(r, "policy")
      /\ UNCHANGED <<current, cancelled, healthy, checker, refuted, breaker, next>>
  BY DEF PolicyAnswers, HoldingPcs
<1> QED BY <1>1, LeaveKeeps DEF Outcomes

\* The first attempt begins.
LEMMA ForwardKeeps ==
    ASSUME PlaneInv, NEW r \in Requests, Forward(r)
    PROVE  PlaneInv'
<1> DEFINE v == [req[r] EXCEPT !.pc = "pick", !.attempt = 1]
<1>1. /\ req[r] \in RequestType /\ RequestOK(r, req[r]) /\ next' \in [Snapshots -> Endpoints]
      /\ req[r].pc = "admitted" /\ Attempts(r) \in Nat \ {0}
  BY RequestFacts DEF Forward
<1>2. /\ v \in RequestType /\ v.pc = "pick" /\ v.snap = req[r].snap /\ v.attempt = 1
      /\ v.calls = req[r].calls /\ v.bodies = req[r].bodies /\ v.outcome = req[r].outcome
  BY <1>1 DEF RequestType
<1>3. /\ Set(r, v) /\ slots' = slots
      /\ UNCHANGED <<current, cancelled, healthy, checker, refuted, breaker>>
  BY DEF Forward
<1> HIDE DEF v
<1>4. req[r].attempt = 0 /\ req[r].calls <= 0 /\ req[r].calls \in Nat
  BY <1>1 DEF RequestOK, AttemptsOK, RequestType
<1>5. RequestOK(r, v)
  BY <1>1, <1>2, <1>4 DEF RequestOK, AttemptsOK, ScanOK
<1>6. req[r].pc \in HoldingPcs /\ v.pc \in HoldingPcs
  BY <1>1, <1>2 DEF HoldingPcs
<1> QED BY <1>1, <1>2, <1>3, <1>5, <1>6, PlainStep

-------------------------------------------------------------------------------
(* pick.                                                                   *)

\* The scan begins at the counter with nothing passed over.
LEMMA PickStartKeeps ==
    ASSUME PlaneInv, NEW r \in Requests, PickStart(r)
    PROVE  PlaneInv'
<1> DEFINE s == req[r].snap
           up == {e \in Endpoints : healthy[s][e]}
           v == [req[r] EXCEPT !.pc = "probe", !.start = next[s], !.offset = 0, !.steady = up]
<1>1. /\ req[r] \in RequestType /\ RequestOK(r, req[r]) /\ next \in [Snapshots -> Endpoints]
      /\ req[r].pc = "pick" /\ s \in Snapshots
  BY RequestFacts DEF PickStart
<1>2. Count \in Nat \ {0} /\ 0 \in 0..Count /\ next[s] \in Endpoints /\ next[s] \in Nat
  BY <1>1, PoolAssumption DEF Endpoints
<1>3. up \in SUBSET Endpoints
  OBVIOUS
<1>4. \A e \in up : healthy[s][e]
  OBVIOUS
<1>5. /\ Set(r, v) /\ slots' = slots
      /\ next' = [next EXCEPT ![s] = (next[s] + 1) % Count]
      /\ UNCHANGED <<current, cancelled, healthy, checker, refuted, breaker>>
  BY <1>1 DEF PickStart
<1> HIDE DEF up
<1>6. /\ v \in RequestType /\ v.pc = "probe" /\ v.snap = s /\ v.attempt = req[r].attempt
      /\ v.calls = req[r].calls /\ v.bodies = req[r].bodies /\ v.outcome = req[r].outcome
      /\ v.steady = up /\ v.offset = 0
  BY <1>1, <1>2, <1>3 DEF RequestType
<1>7. next' \in [Snapshots -> Endpoints]
  <2>1. (next[s] + 1) % Count \in Endpoints
    BY <1>2, ModIsEndpoint
  <2> QED BY <1>1, <1>5, <2>1
<1> HIDE DEF v
<1>8. RequestOK(r, v)
  <2>1. ScanOK(v)
    BY <1>4, <1>6 DEF ScanOK
  <2> QED BY <1>1, <1>6, <2>1 DEF RequestOK, AttemptsOK
<1>9. req[r].pc \in HoldingPcs /\ v.pc \in HoldingPcs
  BY <1>1, <1>6 DEF HoldingPcs
<1> QED BY <1>5, <1>6, <1>7, <1>8, <1>9, PlainStep

\* A flag found down is one that was not up all the time, and has a cause.
LEMMA PickProbeKeeps ==
    ASSUME PlaneInv, NEW r \in Requests, PickProbe(r)
    PROVE  PlaneInv'
<1> DEFINE e == Candidate(r)
           q == req[r]
<1>1. /\ q \in RequestType /\ RequestOK(r, q) /\ next' \in [Snapshots -> Endpoints]
      /\ q.pc = "probe" /\ q.snap \in Snapshots /\ q.offset < Count
      /\ slots' = slots
      /\ UNCHANGED <<current, cancelled, healthy, checker, refuted, breaker>>
  BY RequestFacts DEF PickProbe
<1>2. /\ Count \in Nat \ {0} /\ q.offset \in 0 .. Count - 1 /\ q.start \in Endpoints
      /\ q.start \in Nat /\ q.start + q.offset \in Nat /\ e = (q.start + q.offset) % Count
      /\ 0 \in Endpoints /\ 0 \in 0..Count
  BY <1>1, PoolAssumption DEF RequestType, Endpoints, Candidate
<1>3. e \in Endpoints
  BY <1>2, ModIsEndpoint
<1>4. q.pc \in HoldingPcs
  BY <1>1 DEF HoldingPcs
<1>5. CASE healthy[q.snap][e]
  <2> DEFINE v == [q EXCEPT !.pc = "picked", !.endpoint = e, !.steady = {}, !.start = 0, !.offset = 0]
  <2>1. Set(r, v)
    BY <1>5 DEF PickProbe
  <2> HIDE DEF e
  <2>2. /\ v \in RequestType /\ v.pc = "picked" /\ v.snap = q.snap /\ v.attempt = q.attempt
        /\ v.calls = q.calls /\ v.bodies = q.bodies /\ v.outcome = q.outcome
    BY <1>1, <1>2, <1>3 DEF RequestType
  <2> HIDE DEF v
  <2>3. RequestOK(r, v)
    BY <1>1, <2>2 DEF RequestOK, AttemptsOK, ScanOK
  <2>4. v.pc \in HoldingPcs
    BY <2>2 DEF HoldingPcs
  <2> QED BY <1>1, <1>4, <2>1, <2>2, <2>3, <2>4, PlainStep
<1>6. CASE ~healthy[q.snap][e]
  <2> DEFINE v == [q EXCEPT !.offset = q.offset + 1]
  <2>1. Set(r, v)
    BY <1>6 DEF PickProbe
  <2>2. /\ v \in RequestType /\ v.pc = "probe" /\ v.snap = q.snap /\ v.attempt = q.attempt
        /\ v.calls = q.calls /\ v.bodies = q.bodies /\ v.outcome = q.outcome
        /\ v.offset = q.offset + 1 /\ v.start = q.start /\ v.steady = q.steady
    BY <1>1, <1>2 DEF RequestType
  <2> HIDE DEF v, e
  <2>3. e \notin q.steady /\ Excused(q.snap, e)
    <3>1. e \notin q.steady
      BY <1>1, <1>6 DEF RequestOK, ScanOK
    <3>2. refuted[q.snap][e] \/ q.snap \in cancelled
      BY <1>1, <1>3, <1>6 DEF PlaneInv, HealthInv
    <3>3. Excused(q.snap, e)
      BY <3>2 DEF PlaneInv, HealthInv, Excused
    <3> QED BY <3>1, <3>3
  <2>4. ASSUME NEW i \in 0 .. Count - 1, i < v.offset
        PROVE  LET d == (v.start + i) % Count IN d \notin v.steady /\ Excused(v.snap, d)
    <3>1. CASE i = q.offset
      BY <1>2, <2>2, <2>3, <3>1
    <3>2. CASE i < q.offset
      BY <1>1, <2>2, <3>2 DEF RequestOK, ScanOK
    <3> QED BY <1>2, <2>2, <2>4, <3>1, <3>2
  <2>5. ScanOK(v)
    BY <1>1, <2>2, <2>4 DEF RequestOK, ScanOK
  <2>6. RequestOK(r, v)
    BY <1>1, <2>2, <2>5 DEF RequestOK, AttemptsOK
  <2>7. v.pc \in HoldingPcs
    BY <2>2 DEF HoldingPcs
  <2> QED BY <1>1, <1>4, <2>1, <2>2, <2>6, <2>7, PlainStep
<1> QED BY <1>5, <1>6

\* A scan that has come to its end has passed over every endpoint.
LEMMA ScanEnds ==
    ASSUME NEW q \in RequestType, ScanOK(q), q.pc = "probe", q.offset = Count, NEW e \in Endpoints
    PROVE  e \notin q.steady /\ Excused(q.snap, e)
<1>1. q.start \in Endpoints
  BY DEF RequestType
<1>2. PICK i \in 0 .. Count - 1 : (q.start + i) % Count = e
  BY <1>1, ScanMeetsAll
<1>3. i < q.offset
  BY <1>2, PoolAssumption
<1> QED BY <1>2, <1>3 DEF ScanOK

\* Giving up has a cause.
LEMMA PickNoneKeeps ==
    ASSUME PlaneInv, NEW r \in Requests, PickNone(r)
    PROVE  PlaneInv'
<1>1. /\ req[r].pc = "probe" /\ req[r].offset = Count /\ Leave(r, "noHealthy")
      /\ UNCHANGED <<current, cancelled, healthy, checker, refuted, breaker, next>>
  BY DEF PickNone
<1>2. req[r] \in RequestType /\ ScanOK(req[r])
  BY RequestFacts DEF RequestOK
<1>3. \A e \in Endpoints : Excused(req[r].snap, e)
  BY <1>1, <1>2, ScanEnds
<1> QED BY <1>1, <1>3, LeaveKeeps DEF Outcomes, HoldingPcs

-------------------------------------------------------------------------------
(* Attempts.                                                               *)

\* A further attempt is one of those allowed.
LEMMA NextAttemptIsOK ==
    ASSUME NEW r \in Requests, NEW q \in RequestType, AttemptsOK(r, q), q.snap \in Snapshots,
           q.attempt < Attempts(r), Attempts(r) \in Nat, q.outcome # "noHealthy"
    PROVE  /\ RequestOK(r, NextAttempt(q))
           /\ NextAttempt(q).pc = "pick" /\ NextAttempt(q).snap = q.snap
<1> DEFINE v == [q EXCEPT !.pc = "pick", !.attempt = q.attempt + 1, !.bodies = 0]
<1>1. v = NextAttempt(q)
  BY DEF NextAttempt
<1>2. q \in RequestType /\ q.attempt \in Nat /\ q.calls \in Nat /\ q.attempt + 1 \in Nat
  BY DEF RequestType
<1>3. /\ v \in RequestType /\ v.pc = "pick" /\ v.snap = q.snap /\ v.attempt = q.attempt + 1
      /\ v.calls = q.calls /\ v.bodies = 0 /\ v.outcome = q.outcome
  BY <1>2 DEF RequestType
<1> HIDE DEF v
<1>4. RequestOK(r, v)
  BY <1>2, <1>3 DEF RequestOK, AttemptsOK, ScanOK
<1> QED BY <1>1, <1>3, <1>4

\* A refused call is followed by another attempt or by the answer.
LEMMA CallRefusedKeeps ==
    ASSUME PlaneInv, NEW r \in Requests, CallRefused(r)
    PROVE  PlaneInv'
<1>1. /\ req[r].pc = "picked" /\ req[r] \in RequestType /\ RequestOK(r, req[r])
      /\ req[r].snap \in Snapshots /\ Attempts(r) \in Nat /\ next' \in [Snapshots -> Endpoints]
      /\ UNCHANGED <<current, cancelled, healthy, checker, refuted, breaker, next>>
  BY RequestFacts DEF CallRefused
<1>2. req[r].pc \in HoldingPcs /\ req[r].pc # "respond"
  BY <1>1 DEF HoldingPcs
<1>3. CASE LastAttempt(r)
  <2>1. Leave(r, "badGateway")
    BY <1>3 DEF CallRefused
  <2> QED BY <1>1, <1>2, <2>1, LeaveKeeps DEF Outcomes
<1>4. CASE ~LastAttempt(r)
  <2>1. Set(r, NextAttempt(req[r])) /\ slots' = slots
    BY <1>4 DEF CallRefused
  <2>2. AttemptsOK(r, req[r]) /\ req[r].outcome # "noHealthy" /\ req[r].attempt < Attempts(r)
    BY <1>1, <1>4 DEF RequestOK, LastAttempt, RequestType
  <2>3. /\ RequestOK(r, NextAttempt(req[r]))
        /\ NextAttempt(req[r]).pc = "pick" /\ NextAttempt(req[r]).snap = req[r].snap
    BY <1>1, <2>2, NextAttemptIsOK
  <2>4. NextAttempt(req[r]).pc \in HoldingPcs
    BY <2>3 DEF HoldingPcs
  <2> QED BY <1>1, <1>2, <2>1, <2>3, <2>4, PlainStep
<1> QED BY <1>3, <1>4

\* A call is one of the attempt that is counted.
LEMMA CallStartKeeps ==
    ASSUME PlaneInv, NEW r \in Requests, CallStart(r)
    PROVE  PlaneInv'
<1> DEFINE n == IF req[r].expired THEN req[r].calls ELSE req[r].calls + 1
           v == [req[r] EXCEPT !.pc = "inflight", !.counted = TRUE, !.calls = n]
<1>1. /\ req[r] \in RequestType /\ RequestOK(r, req[r]) /\ next' \in [Snapshots -> Endpoints]
      /\ req[r].pc = "picked" /\ Attempts(r) \in Nat /\ slots' = slots
      /\ UNCHANGED <<current, cancelled, healthy, checker, refuted, breaker>>
  BY RequestFacts DEF CallStart
<1>2. Set(r, v)
  BY DEF CallStart
<1>3. n \in Nat /\ n <= req[r].attempt
  BY <1>1 DEF RequestOK, AttemptsOK, RequestType
<1> HIDE DEF n
<1>4. /\ v \in RequestType /\ v.pc = "inflight" /\ v.snap = req[r].snap /\ v.attempt = req[r].attempt
      /\ v.calls = n /\ v.bodies = req[r].bodies /\ v.outcome = req[r].outcome
  BY <1>1, <1>3 DEF RequestType
<1> HIDE DEF v
<1>5. RequestOK(r, v)
  BY <1>1, <1>3, <1>4 DEF RequestOK, AttemptsOK, ScanOK
<1>6. req[r].pc \in HoldingPcs /\ v.pc \in HoldingPcs
  BY <1>1, <1>4 DEF HoldingPcs
<1> QED BY <1>1, <1>2, <1>4, <1>5, <1>6, PlainStep

\* The response is returned and closed, and the slot given back.
LEMMA RespondKeeps ==
    ASSUME PlaneInv, NEW r \in Requests, Respond(r)
    PROVE  PlaneInv'
<1> DEFINE a == [req[r] EXCEPT !.pc = "done", !.outcome = "served", !.steady = {}]
           v == [a EXCEPT !.bodies = a.bodies - 1]
<1>1. /\ req[r] \in RequestType /\ RequestOK(r, req[r]) /\ next' \in [Snapshots -> Endpoints]
      /\ req[r].pc = "respond" /\ req[r].snap \in Snapshots
      /\ slots' = IF Concurrency = 0 THEN slots ELSE [slots EXCEPT ![req[r].snap] = @ - 1]
      /\ UNCHANGED <<current, cancelled, healthy, checker, refuted, breaker>>
  BY RequestFacts DEF Respond, SlotsAfter
<1>2. Set(r, v)
  BY DEF Respond, Answered
<1>3. req[r].bodies = 1
  BY <1>1 DEF RequestOK
<1>4. /\ a \in RequestType /\ a.pc = "done" /\ a.snap = req[r].snap /\ a.attempt = req[r].attempt
      /\ a.calls = req[r].calls /\ a.bodies = 1 /\ a.outcome = "served"
  BY <1>1, <1>3 DEF RequestType, Outcomes
<1> HIDE DEF a
<1>5. /\ v \in RequestType /\ v.pc = "done" /\ v.snap = req[r].snap /\ v.attempt = req[r].attempt
      /\ v.calls = req[r].calls /\ v.bodies = 0 /\ v.outcome = "served"
  BY <1>4 DEF RequestType
<1> HIDE DEF v
<1>6. RequestOK(r, v)
  BY <1>1, <1>5 DEF RequestOK, AttemptsOK, ScanOK
<1>7. req[r].pc \in HoldingPcs /\ v.pc \notin HoldingPcs
  BY <1>1, <1>5 DEF HoldingPcs
<1> QED BY <1>1, <1>2, <1>6, <1>7, PlainStep

\* A breaker stays a breaker.
LEMMA JudgedIsBreaker ==
    ASSUME PlaneInv, NEW r \in Requests, req[r].snap \in Snapshots, NEW result
    PROVE  Judged(r, result) \in Breaker
<1> DEFINE b == breaker[req[r].snap][req[r].endpoint]
<1>1. b \in Breaker
  <2>1. req[r].endpoint \in Endpoints
    BY RequestFacts DEF RequestType
  <2> QED BY <2>1 DEF PlaneInv, PlaneType
<1> HIDE DEF b
<1>2. \A ok \in BOOLEAN : BreakerAfter(b, ok) \in Breaker
  <2>1. /\ [state |-> "closed", fails |-> 0] \in Breaker /\ [state |-> "open", fails |-> 0] \in Breaker
    BY DEF Breaker
  <2>2. [b EXCEPT !.fails = b.fails + 1] \in Breaker
    BY <1>1 DEF Breaker
  <2> QED BY <2>1, <2>2 DEF BreakerAfter
<1>3. Judged(r, result) = IF result = "expired" \/ ~req[r].counted THEN b
                          ELSE BreakerAfter(b, result = "ok")
  BY DEF Judged, b
<1> QED BY <1>1, <1>2, <1>3

\* What a call that has ended makes of its request: one to return the response of, one
\* to try again, or one to answer with a bad gateway.
LEMMA EndedIsOK ==
    ASSUME NEW r \in Requests, NEW q \in RequestType, RequestOK(r, q), q.pc = "inflight",
           Attempts(r) \in Nat
    PROVE  /\ RequestOK(r, [q EXCEPT !.pc = "respond", !.bodies = @ + 1])
           /\ [q EXCEPT !.pc = "respond", !.bodies = @ + 1].pc = "respond"
           /\ [q EXCEPT !.pc = "respond", !.bodies = @ + 1].snap = q.snap
           /\ RequestOK(r, [q EXCEPT !.pc = "done", !.outcome = "badGateway"])
           /\ [q EXCEPT !.pc = "done", !.outcome = "badGateway"].pc = "done"
<1> DEFINE n == q.bodies + 1
           v == [q EXCEPT !.pc = "respond", !.bodies = n]
           w == [q EXCEPT !.pc = "done", !.outcome = "badGateway"]
<1>1. q \in RequestType /\ q.bodies = 0 /\ n = 1 /\ n \in Nat
  BY DEF RequestOK
<1>2. v = [q EXCEPT !.pc = "respond", !.bodies = @ + 1]
  OBVIOUS
<1> HIDE DEF n
<1>3. /\ v \in RequestType /\ v.pc = "respond" /\ v.snap = q.snap /\ v.attempt = q.attempt
      /\ v.calls = q.calls /\ v.bodies = 1 /\ v.outcome = q.outcome
  BY <1>1 DEF RequestType
<1>4. /\ w \in RequestType /\ w.pc = "done" /\ w.snap = q.snap /\ w.attempt = q.attempt
      /\ w.calls = q.calls /\ w.bodies = 0 /\ w.outcome = "badGateway"
  BY <1>1 DEF RequestType, Outcomes
<1> HIDE DEF v
<1>5. RequestOK(r, v)
  BY <1>3 DEF RequestOK, AttemptsOK, ScanOK
<1>6. v.pc = "respond" /\ v.snap = q.snap
  BY <1>3
<1>7. w.pc = "done"
  BY <1>4
<1> HIDE DEF w
<1>8. RequestOK(r, w)
  BY <1>4 DEF RequestOK, AttemptsOK, ScanOK
<1> QED BY <1>2, <1>5, <1>6, <1>7, <1>8, Zenon DEF w

\* The end of a call, with what the breaker makes of it.
LEMMA CallEndKeeps ==
    ASSUME PlaneInv, NEW r \in Requests, NEW result \in Results, CallEnd(r, result)
    PROVE  PlaneInv'
<1> DEFINE s == req[r].snap
           e == req[r].endpoint
           b == Judged(r, result)
           x == req[r].expired \/ result = "expired"
           q == [req[r] EXCEPT !.counted = FALSE, !.expired = x]
           c == [q EXCEPT !.bodies = IF result \in {"ok", "5xx"} THEN @ + 1 ELSE @]
           ended == [q EXCEPT !.pc = "respond", !.bodies = @ + 1]
           failed == [q EXCEPT !.pc = "done", !.outcome = "badGateway"]
           new == CASE result = "ok" -> ended
                    [] result = "5xx" /\ LastAttempt(r) -> ended
                    [] result # "ok" /\ ~LastAttempt(r) -> NextAttempt(c)
                    [] OTHER -> failed
           moved == [req EXCEPT ![r] = new]
<1>1. /\ req[r] \in RequestType /\ RequestOK(r, req[r]) /\ req[r].pc = "inflight"
      /\ s \in Snapshots /\ e \in Endpoints /\ Attempts(r) \in Nat
      /\ next' \in [Snapshots -> Endpoints]
      /\ UNCHANGED <<current, cancelled, healthy, checker, refuted>>
  BY RequestFacts DEF CallEnd, RequestType
<1>2. /\ breaker' = [breaker EXCEPT ![s][e] = b]
      /\ req' = IF b.state = breaker[s][e].state THEN moved ELSE Uncounted(moved, s, e)
      /\ slots' = IF new.pc = "done" THEN SlotsAfter(r, "badGateway") ELSE slots
  BY DEF CallEnd
<1>3. /\ q \in RequestType /\ q.pc = "inflight" /\ q.snap = s /\ q.attempt = req[r].attempt
      /\ q.calls = req[r].calls /\ q.bodies = req[r].bodies /\ q.outcome = req[r].outcome
  <2>1. x \in BOOLEAN
    OBVIOUS
  <2> HIDE DEF x
  <2> QED BY <1>1, <2>1 DEF RequestType
<1> HIDE DEF q
<1>4. RequestOK(r, q) /\ q.bodies \in Nat
  BY <1>1, <1>3 DEF RequestOK, AttemptsOK, ScanOK, RequestType
<1>5. /\ c \in RequestType /\ c.pc = "inflight" /\ c.snap = s /\ c.attempt = q.attempt
      /\ c.calls = q.calls /\ c.outcome = q.outcome
  BY <1>3, <1>4 DEF RequestType
<1> HIDE DEF c
<1>6. AttemptsOK(r, c) /\ c.outcome # "noHealthy" /\ q.attempt = req[r].attempt
  BY <1>3, <1>4, <1>5 DEF RequestOK, AttemptsOK
<1>7. /\ RequestOK(r, ended) /\ ended.pc = "respond" /\ ended.snap = s
      /\ RequestOK(r, failed) /\ failed.pc = "done"
  BY <1>1, <1>3, <1>4, EndedIsOK, Zenon
<1>8. ~LastAttempt(r) => /\ RequestOK(r, NextAttempt(c))
                         /\ NextAttempt(c).pc = "pick" /\ NextAttempt(c).snap = s
  <2>1. SUFFICES ASSUME ~LastAttempt(r)
                 PROVE  /\ RequestOK(r, NextAttempt(c))
                        /\ NextAttempt(c).pc = "pick" /\ NextAttempt(c).snap = s
    OBVIOUS
  <2>2. c.attempt < Attempts(r)
    BY <1>1, <1>5, <1>6, <2>1 DEF LastAttempt, RequestType
  <2> QED BY <1>1, <1>5, <1>6, <2>2, NextAttemptIsOK
<1> HIDE DEF ended, failed
<1>9. /\ RequestOK(r, new)
      /\ \/ new.pc \in {"respond", "pick"} /\ new.snap = s
         \/ new.pc = "done"
  BY <1>7, <1>8 DEF Results
<1> HIDE DEF new
<1>10. breaker' \in [Snapshots -> [Endpoints -> Breaker]]
  <2>1. b \in Breaker
    BY <1>1, JudgedIsBreaker
  <2> HIDE DEF b
  <2> QED BY <1>1, <1>2, <2>1 DEF PlaneInv, PlaneType
<1>11. /\ moved = [k \in Requests |-> moved[k]]
       /\ \A k \in Requests : moved[k] = IF k = r THEN new ELSE req[k]
  BY DEF PlaneInv, RequestsInv
<1> HIDE DEF moved
<1>12. /\ Uncounted(moved, s, e) = [k \in Requests |-> Uncounted(moved, s, e)[k]]
       /\ \A k \in Requests : \/ Uncounted(moved, s, e)[k] = moved[k]
                              \/ Uncounted(moved, s, e)[k] = [moved[k] EXCEPT !.counted = FALSE]
  BY DEF Uncounted
<1>13. /\ req' = [k \in Requests |-> req'[k]]
       /\ \A k \in Requests : LET p == IF k = r THEN new ELSE req[k]
                              IN  req'[k] = p \/ req'[k] = [p EXCEPT !.counted = FALSE]
  <2>1. CASE b.state = breaker[s][e].state
    BY <1>2, <1>11, <2>1, Zenon
  <2>2. CASE b.state # breaker[s][e].state
    <3>1. req' = Uncounted(moved, s, e)
      BY <1>2, <2>2, Zenon
    <3> QED BY <1>11, <1>12, <3>1, Zenon
  <2> QED BY <2>1, <2>2, Zenon
<1>14. req[r].pc \in HoldingPcs
  BY <1>1 DEF HoldingPcs
<1>15. \/ new.pc \in HoldingPcs /\ new.snap = s /\ slots' = slots
       \/ /\ new.pc \notin HoldingPcs
          /\ slots' = IF Concurrency = 0 THEN slots ELSE [slots EXCEPT ![s] = @ - 1]
  BY <1>2, <1>9 DEF HoldingPcs, SlotsAfter
<1> QED BY <1>1, <1>9, <1>10, <1>13, <1>14, <1>15, RequestStep

-------------------------------------------------------------------------------
(* Activation, health checks and breakers.                                 *)

\* Steps that move no request and no flag: a snapshot may be replaced and cancelled.
LEMMA RequestsUntouched ==
    ASSUME PlaneInv, UNCHANGED <<healthy, refuted, breaker, next, slots, req>>,
           current' \in Snapshots, current' >= current,
           cancelled' \subseteq Snapshots, cancelled \subseteq cancelled',
           \A s \in cancelled' : s < current',
           checker' \in [Snapshots -> [Endpoints -> {"none", "waiting", "checking", "stopped"}]]
    PROVE  PlaneInv'
<1>1. PlaneType'
  BY DEF PlaneInv, PlaneType
<1>2. HealthInv'
  BY DEF PlaneInv, HealthInv
<1>3. SlotsInv'
  BY SlotsUntouched DEF PlaneInv
<1>4. RequestsInv'
  <2>1. ASSUME NEW k \in Requests PROVE RequestOK(k, req[k])'
    <3>1. /\ RequestOK(k, req[k]) /\ req[k] \in RequestType /\ req[k].snap \in Snapshots \cup {0}
          /\ current \in Snapshots
      BY DEF PlaneInv, RequestsInv, RequestType, PlaneType
    <3>2. \A e \in Endpoints : Excused(req[k].snap, e) => Excused(req[k].snap, e)'
      <4>1. req[k].snap \in Int /\ current \in Int /\ current' \in Int
        BY <3>1, PoolAssumption DEF Snapshots
      <4> QED BY <4>1 DEF Excused
    <3>3. ScanOK(req[k])'
      <4>1. SUFFICES ASSUME req[k].pc = "probe"
                     PROVE  ScanOK(req[k])'
        BY DEF ScanOK
      <4>2. \A i \in 0 .. Count - 1 : (req[k].start + i) % Count \in Endpoints
        <5>1. req[k].start \in Nat
          BY <3>1, PoolAssumption DEF RequestType, Endpoints
        <5> QED BY <5>1, ModIsEndpoint, PoolAssumption
      <4> QED BY <3>1, <3>2, <4>1, <4>2 DEF RequestOK, ScanOK
    <3> QED BY <3>1, <3>2, <3>3 DEF RequestOK, AttemptsOK
  <2> QED BY <2>1 DEF PlaneInv, RequestsInv
<1> QED BY <1>1, <1>2, <1>3, <1>4 DEF PlaneInv

\* The snapshot is swapped.
LEMMA ActivateKeeps == ASSUME PlaneInv, Activate PROVE PlaneInv'
<1>1. /\ current \in Snapshots /\ MaxSnapshots \in Nat /\ cancelled \subseteq Snapshots
      /\ checker \in [Snapshots -> [Endpoints -> {"none", "waiting", "checking", "stopped"}]]
      /\ \A s \in cancelled : s < current
  BY PoolAssumption DEF PlaneInv, PlaneType, HealthInv
<1>2. current' \in Snapshots /\ current' >= current /\ \A s \in cancelled' : s < current'
  BY <1>1 DEF Activate, Snapshots
<1>3. checker' \in [Snapshots -> [Endpoints -> {"none", "waiting", "checking", "stopped"}]]
  BY <1>1, <1>2 DEF Activate
<1> QED BY <1>1, <1>2, <1>3, RequestsUntouched DEF Activate

\* The one replaced is cancelled.
LEMMA CancelPreviousKeeps ==
    ASSUME PlaneInv, NEW s \in Snapshots, CancelPrevious(s) PROVE PlaneInv'
<1>1. /\ current \in Snapshots /\ cancelled \subseteq Snapshots /\ current \in Int
      /\ checker \in [Snapshots -> [Endpoints -> {"none", "waiting", "checking", "stopped"}]]
      /\ \A k \in cancelled : k < current
  BY PoolAssumption DEF PlaneInv, PlaneType, HealthInv, Snapshots
<1> QED BY <1>1, RequestsUntouched DEF CancelPrevious

\* A health check begins.
LEMMA CheckStartKeeps ==
    ASSUME PlaneInv, NEW s \in Snapshots, NEW e \in Endpoints, CheckStart(s, e) PROVE PlaneInv'
<1>1. /\ current \in Snapshots /\ cancelled \subseteq Snapshots /\ current \in Int
      /\ checker \in [Snapshots -> [Endpoints -> {"none", "waiting", "checking", "stopped"}]]
      /\ \A k \in cancelled : k < current
  BY PoolAssumption DEF PlaneInv, PlaneType, HealthInv, Snapshots
<1>2. checker' \in [Snapshots -> [Endpoints -> {"none", "waiting", "checking", "stopped"}]]
  BY <1>1 DEF CheckStart
<1> QED BY <1>1, <1>2, RequestsUntouched DEF CheckStart

\* The goroutine of a cancelled snapshot ends.
LEMMA CheckStopKeeps ==
    ASSUME PlaneInv, NEW s \in Snapshots, NEW e \in Endpoints, CheckStop(s, e) PROVE PlaneInv'
<1>1. /\ current \in Snapshots /\ cancelled \subseteq Snapshots /\ current \in Int
      /\ checker \in [Snapshots -> [Endpoints -> {"none", "waiting", "checking", "stopped"}]]
      /\ \A k \in cancelled : k < current
  BY PoolAssumption DEF PlaneInv, PlaneType, HealthInv, Snapshots
<1>2. checker' \in [Snapshots -> [Endpoints -> {"none", "waiting", "checking", "stopped"}]]
  BY <1>1 DEF CheckStop
<1> QED BY <1>1, <1>2, RequestsUntouched DEF CheckStop

\* A flag that goes down was not up all the time of any scan, and goes down because the
\* endpoint failed or the snapshot is cancelled.
LEMMA CheckEndKeeps ==
    ASSUME PlaneInv, NEW s \in Snapshots, NEW e \in Endpoints, NEW answer \in {"good", "bad"},
           CheckEnd(s, e, answer)
    PROVE  PlaneInv'
<1> DEFINE ok == answer = "good" /\ s \notin cancelled
           bad == refuted[s][e] \/ (answer = "bad" /\ s \notin cancelled)
<1>1. PlaneType /\ HealthInv /\ RequestsInv /\ SlotsInv
  BY DEF PlaneInv
<1>2. /\ healthy' = [healthy EXCEPT ![s][e] = ok] /\ refuted' = [refuted EXCEPT ![s][e] = bad]
      /\ req' = Steadied(s, e, ok) /\ checker' = [checker EXCEPT ![s][e] = "waiting"]
      /\ UNCHANGED <<current, cancelled, breaker, next, slots>>
  BY DEF CheckEnd
<1>3. ok \in BOOLEAN /\ bad \in BOOLEAN /\ (~ok => bad \/ s \in cancelled) /\ (refuted[s][e] => bad)
  BY <1>1 DEF PlaneType
<1> HIDE DEF ok, bad
<1>4. /\ healthy' \in [Snapshots -> [Endpoints -> BOOLEAN]]
      /\ refuted' \in [Snapshots -> [Endpoints -> BOOLEAN]]
      /\ checker' \in [Snapshots -> [Endpoints -> {"none", "waiting", "checking", "stopped"}]]
  BY <1>1, <1>2, <1>3 DEF PlaneType
<1>5. \A k \in Snapshots, d \in Endpoints :
          /\ healthy'[k][d] = IF k = s /\ d = e THEN ok ELSE healthy[k][d]
          /\ refuted'[k][d] = IF k = s /\ d = e THEN bad ELSE refuted[k][d]
  BY <1>1, <1>2, <1>3 DEF PlaneType
<1>6. PlaneType'
  BY <1>1, <1>2, <1>4 DEF PlaneType
<1>7. HealthInv'
  BY <1>1, <1>2, <1>3, <1>5 DEF HealthInv
<1>8. ASSUME NEW k \in Requests
      PROVE  /\ RequestOK(k, req[k])' /\ req'[k] \in RequestType
             /\ req'[k].pc = req[k].pc /\ req'[k].snap = req[k].snap
  <2>1. PICK q : q = req[k]
    OBVIOUS
  <2>2. PICK w : w = req'[k]
    OBVIOUS
  <2> DEFINE gone == q.snap = s /\ ~ok
             up == q.steady \ (IF gone THEN {e} ELSE {})
             v == [q EXCEPT !.steady = up]
  <2>3. q \in RequestType /\ RequestOK(k, q)
    BY <1>1, <2>1 DEF RequestsInv
  <2>4. w = v
    <3>1. w = IF gone THEN [q EXCEPT !.steady = @ \ {e}] ELSE q
      BY <1>2, <2>1, <2>2 DEF Steadied
    <3>2. CASE gone
      BY <3>1, <3>2
    <3>3. CASE ~gone
      <4>1. up = q.steady
        BY <3>3
      <4>2. v = q
        BY <2>3, <4>1 DEF RequestType
      <4> QED BY <3>1, <3>3, <4>2
    <3> QED BY <3>2, <3>3
  <2>5. up \in SUBSET Endpoints /\ up \subseteq q.steady /\ (gone => e \notin up)
    BY <2>3 DEF RequestType
  <2>6. /\ w \in RequestType /\ w.pc = q.pc /\ w.snap = q.snap /\ w.attempt = q.attempt
        /\ w.start = q.start /\ w.offset = q.offset /\ w.steady = up
        /\ w.calls = q.calls /\ w.bodies = q.bodies /\ w.outcome = q.outcome
    <3> HIDE DEF up
    <3> QED BY <2>3, <2>4, <2>5 DEF RequestType
  <2> HIDE DEF up, v
  <2>7. q.snap \in Snapshots => \A d \in Endpoints : Excused(q.snap, d) => Excused(q.snap, d)'
    BY <1>2, <1>3, <1>5 DEF Excused
  <2>8. ScanOK(w)'
    <3>1. SUFFICES ASSUME w.pc = "probe"
                   PROVE  /\ \A i \in 0 .. Count - 1 : i < w.offset =>
                                LET d == (w.start + i) % Count
                                IN  d \notin w.steady /\ Excused(w.snap, d)'
                          /\ \A d \in w.steady : healthy'[w.snap][d]
      BY DEF ScanOK
    <3>2. q.snap \in Snapshots /\ ScanOK(q) /\ q.pc = "probe"
      BY <2>3, <2>6, <3>1 DEF RequestOK
    <3>3. ASSUME NEW i \in 0 .. Count - 1, i < q.offset
          PROVE  (q.start + i) % Count \notin up /\ Excused(q.snap, (q.start + i) % Count)'
      <4>1. (q.start + i) % Count \in Endpoints
        <5>1. q.start \in Nat
          BY <2>3, PoolAssumption DEF RequestType, Endpoints
        <5> QED BY <5>1, ModIsEndpoint, PoolAssumption
      <4>2. (q.start + i) % Count \notin q.steady /\ Excused(q.snap, (q.start + i) % Count)
        BY <3>2, <3>3 DEF ScanOK
      <4> QED BY <2>5, <2>7, <3>2, <4>1, <4>2
    <3>4. ASSUME NEW d \in up PROVE healthy'[q.snap][d]
      <4>1. d \in Endpoints /\ healthy[q.snap][d]
        BY <2>5, <3>2 DEF ScanOK
      <4> QED BY <1>5, <2>5, <3>2, <4>1
    <3> QED BY <2>6, <3>3, <3>4
  <2>9. RequestOK(k, w)'
    <3>1. w.outcome = "noHealthy" => w.pc = "done" /\ \A d \in Endpoints : Excused(w.snap, d)'
      BY <2>3, <2>6, <2>7 DEF RequestOK
    <3>2. /\ w.pc # "new" => w.snap \in Snapshots
          /\ AttemptsOK(k, w) /\ w.bodies = IF w.pc = "respond" THEN 1 ELSE 0
      BY <2>3, <2>6 DEF RequestOK, AttemptsOK
    <3> QED BY <2>6, <2>8, <3>1, <3>2 DEF RequestOK, AttemptsOK
  <2>10. RequestOK(k, req[k])'
    BY <2>2, <2>9 DEF RequestOK, AttemptsOK, ScanOK, Excused
  <2> QED BY <2>1, <2>2, <2>6, <2>10
<1>9. RequestsInv'
  <2>1. req' = [k \in Requests |-> req'[k]]
    BY <1>2 DEF Steadied
  <2> QED BY <1>8, <2>1 DEF RequestsInv
<1>10. SlotsInv'
  BY <1>1, <1>2, <1>8, SlotsUntouched
<1> QED BY <1>6, <1>7, <1>9, <1>10 DEF PlaneInv

\* A breaker half-opens; the calls under way no longer count.
LEMMA BreakerHalfOpensKeeps ==
    ASSUME PlaneInv, NEW s \in Snapshots, NEW e \in Endpoints, BreakerHalfOpens(s, e)
    PROVE  PlaneInv'
<1> DEFINE b == [breaker[s][e] EXCEPT !.state = "half"]
<1>1. /\ breaker' = [breaker EXCEPT ![s][e] = b] /\ req' = Uncounted(req, s, e)
      /\ UNCHANGED <<current, cancelled, healthy, checker, refuted, next, slots>>
  BY DEF BreakerHalfOpens
<1>2. b \in Breaker
  <2>1. breaker[s][e] \in Breaker
    BY DEF PlaneInv, PlaneType
  <2> QED BY <2>1 DEF Breaker
<1> HIDE DEF b
<1>3. PlaneType' /\ HealthInv'
  BY <1>1, <1>2 DEF PlaneInv, PlaneType, HealthInv
<1>4. ASSUME NEW k \in Requests
      PROVE  /\ RequestOK(k, req'[k])
             /\ req'[k].pc = req[k].pc /\ req'[k].snap = req[k].snap
  <2>1. req'[k] = req[k] \/ req'[k] = [req[k] EXCEPT !.counted = FALSE]
    BY <1>1 DEF Uncounted
  <2>2. RequestOK(k, req[k])
    BY DEF PlaneInv, RequestsInv
  <2>3. /\ RequestOK(k, [req[k] EXCEPT !.counted = FALSE])
        /\ [req[k] EXCEPT !.counted = FALSE].pc = req[k].pc
        /\ [req[k] EXCEPT !.counted = FALSE].snap = req[k].snap
    BY <2>2, UncountedIsOK
  <2> QED BY <2>1, <2>2, <2>3, Zenon
<1>5. RequestsInv'
  <2>1. req' = [k \in Requests |-> req'[k]]
    BY <1>1 DEF Uncounted
  <2>2. req' \in [Requests -> RequestType]
    BY <1>4, <2>1 DEF RequestOK
  <2>3. ASSUME NEW k \in Requests PROVE RequestOK(k, req[k])'
    <3>1. RequestOK(k, req'[k])
      BY <1>4
    <3> QED BY <1>1, <3>1 DEF RequestOK, AttemptsOK, ScanOK, Excused
  <2> QED BY <2>2, <2>3 DEF RequestsInv
<1>6. SlotsInv'
  BY <1>1, <1>4, SlotsUntouched DEF PlaneInv
<1> QED BY <1>3, <1>5, <1>6 DEF PlaneInv

-------------------------------------------------------------------------------
(* The invariant holds.                                                    *)

\* A process that has just started.
LEMMA PlaneInit == Init => PlaneInv
<1> SUFFICES ASSUME Init PROVE PlaneInv
  OBVIOUS
<1>1. 1 \in Snapshots /\ 0 \in Endpoints /\ Concurrency \in Nat /\ Count \in Nat
  BY PoolAssumption DEF Snapshots, Endpoints
<1>2. PlaneType
  <2>1. [state |-> "closed", fails |-> 0] \in Breaker
    BY DEF Breaker
  <2> QED BY <1>1, <2>1 DEF Init, PlaneType
<1>3. HealthInv
  BY DEF Init, HealthInv
<1>4. RequestsInv
  <2>1. /\ NewRequest \in RequestType /\ NewRequest.pc = "new" /\ NewRequest.attempt = 0
        /\ NewRequest.calls = 0 /\ NewRequest.bodies = 0 /\ NewRequest.outcome = "none"
    BY <1>1 DEF NewRequest, RequestType, Outcomes
  <2>2. ASSUME NEW r \in Requests PROVE RequestOK(r, NewRequest)
    <3>1. Attempts(r) \in Nat
      BY PoolAssumption DEF Attempts
    <3> QED BY <2>1, <3>1 DEF RequestOK, AttemptsOK, ScanOK
  <2>3. req = [r \in Requests |-> NewRequest]
    BY DEF Init
  <2> QED BY <2>1, <2>2, <2>3 DEF RequestsInv
<1>5. SlotsInv
  <2>1. \A s : Holders(s) = {}
    BY DEF Init, Holders, Holding, NewRequest
  <2>2. \A s : Cardinality(Holders(s)) = 0
    <3>1. Cardinality({}) = 0
      BY FS_EmptySet
    <3> QED BY <2>1, <3>1, Zenon
  <2>3. slots = [s \in Snapshots |-> 0] /\ 0 \in 0..Concurrency
    BY <1>1 DEF Init
  <2> QED BY <2>2, <2>3 DEF SlotsInv
<1> QED BY <1>2, <1>3, <1>4, <1>5 DEF PlaneInv

\* Every step keeps it.
LEMMA PlaneNext == PlaneInv /\ [Next]_vars => PlaneInv'
<1> SUFFICES ASSUME PlaneInv, [Next]_vars PROVE PlaneInv'
  OBVIOUS
<1>1. CASE UNCHANGED vars
  <2>1. /\ current \in Snapshots /\ current >= current /\ PlaneType /\ HealthInv
    BY PoolAssumption DEF PlaneInv, PlaneType, Snapshots
  <2> QED BY <1>1, <2>1, RequestsUntouched DEF vars, PlaneType, HealthInv
<1>2. CASE Activate
  BY <1>2, ActivateKeeps
<1>3. CASE \E s \in Snapshots : CancelPrevious(s)
  BY <1>3, CancelPreviousKeeps
<1>4. ASSUME NEW s \in Snapshots, NEW e \in Endpoints, Check(s, e) \/ BreakerHalfOpens(s, e)
      PROVE  PlaneInv'
  BY <1>4, CheckStartKeeps, CheckStopKeeps, CheckEndKeeps, BreakerHalfOpensKeeps DEF Check
<1>5. ASSUME NEW r \in Requests, Step(r) PROVE PlaneInv'
  BY <1>5, RouteKeeps, RefuseKeeps, AdmitKeeps, PolicyAnswersKeeps, ForwardKeeps,
     PickStartKeeps, PickProbeKeeps, PickNoneKeeps, CallRefusedKeeps, CallStartKeeps,
     CallEndKeeps, RespondKeeps, Zenon DEF Step
<1> QED BY <1>1, <1>2, <1>3, <1>4, <1>5 DEF Next

\* The inductive invariant holds in every behaviour of the request pipeline.
THEOREM PlaneInvHolds == Spec => []PlaneInv
<1> QED BY PlaneInit, PlaneNext, PTL DEF Spec

\* serveHTTP: the semaphore counts exactly the requests between its acquire and the
\* handler's return, whichever return they take, for any limit and any number of
\* requests, endpoints and reloads.
THEOREM SlotsHold == Spec => []SlotsAreExact
<1>1. PlaneInv => SlotsAreExact
  <2> SUFFICES ASSUME PlaneInv PROVE SlotsAreExact
    OBVIOUS
  <2>1. \A r \in Requests : req[r] \in RequestType
    BY DEF PlaneInv, RequestsInv
  <2>2. TypeOK
    BY <2>1 DEF TypeOK, PlaneInv, PlaneType, SlotsInv, RequestType, Outcomes
  <2> QED BY <2>2 DEF PlaneInv, SlotsInv, SlotsAreExact
<1> QED BY <1>1, PlaneInvHolds, PTL

\* forward: no request reaches an upstream more often than its method and the route's
\* retries allow.
THEOREM CallsAreLimited == Spec => []NeverSentTooOften
<1>1. PlaneInv => NeverSentTooOften
  <2> SUFFICES ASSUME PlaneInv, NEW r \in Requests PROVE req[r].calls <= Attempts(r)
    BY DEF NeverSentTooOften, Attempts
  <2>1. req[r] \in RequestType /\ AttemptsOK(r, req[r]) /\ Attempts(r) \in Nat
    BY RequestFacts DEF RequestOK
  <2> QED BY <2>1 DEF AttemptsOK, RequestType
<1> QED BY <1>1, PlaneInvHolds, PTL

\* forward and serveHTTP: every upstream response that is not returned is closed, and
\* the one returned is closed after it.
THEOREM ResponsesDoNotLeak == Spec => []ResponsesAreClosed
<1>1. PlaneInv => ResponsesAreClosed
  BY DEF PlaneInv, RequestsInv, RequestOK, ResponsesAreClosed
<1> QED BY <1>1, PlaneInvHolds, PTL

\* pick: whatever checks run during a scan, an endpoint that is healthy from its
\* beginning to its end is not missed.
THEOREM SteadyEndpointsAreFound == Spec => []PickFindsSteadyEndpoint
<1>1. PlaneInv => PickFindsSteadyEndpoint
  <2> SUFFICES ASSUME PlaneInv, NEW r \in Requests, req[r].pc = "probe", req[r].offset = Count
               PROVE  req[r].steady = {}
    BY DEF PickFindsSteadyEndpoint
  <2>1. req[r] \in RequestType /\ ScanOK(req[r])
    BY RequestFacts DEF RequestOK
  <2>2. \A e \in Endpoints : e \notin req[r].steady
    BY <2>1, ScanEnds
  <2> QED BY <2>1, <2>2 DEF RequestType
<1> QED BY <1>1, PlaneInvHolds, PTL

\* "no healthy upstream" is answered only if every endpoint has itself failed a check
\* or the request's snapshot has been replaced.
THEOREM RefusalsHaveACause == Spec => []RefusedForACause
<1>1. PlaneInv => RefusedForACause
  BY DEF PlaneInv, RequestsInv, RequestOK, Excused, RefusedForACause
<1> QED BY <1>1, PlaneInvHolds, PTL
===============================================================================
