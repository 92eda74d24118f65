------------------------------- MODULE DataPlane ------------------------------
(***************************************************************************)
(* One route of one gateway process: requests are admitted, balanced over  *)
(* the endpoints of the snapshot they were routed by, retried and answered, *)
(* while health checks run and configuration activations replace the       *)
(* snapshot.  Every snapshot has its own semaphore, endpoints, breakers and *)
(* round-robin counter; retiring one cancels its context.                  *)
(*                                                                         *)
(* Authentication, rate limit and cache decide whether a request is         *)
(* forwarded at all; here that decision is a choice.  Time is not modelled:  *)
(* a ticker, a deadline or the end of a breaker's open period may come at   *)
(* any moment.                                                              *)
(***************************************************************************)
EXTENDS Naturals, FiniteSets

CONSTANTS Requests,      \* requests that arrive, one each
          Retryable,     \* those with an idempotent method on a buffered route
          Count,         \* number of endpoints of the pool
          Concurrency,   \* limit of the route, 0 for none
          Retries,       \* additional attempts
          Failures,      \* consecutive failures that open a breaker
          MaxSnapshots   \* bound: activations, the first one included

ASSUME PoolAssumption == /\ Count \in Nat \ {0}
                         /\ Failures \in Nat \ {0}
                         /\ MaxSnapshots \in Nat \ {0}
                         /\ Concurrency \in Nat
                         /\ Retries \in Nat
                         /\ Retryable \subseteq Requests
                         /\ IsFiniteSet(Requests)

Endpoints == 0 .. Count - 1
Snapshots == 1 .. MaxSnapshots

VARIABLES
    current,    \* routerManager.current
    cancelled,  \* snapshots whose context is cancelled
    healthy,    \* healthy[s][e]
    checker,    \* the health-check goroutine of e in s
    refuted,    \* history: refuted[s][e], a health answer of e itself was bad
    breaker,    \* breaker[s][e]: state and consecutive failures
    next,       \* next[s]: the round-robin counter, of which only the residue matters
    slots,      \* slots[s]: elements in the semaphore channel
    req         \* the requests

vars == <<current, cancelled, healthy, checker, refuted, breaker, next, slots, req>>

Breaker == [state : {"closed", "open", "half"}, fails : Nat]

NewRequest == [pc |-> "new", snap |-> 0, attempt |-> 0, start |-> 0, offset |-> 0,
               endpoint |-> 0, counted |-> FALSE, expired |-> FALSE,
               steady |-> {}, calls |-> 0, bodies |-> 0, outcome |-> "none"]

\* compileRoute: endpoints start healthy with closed breakers and a checker each.
Init == /\ current = 1
        /\ cancelled = {}
        /\ healthy = [s \in Snapshots |-> [e \in Endpoints |-> TRUE]]
        /\ checker = [s \in Snapshots |-> [e \in Endpoints |->
                          IF s = 1 THEN "waiting" ELSE "none"]]
        /\ refuted = [s \in Snapshots |-> [e \in Endpoints |-> FALSE]]
        /\ breaker = [s \in Snapshots |-> [e \in Endpoints |->
                          [state |-> "closed", fails |-> 0]]]
        /\ next = [s \in Snapshots |-> 0]
        /\ slots = [s \in Snapshots |-> 0]
        /\ req = [r \in Requests |-> NewRequest]

-------------------------------------------------------------------------------
(* Activation: the new snapshot is swapped in, then the previous one is      *)
(* cancelled.                                                               *)

Activate ==
    /\ current < MaxSnapshots
    /\ current' = current + 1
    /\ checker' = [checker EXCEPT ![current + 1] = [e \in Endpoints |-> "waiting"]]
    /\ UNCHANGED <<cancelled, healthy, refuted, breaker, next, slots, req>>

\* Mutant: the snapshot is read back after the swap and cancelled.
CancelPreviousItself(s) ==
    /\ s = current
    /\ s > 1
    /\ cancelled' = cancelled \cup {s}
    /\ UNCHANGED <<current, healthy, checker, refuted, breaker, next, slots, req>>

CancelPrevious(s) ==
    /\ s < current
    /\ s \notin cancelled
    /\ cancelled' = cancelled \cup {s}
    /\ UNCHANGED <<current, healthy, checker, refuted, breaker, next, slots, req>>

-------------------------------------------------------------------------------
(* Health checks.                                                           *)

\* Endpoints a request has seen healthy ever since its pick began.
Steadied(s, e, ok) ==
    [r \in Requests |-> IF req[r].snap = s /\ ~ok
                          THEN [req[r] EXCEPT !.steady = @ \ {e}] ELSE req[r]]

\* The ticker fires; select may prefer it to a cancelled context.
CheckStart(s, e) ==
    /\ checker[s][e] = "waiting"
    /\ checker' = [checker EXCEPT ![s][e] = "checking"]
    /\ UNCHANGED <<current, cancelled, healthy, refuted, breaker, next, slots, req>>

\* The answer of the endpoint, or an error, decides the flag.  A check whose
\* context is cancelled ends with an error whatever the endpoint would answer.
CheckEnd(s, e, answer) ==
    /\ checker[s][e] = "checking"
    /\ LET ok == answer = "good" /\ s \notin cancelled IN
       /\ healthy' = [healthy EXCEPT ![s][e] = ok]
       /\ req' = Steadied(s, e, ok)
    /\ refuted' = [refuted EXCEPT ![s][e] = @ \/ (answer = "bad" /\ s \notin cancelled)]
    /\ checker' = [checker EXCEPT ![s][e] = "waiting"]
    /\ UNCHANGED <<current, cancelled, breaker, next, slots>>

\* Mutant: the checks are started with a context nobody cancels.
CheckStopNever(s, e) == FALSE

CheckStop(s, e) ==
    /\ checker[s][e] = "waiting"
    /\ s \in cancelled
    /\ checker' = [checker EXCEPT ![s][e] = "stopped"]
    /\ UNCHANGED <<current, cancelled, healthy, refuted, breaker, next, slots, req>>

-------------------------------------------------------------------------------
(* Requests, up to the decision to forward.                                 *)

Set(r, new) == req' = [req EXCEPT ![r] = new]

\* routerManager.ServeHTTP loads the current snapshot once.
Route(r) ==
    /\ req[r].pc = "new"
    /\ Set(r, [req[r] EXCEPT !.pc = "routed", !.snap = current])
    /\ UNCHANGED <<current, cancelled, healthy, checker, refuted, breaker, next, slots>>

Holding(r) == req[r].pc \in {"admitted", "pick", "probe", "picked", "inflight", "respond"}

Answered(r, how) == [req[r] EXCEPT !.pc = "done", !.outcome = how, !.steady = {}]

\* Mutant: the slot is given back where the response is written, not deferred.
SlotsAfterEarly(r, how) ==
    IF Concurrency = 0 \/ how # "served" THEN slots ELSE [slots EXCEPT ![req[r].snap] = @ - 1]

\* The deferred receive from the semaphore runs on every way out of the handler.
SlotsAfter(r, how) ==
    IF Concurrency = 0 THEN slots ELSE [slots EXCEPT ![req[r].snap] = @ - 1]

Leave(r, how) == /\ Set(r, Answered(r, how))
                 /\ slots' = SlotsAfter(r, how)

Full(s) == Concurrency > 0 /\ slots[s] >= Concurrency

\* Header and body limits answer before the semaphore is touched; a full
\* semaphore answers 429.
Refuse(r) ==
    /\ req[r].pc = "routed"
    /\ Set(r, Answered(r, "refused"))
    /\ UNCHANGED <<current, cancelled, healthy, checker, refuted, breaker, next, slots>>

Admit(r) ==
    /\ req[r].pc = "routed"
    /\ ~Full(req[r].snap)
    /\ Set(r, [req[r] EXCEPT !.pc = "admitted"])
    /\ slots' = IF Concurrency = 0 THEN slots ELSE [slots EXCEPT ![req[r].snap] = @ + 1]
    /\ UNCHANGED <<current, cancelled, healthy, checker, refuted, breaker, next>>

\* 401, 403, rate limit, cache hit, or a body that is too large or not JSON.
PolicyAnswers(r) ==
    /\ req[r].pc = "admitted"
    /\ Leave(r, "policy")
    /\ UNCHANGED <<current, cancelled, healthy, checker, refuted, breaker, next>>

Forward(r) ==
    /\ req[r].pc = "admitted"
    /\ Set(r, [req[r] EXCEPT !.pc = "pick", !.attempt = 1])
    /\ UNCHANGED <<current, cancelled, healthy, checker, refuted, breaker, next, slots>>

-------------------------------------------------------------------------------
(* pick: one atomic increment, then one atomic load per endpoint looked at.  *)

PickStart(r) ==
    LET s == req[r].snap IN
    /\ req[r].pc = "pick"
    /\ Set(r, [req[r] EXCEPT !.pc = "probe", !.start = next[s], !.offset = 0,
                             !.steady = {e \in Endpoints : healthy[s][e]}])
    /\ next' = [next EXCEPT ![s] = (@ + 1) % Count]
    /\ UNCHANGED <<current, cancelled, healthy, checker, refuted, breaker, slots>>

\* Mutant: the scan reads the shared counter again for each endpoint.
CandidateRereads(r) == (next[req[r].snap] + req[r].offset) % Count

Candidate(r) == (req[r].start + req[r].offset) % Count

PickProbe(r) ==
    LET e == Candidate(r) IN
    /\ req[r].pc = "probe"
    /\ req[r].offset < Count
    /\ IF healthy[req[r].snap][e]
         THEN Set(r, [req[r] EXCEPT !.pc = "picked", !.endpoint = e, !.steady = {},
                                    !.start = 0, !.offset = 0])
         ELSE Set(r, [req[r] EXCEPT !.offset = @ + 1])
    /\ UNCHANGED <<current, cancelled, healthy, checker, refuted, breaker, next, slots>>

\* Mutant: forward waits for an endpoint to become healthy.
PickNoneRetries(r) ==
    /\ req[r].pc = "probe"
    /\ req[r].offset = Count
    /\ Set(r, [req[r] EXCEPT !.pc = "pick"])
    /\ UNCHANGED <<current, cancelled, healthy, checker, refuted, breaker, next, slots>>

\* "no healthy upstream": forward gives up at once, whatever attempts are left.
PickNone(r) ==
    /\ req[r].pc = "probe"
    /\ req[r].offset = Count
    /\ Leave(r, "noHealthy")
    /\ UNCHANGED <<current, cancelled, healthy, checker, refuted, breaker, next>>

-------------------------------------------------------------------------------
(* The attempt: breaker.Execute around RoundTrip.                            *)

\* gobreaker (external): half-open lets one request through at a time.
BreakerAllows(s, e) ==
    \/ breaker[s][e].state = "closed"
    \/ /\ breaker[s][e].state = "half"
       /\ \A k \in Requests : ~(/\ req[k].pc = "inflight" /\ req[k].counted
                                /\ req[k].snap = s /\ req[k].endpoint = e)

\* gobreaker (external): a success closes a half-open breaker, a failure opens
\* it, enough consecutive failures open a closed one.
BreakerAfter(b, ok) ==
    IF ok THEN [state |-> "closed", fails |-> 0]
    ELSE IF b.state = "half" \/ b.fails + 1 >= Failures
           THEN [state |-> "open", fails |-> 0]
           ELSE [b EXCEPT !.fails = @ + 1]

\* Results of calls begun before the breaker changed state do not count.
Uncounted(q, s, e) ==
    [k \in Requests |-> IF q[k].pc = "inflight" /\ q[k].snap = s /\ q[k].endpoint = e
                          THEN [q[k] EXCEPT !.counted = FALSE] ELSE q[k]]

\* gobreaker (external): the open period is over.
BreakerHalfOpens(s, e) ==
    /\ breaker[s][e].state = "open"
    /\ breaker' = [breaker EXCEPT ![s][e].state = "half"]
    /\ req' = Uncounted(req, s, e)
    /\ UNCHANGED <<current, cancelled, healthy, checker, refuted, next, slots>>

\* Mutant: the retry loop forgets to look at the method.
AttemptsAlways(r) == 1 + Retries

Attempts(r) == IF r \in Retryable THEN 1 + Retries ELSE 1

LastAttempt(r) == req[r].attempt >= Attempts(r)

\* Mutant: the response of a failed attempt is not closed.
NextAttemptLeaking(q) == [q EXCEPT !.pc = "pick", !.attempt = @ + 1]

\* The loop closes the 5xx response it is not going to return.
NextAttempt(q) == [q EXCEPT !.pc = "pick", !.attempt = @ + 1, !.bodies = 0]

\* The breaker refuses: an error without a response.
CallRefused(r) ==
    /\ req[r].pc = "picked"
    /\ ~BreakerAllows(req[r].snap, req[r].endpoint)
    /\ IF LastAttempt(r)
         THEN Leave(r, "badGateway")
         ELSE Set(r, NextAttempt(req[r])) /\ UNCHANGED slots
    /\ UNCHANGED <<current, cancelled, healthy, checker, refuted, breaker, next>>

CallStart(r) ==
    /\ req[r].pc = "picked"
    /\ BreakerAllows(req[r].snap, req[r].endpoint)
    /\ Set(r, [req[r] EXCEPT !.pc = "inflight", !.counted = TRUE,
                             !.calls = IF req[r].expired THEN @ ELSE @ + 1])
    /\ UNCHANGED <<current, cancelled, healthy, checker, refuted, breaker, next, slots>>

\* What the breaker makes of a result; deadline and cancellation are excluded.
Judged(r, result) ==
    LET s == req[r].snap
        e == req[r].endpoint
        b == breaker[s][e] IN
    IF result = "expired" \/ ~req[r].counted THEN b ELSE BreakerAfter(b, result = "ok")

CallEnd(r, result) ==
    LET s == req[r].snap
        e == req[r].endpoint
        b == Judged(r, result)
        q == [req[r] EXCEPT !.counted = FALSE, !.expired = @ \/ result = "expired"]
        hasBody == result \in {"ok", "5xx"}
        new == CASE result = "ok" -> [q EXCEPT !.pc = "respond", !.bodies = @ + 1]
                 [] result = "5xx" /\ LastAttempt(r) ->
                       [q EXCEPT !.pc = "respond", !.bodies = @ + 1]
                 [] result # "ok" /\ ~LastAttempt(r) ->
                       NextAttempt([q EXCEPT !.bodies = IF hasBody THEN @ + 1 ELSE @])
                 [] OTHER -> [q EXCEPT !.pc = "done", !.outcome = "badGateway"]
    IN
    /\ req[r].pc = "inflight"
    /\ req[r].expired => result = "expired"
    /\ breaker' = [breaker EXCEPT ![s][e] = b]
    /\ req' = LET moved == [req EXCEPT ![r] = new] IN
              IF b.state = breaker[s][e].state THEN moved ELSE Uncounted(moved, s, e)
    /\ slots' = IF new.pc = "done" THEN SlotsAfter(r, "badGateway") ELSE slots
    /\ UNCHANGED <<current, cancelled, healthy, checker, refuted, next>>

\* writeResponse, then the deferred Close and the deferred release.
Respond(r) ==
    /\ req[r].pc = "respond"
    /\ Set(r, [Answered(r, "served") EXCEPT !.bodies = @ - 1])
    /\ slots' = SlotsAfter(r, "served")
    /\ UNCHANGED <<current, cancelled, healthy, checker, refuted, breaker, next>>

-------------------------------------------------------------------------------
Results == {"ok", "5xx", "error", "expired"}

Step(r) == \/ Route(r) \/ Refuse(r) \/ Admit(r) \/ PolicyAnswers(r) \/ Forward(r)
           \/ PickStart(r) \/ PickProbe(r) \/ PickNone(r)
           \/ CallRefused(r) \/ CallStart(r)
           \/ \E result \in Results : CallEnd(r, result)
           \/ Respond(r)

Check(s, e) == \/ CheckStart(s, e) \/ CheckStop(s, e)
               \/ \E answer \in {"good", "bad"} : CheckEnd(s, e, answer)

Next == \/ Activate
        \/ \E s \in Snapshots : CancelPrevious(s)
        \/ \E s \in Snapshots, e \in Endpoints : Check(s, e) \/ BreakerHalfOpens(s, e)
        \/ \E r \in Requests : Step(r)

Spec == Init /\ [][Next]_vars

\* Goroutines that can run do; a round trip ends at the latest at the route's
\* deadline; a select with a cancelled context takes that branch some day.
Fairness == /\ \A r \in Requests : WF_vars(Step(r))
            /\ \A s \in Snapshots : /\ WF_vars(CancelPrevious(s))
                                    /\ \A e \in Endpoints : /\ WF_vars(Check(s, e))
                                                            /\ SF_vars(CheckStop(s, e))

FairSpec == Spec /\ Fairness

-------------------------------------------------------------------------------
(***************************************************************************)
(* Properties.                                                             *)
(***************************************************************************)

\* Type invariant; a semaphore channel never holds more than its capacity.
TypeOK ==
    /\ current \in Snapshots
    /\ cancelled \subseteq Snapshots
    /\ healthy \in [Snapshots -> [Endpoints -> BOOLEAN]]
    /\ checker \in [Snapshots -> [Endpoints -> {"none", "waiting", "checking", "stopped"}]]
    /\ refuted \in [Snapshots -> [Endpoints -> BOOLEAN]]
    /\ breaker \in [Snapshots -> [Endpoints -> Breaker]]
    /\ next \in [Snapshots -> Endpoints]
    /\ slots \in [Snapshots -> 0..Concurrency]
    /\ \A r \in Requests :
          /\ req[r].pc \in {"new", "routed", "admitted", "pick", "probe", "picked",
                            "inflight", "respond", "done"}
          /\ req[r].snap \in Snapshots \cup {0}
          /\ req[r].offset \in 0..Count
          /\ req[r].endpoint \in Endpoints
          /\ req[r].outcome \in {"none", "refused", "policy", "noHealthy", "badGateway", "served"}

Holders(s) == {r \in Requests : Holding(r) /\ req[r].snap = s}

\* The semaphore of serveHTTP counts exactly the requests between its acquire and
\* the handler's return, whichever of its returns they take: no slot leaks and
\* none is given back twice.
SlotsAreExact ==
    /\ TypeOK
    /\ Concurrency > 0 => \A s \in Snapshots : slots[s] = Cardinality(Holders(s))

\* "Additional attempts for idempotent methods only": a request that must not be
\* repeated reaches an upstream at most once, any other at most 1 + Retries
\* times, through breaker refusals, 5xx answers and expired deadlines.
NeverSentTooOften ==
    \A r \in Requests : req[r].calls <= IF r \in Retryable THEN 1 + Retries ELSE 1

\* Upstream responses are closed: a request holds at most the one it is about to
\* return and none when it has answered.
ResponsesAreClosed ==
    \A r \in Requests : /\ req[r].bodies <= 1
                         /\ req[r].bodies = 1 => req[r].pc = "respond"

\* pick reads the health flags one by one while checks change them; still, it
\* does not give up when some endpoint was healthy all the time it looked
\* ("Upstreams are selected round-robin from currently healthy endpoints").
PickFindsSteadyEndpoint ==
    \A r \in Requests : req[r].pc = "probe" /\ req[r].offset = Count => req[r].steady = {}

\* Every request that was routed is answered: each arrives once, so in the end
\* none is on its way, whatever endpoints, breakers and reloads do.
EveryRequestAnswered == <>[](\A r \in Requests : req[r].pc \in {"new", "done"})

\* The goroutines of the snapshots that were replaced come to an end.
RetiredSnapshotsWindDown ==
    <>[](\A s \in Snapshots, e \in Endpoints : s < current => checker[s][e] = "stopped")

\* "no healthy upstream" has a cause: every endpoint of the request's snapshot has
\* itself failed a health check, or the snapshot has been replaced.  (A check that
\* the replacement cancels marks an endpoint unhealthy that is well, app.go:778,
\* which requests still on the old snapshot can meet.)
RefusedForACause ==
    \A r \in Requests : req[r].outcome = "noHealthy" =>
        \/ \A e \in Endpoints : refuted[req[r].snap][e]
        \/ req[r].snap < current
===============================================================================
