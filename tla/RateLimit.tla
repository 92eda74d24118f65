------------------------------- MODULE RateLimit ------------------------------
(***************************************************************************)
(* The distributed rate limit: one Redis hash per route and principal,     *)
(* changed by the token-bucket script, which Redis runs atomically for     *)
(* every gateway.  Gateways on different configuration versions may call   *)
(* it with different policies, windows included, for the same key.         *)
(*                                                                         *)
(* Amounts are kept in units of 1/Unit token, so that the refill per tick   *)
(* requests / window of every policy is a whole number.                     *)
(***************************************************************************)
EXTENDS Integers

CONSTANTS Policies,   \* [requests, burst, window] in force at some gateway
          Unit,       \* units to a token: a multiple of every window will do
          MaxTime     \* bound: clock ticks explored

Capacity(p) == p.requests + p.burst

\* What a policy refills per tick, a millisecond of Redis TIME.
Rate(p) == (p.requests * Unit) \div p.window

\* config.go:271: requests and window positive, burst not negative.  A window has
\* at least a millisecond: below it the script would divide by zero.
ASSUME PoliciesAssumption ==
    /\ Unit \in Nat \ {0}
    /\ Policies \subseteq [requests : Nat \ {0}, burst : Nat, window : Nat \ {0}]
    /\ \A p \in Policies : Rate(p) \in Nat \ {0} /\ Rate(p) * p.window = p.requests * Unit

\* Gateways are finitely many: one policy is the fastest, one the slowest, one the
\* largest and one keeps the key for the shortest time.
ASSUME ExtremesAssumption ==
    /\ \E p \in Policies : \A q \in Policies : Rate(q) <= Rate(p)
    /\ \E p \in Policies : \A q \in Policies : Rate(p) <= Rate(q)
    /\ \E p \in Policies : \A q \in Policies : Capacity(q) <= Capacity(p)
    /\ \E p \in Policies : \A q \in Policies : p.window <= q.window

ASSUME TimeAssumption == MaxTime \in Nat

VARIABLES now,       \* Redis TIME
          exists,    \* the hash is there
          tokens,    \* its field tokens, in units of 1/Unit
          updated,   \* its field updated
          expires,   \* when PEXPIRE removes it
          credit,    \* history: what an ideal bucket that never expires holds
          admittedAt \* history: when a request was admitted last

vars == <<now, exists, tokens, updated, expires, credit, admittedAt>>

Least(a, b) == IF a <= b THEN a ELSE b

-------------------------------------------------------------------------------
(* The most and the least that any gateway's policy allows.                *)

MaxRate == CHOOSE n \in {Rate(p) : p \in Policies} : \A p \in Policies : n >= Rate(p)
MinRate == CHOOSE n \in {Rate(p) : p \in Policies} : \A p \in Policies : n <= Rate(p)
MinWindow == CHOOSE n \in {p.window : p \in Policies} : \A p \in Policies : n <= p.window
Full == Unit * CHOOSE n \in {Capacity(p) : p \in Policies} : \A p \in Policies : n >= Capacity(p)

\* A key that nobody uses is gone, and full again, after two of the shortest
\* windows: the rate at which that fills the largest bucket, rounded up.
ExpiryRate == (Full + 2 * MinWindow - 1) \div (2 * MinWindow)

\* The ideal bucket: as large as the largest, and refilled at the fastest rate or
\* at the one at which keys expire, whichever is higher.
IdealRate == IF MaxRate >= ExpiryRate THEN MaxRate ELSE ExpiryRate

-------------------------------------------------------------------------------
Init == /\ now = 0
        /\ exists = FALSE
        /\ tokens = 0
        /\ updated = 0
        /\ expires = 0
        /\ credit = Full
        /\ admittedAt = 0

\* Tokens after the refill since the last call, at the rate of the policy that
\* calls; an absent hash is a full bucket.
Refilled(p) ==
    LET before == IF exists THEN tokens ELSE Capacity(p) * Unit
        since  == IF exists THEN updated ELSE now
    IN  Least(Capacity(p) * Unit, before + (now - since) * Rate(p))

Admits(p) == Refilled(p) >= Unit

\* Mutant: the key lives for one window only.
KeepOneWindow(p) == p.window

\* PEXPIRE: twice the window of the policy that calls.
KeepFor(p) == 2 * p.window

\* Mutant: a refused call saves the time but not the tokens refilled so far.
TokensLeftUnsaved(p) == IF Admits(p) THEN Refilled(p) - Unit ELSE tokens

TokensLeft(p) == IF Admits(p) THEN Refilled(p) - Unit ELSE Refilled(p)

\* allowRequest where Redis answers: the whole script.  (Where Redis does not
\* answer, the request is let in and the hash stays as it is.)
Eval(p) ==
    /\ exists' = TRUE
    /\ tokens' = TokensLeft(p)
    /\ updated' = now
    /\ expires' = now + KeepFor(p)
    /\ credit' = IF Admits(p) THEN credit - Unit ELSE credit
    /\ admittedAt' = IF Admits(p) THEN now ELSE admittedAt
    /\ UNCHANGED now

\* One tick: Redis removes an expired key, the ideal bucket refills.
Tick ==
    /\ now < MaxTime
    /\ now' = now + 1
    /\ UNCHANGED admittedAt
    /\ credit' = Least(Full, credit + IdealRate)
    /\ IF exists /\ now + 1 >= expires
         THEN exists' = FALSE /\ tokens' = 0 /\ updated' = 0 /\ expires' = 0
         ELSE UNCHANGED <<exists, tokens, updated, expires>>

Next == Tick \/ \E p \in Policies : Eval(p)

Spec == Init /\ [][Next]_vars

-------------------------------------------------------------------------------
\* Type invariant: a bucket holds between nothing and its capacity.
TypeOK == /\ now \in 0..MaxTime
          /\ exists \in BOOLEAN
          /\ tokens \in 0..Full
          /\ updated \in 0..now
          /\ expires \in Nat
          /\ credit \in Int
          /\ admittedAt \in 0..now

\* The bucket limits: over any stretch of time all gateways together admit no
\* more than the largest bucket plus what the ideal rate refills, although they
\* call the script with different rates, capacities and windows, the key expires
\* and a fresh key is a full bucket.  The ideal rate is the fastest policy's own
\* unless the expiry gives more: where a burst is larger than the rate, or where a
\* policy with a short window expires what a policy with a long one drained.
NeverAdmitsTooMuch == TypeOK /\ credit >= 0

\* Refused calls do not push the refill away: when the slowest rate has had the
\* time to refill a token since the last admission, the next call is admitted by
\* any policy, however many were refused in between and by whichever policy.
RefusalsDoNotStarve ==
    (now - admittedAt) * MinRate >= Unit => \A p \in Policies : Admits(p)
===============================================================================
