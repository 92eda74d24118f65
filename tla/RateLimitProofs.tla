---------------------------- MODULE RateLimitProofs ---------------------------
(***************************************************************************)
(* The token bucket limits, and refusals do not starve, for every set of   *)
(* policies, each with its own rate, burst and window, and every length of *)
(* run.                                                                    *)
(***************************************************************************)
EXTENDS RateLimit, TLAPS

-------------------------------------------------------------------------------
(* Arithmetic.                                                             *)

\* Products of naturals are naturals and grow with either factor.
LEMMA Products ==
    /\ \A a, b \in Nat : a * b \in Nat
    /\ \A a, b, c \in Nat : a <= b => a * c <= b * c /\ c * a <= c * b
    /\ \A a, b \in Nat : a * (b + 1) = a * b + a /\ (b + 1) * a = b * a + a
    /\ \A a, b, c \in Nat : (a + b) * c = a * c + b * c
<1>1. \A a, b \in Nat : a * b \in Nat
  OBVIOUS
<1>2. \A a, b, c \in Nat : a <= b => a * c <= b * c /\ c * a <= c * b
  OBVIOUS
<1>3. \A a, b \in Nat : a * (b + 1) = a * b + a /\ (b + 1) * a = b * a + a
  OBVIOUS
<1>4. \A a, b, c \in Nat : (a + b) * c = a * c + b * c
  OBVIOUS
<1> QED BY <1>1, <1>2, <1>3, <1>4

\* A quotient that is rounded up covers what is divided.
LEMMA RoundedUp ==
    ASSUME NEW a \in Nat, NEW b \in Nat \ {0}
    PROVE  /\ (a + b - 1) \div b \in Nat
           /\ b * ((a + b - 1) \div b) >= a
OBVIOUS

\* Every range of naturals that starts at zero contains zero.
LEMMA ZeroIsIn == /\ \A n \in Nat : 0 \in 0..n
                  /\ \A m, n \in Nat : m + n \in Nat
                  /\ 0 \in Int /\ Nat \subseteq Int /\ 0 \in Nat
OBVIOUS

-------------------------------------------------------------------------------
(* The most and the least of the policies.                                 *)

\* The fastest and the slowest rate are rates of policies and bound them all.
LEMMA Rates ==
    /\ MaxRate \in Nat \ {0} /\ MinRate \in Nat \ {0}
    /\ \A p \in Policies : /\ Rate(p) \in Nat \ {0}
                           /\ Rate(p) <= MaxRate /\ MinRate <= Rate(p)
<1> DEFINE R == {Rate(p) : p \in Policies}
<1>1. R \subseteq Nat \ {0} /\ \A p \in Policies : Rate(p) \in R
  BY PoliciesAssumption
<1>2. \E n \in R : \A p \in Policies : n >= Rate(p)
  BY <1>1, ExtremesAssumption
<1>3. \E n \in R : \A p \in Policies : n <= Rate(p)
  BY <1>1, ExtremesAssumption
<1>4. MaxRate \in R /\ \A p \in Policies : MaxRate >= Rate(p)
  BY <1>2 DEF MaxRate
<1>5. MinRate \in R /\ \A p \in Policies : MinRate <= Rate(p)
  BY <1>3 DEF MinRate
<1> HIDE DEF R
<1> QED BY <1>1, <1>4, <1>5

\* So is the shortest window, of the windows.
LEMMA Windows ==
    /\ MinWindow \in Nat \ {0}
    /\ \A p \in Policies : p.window \in Nat \ {0} /\ MinWindow <= p.window
<1> DEFINE W == {p.window : p \in Policies}
<1>1. W \subseteq Nat \ {0} /\ \A p \in Policies : p.window \in W
  BY PoliciesAssumption
<1>2. \E n \in W : \A p \in Policies : n <= p.window
  BY <1>1, ExtremesAssumption
<1>3. MinWindow \in W /\ \A p \in Policies : MinWindow <= p.window
  BY <1>2 DEF MinWindow
<1> HIDE DEF W
<1> QED BY <1>1, <1>3

\* Every bucket fits into the largest and has room for a token.
LEMMA Sizes ==
    /\ Full \in Nat /\ Unit \in Nat \ {0}
    /\ \A p \in Policies : /\ Capacity(p) * Unit \in Nat
                           /\ Unit <= Capacity(p) * Unit
                           /\ Capacity(p) * Unit <= Full
<1> DEFINE C == {Capacity(p) : p \in Policies}
           M == CHOOSE n \in C : \A p \in Policies : n >= Capacity(p)
<1>1. C \subseteq Nat \ {0} /\ \A p \in Policies : Capacity(p) \in C
  BY PoliciesAssumption DEF Capacity
<1>2. \E n \in C : \A p \in Policies : n >= Capacity(p)
  BY <1>1, ExtremesAssumption
<1>3. M \in C /\ \A p \in Policies : M >= Capacity(p)
  BY <1>2
<1>4. Full = Unit * M
  BY DEF Full
<1> HIDE DEF C, M
<1>5. Unit \in Nat \ {0} /\ M \in Nat
  BY <1>1, <1>3, PoliciesAssumption
<1>6. Full \in Nat
  BY <1>4, <1>5, Products
<1>7. ASSUME NEW p \in Policies
      PROVE  /\ Capacity(p) * Unit \in Nat /\ Unit <= Capacity(p) * Unit
             /\ Capacity(p) * Unit <= Full
  <2>1. Capacity(p) \in Nat /\ 1 <= Capacity(p) /\ Capacity(p) <= M
    <3>1. Capacity(p) \in Nat \ {0} /\ M >= Capacity(p)
      BY <1>1, <1>3
    <3> QED BY <1>5, <3>1
  <2>2. 1 * Unit <= Capacity(p) * Unit /\ Capacity(p) * Unit \in Nat
    BY <1>5, <2>1, Products
  <2>3. Capacity(p) * Unit <= M * Unit
    BY <1>5, <2>1, Products
  <2> QED BY <1>4, <1>5, <2>2, <2>3
<1> QED BY <1>5, <1>6, <1>7

\* The ideal bucket refills no slower than any policy, and fills in the time for
\* which an unused key is kept.
LEMMA IdealRateFacts ==
    /\ IdealRate \in Nat
    /\ MaxRate <= IdealRate
    /\ Full <= (2 * MinWindow) * IdealRate
<1> DEFINE k == 2 * MinWindow
<1>1. k \in Nat \ {0} /\ Full \in Nat /\ MaxRate \in Nat
  BY Windows, Sizes, Rates
<1>2. ExpiryRate = (Full + k - 1) \div k
  BY DEF ExpiryRate
<1> HIDE DEF k
<1>3. ExpiryRate \in Nat /\ Full <= k * ExpiryRate
  BY <1>1, <1>2, RoundedUp
<1>4. IdealRate \in Nat /\ MaxRate <= IdealRate /\ ExpiryRate <= IdealRate
  BY <1>1, <1>3 DEF IdealRate
<1>5. k * ExpiryRate <= k * IdealRate /\ k * ExpiryRate \in Nat /\ k * IdealRate \in Nat
  BY <1>1, <1>3, <1>4, Products
<1> QED BY <1>1, <1>3, <1>4, <1>5 DEF k

-------------------------------------------------------------------------------
(* One call of the script.                                                 *)

\* What the script computes before it decides: at least what the slowest policy
\* would have refilled, at most what the ideal rate does.
LEMMA RefilledBounds ==
    ASSUME TypeOK, NEW p \in Policies
    PROVE  /\ Refilled(p) \in Nat
           /\ Refilled(p) <= Full
           /\ ~exists => Refilled(p) >= Unit
           /\ exists => /\ Refilled(p) <= tokens + (now - updated) * IdealRate
                        /\ \/ Refilled(p) >= Unit
                           \/ Refilled(p) >= tokens + (now - updated) * MinRate
<1> DEFINE cap == Capacity(p) * Unit
           gap == now - updated
<1>1. /\ Rate(p) \in Nat /\ Unit \in Nat \ {0} /\ tokens \in Nat /\ gap \in Nat
      /\ now \in Nat /\ exists \in BOOLEAN /\ Full \in Nat
  BY Rates, Sizes, TimeAssumption DEF TypeOK
<1>2. cap \in Nat /\ Unit <= cap /\ cap <= Full
  BY Sizes
<1>3. gap * Rate(p) \in Nat /\ gap * MinRate \in Nat /\ gap * IdealRate \in Nat
  BY <1>1, Rates, IdealRateFacts, Products
<1>4. gap * MinRate <= gap * Rate(p) /\ gap * Rate(p) <= gap * IdealRate
  <2>1. MinRate \in Nat /\ IdealRate \in Nat /\ MinRate <= Rate(p) /\ Rate(p) <= IdealRate
    BY <1>1, Rates, IdealRateFacts
  <2> HIDE DEF gap
  <2> QED BY <1>1, <2>1, Products
<1>5. CASE ~exists
  <2>1. Refilled(p) = Least(cap, cap + (now - now) * Rate(p))
    BY <1>5 DEF Refilled
  <2>2. (now - now) * Rate(p) = 0
    BY <1>1
  <2> HIDE DEF cap
  <2>3. Refilled(p) = cap
    BY <2>1, <2>2, <1>2 DEF Least
  <2> QED BY <1>1, <1>2, <1>5, <2>3
<1>6. CASE exists
  <2>1. Refilled(p) = Least(cap, tokens + gap * Rate(p))
    BY <1>6 DEF Refilled
  <2> DEFINE a == gap * Rate(p)
             b == gap * MinRate
             c == gap * IdealRate
  <2>2. Refilled(p) = Least(cap, tokens + a) /\ a \in Nat /\ b \in Nat /\ c \in Nat
        /\ b <= a /\ a <= c
    BY <1>3, <1>4, <2>1
  <2> HIDE DEF cap, a, b, c
  <2>3. /\ Refilled(p) \in Nat /\ Refilled(p) <= Full
        /\ Refilled(p) <= tokens + c
        /\ Refilled(p) >= Unit \/ Refilled(p) >= tokens + b
    BY <1>1, <1>2, <2>2 DEF Least
  <2> QED BY <1>6, <2>3 DEF b, c
<1> QED BY <1>5, <1>6, <1>1

-------------------------------------------------------------------------------
(* The inductive invariant: the real bucket never runs ahead of the ideal    *)
(* one, and never falls behind the slowest possible refill.                  *)

\* The ideal bucket holds at least what the real one will find at its next call,
\* and is full where the key is gone.
Covered ==
    IF exists THEN \/ credit >= Full
                   \/ credit >= tokens + (now - updated) * IdealRate
              ELSE credit >= Full

\* The tokens saved at the last call are one at least, or what the slowest rate
\* refilled since the last admission.
Replenished ==
    exists => /\ admittedAt <= updated
              /\ tokens >= Unit \/ tokens >= (updated - admittedAt) * MinRate

\* The key is kept for two windows at least.
Kept == exists => expires >= updated + 2 * MinWindow

BucketInv == TypeOK /\ Covered /\ Replenished /\ Kept

\* The amounts the bucket is compared by.
LEMMA Amounts ==
    ASSUME TypeOK
    PROVE  /\ Full \in Nat /\ Unit \in Nat \ {0} /\ MaxTime \in Nat /\ credit \in Int
           /\ now \in Nat /\ tokens \in Nat /\ updated \in Nat /\ now - updated \in Nat
           /\ expires \in Nat /\ exists \in BOOLEAN /\ now <= MaxTime /\ tokens <= Full
           /\ admittedAt \in Nat /\ admittedAt <= now /\ updated <= now
           /\ IdealRate \in Nat /\ MinRate \in Nat /\ MinWindow \in Nat
           /\ (now - updated) * IdealRate \in Nat
           /\ (now + 1 - updated) * IdealRate = (now - updated) * IdealRate + IdealRate
<1>1. /\ Full \in Nat /\ Unit \in Nat \ {0} /\ MaxTime \in Nat /\ credit \in Int
      /\ IdealRate \in Nat /\ MinRate \in Nat /\ MinWindow \in Nat
  BY TimeAssumption, Sizes, Rates, Windows, IdealRateFacts DEF TypeOK
<1>2. /\ now \in Nat /\ tokens \in Nat /\ updated \in Nat /\ now - updated \in Nat
      /\ expires \in Nat /\ exists \in BOOLEAN /\ now <= MaxTime /\ tokens <= Full
      /\ admittedAt \in Nat /\ admittedAt <= now /\ updated <= now
  BY <1>1 DEF TypeOK
<1>3. (now - updated) * IdealRate \in Nat
  BY <1>1, <1>2, Products
<1>4. now + 1 - updated = (now - updated) + 1
  BY <1>2
<1>5. (now + 1 - updated) * IdealRate = (now - updated) * IdealRate + IdealRate
  BY <1>1, <1>2, <1>4, Products
<1> QED BY <1>1, <1>2, <1>3, <1>5

\* A call of the script by any gateway keeps the invariant.
LEMMA EvalKeepsBucketInv ==
    ASSUME BucketInv, NEW p \in Policies, Eval(p)
    PROVE  BucketInv'
<1> DEFINE gap == (now - updated) * IdealRate
           slow == (now - updated) * MinRate
           before == (updated - admittedAt) * MinRate
<1>1. /\ Full \in Nat /\ gap \in Nat /\ Unit \in Nat \ {0} /\ MaxTime \in Nat
      /\ now \in 0..MaxTime /\ updated \in 0..now /\ tokens \in Nat /\ credit \in Int
      /\ admittedAt \in 0..now /\ exists \in BOOLEAN
  BY Amounts DEF BucketInv, TypeOK
<1>2. /\ Refilled(p) \in Nat /\ Refilled(p) <= Full
      /\ ~exists => Refilled(p) >= Unit
      /\ exists => /\ Refilled(p) <= tokens + gap
                   /\ Refilled(p) >= Unit \/ Refilled(p) >= tokens + slow
  BY RefilledBounds DEF BucketInv
<1>3. (now' - updated') * IdealRate = 0
  BY <1>1, IdealRateFacts DEF Eval
<1>4. KeepFor(p) \in Nat /\ KeepFor(p) >= 2 * MinWindow /\ MinWindow \in Nat
  BY Windows DEF KeepFor
<1>5. slow \in Nat
  BY Amounts, Products DEF BucketInv
<1>6. ASSUME admittedAt <= updated
      PROVE  before \in Nat /\ (now - admittedAt) * MinRate = slow + before
  <2>1. updated - admittedAt \in Nat /\ now - updated \in Nat /\ MinRate \in Nat
        /\ now - admittedAt = (now - updated) + (updated - admittedAt)
    BY <1>1, <1>6, Rates
  <2> QED BY <2>1, Products
<1> HIDE DEF gap, slow, before
<1>7. TokensLeft(p) \in Nat /\ TokensLeft(p) <= Full
  BY <1>1, <1>2 DEF TokensLeft, Admits
<1>8. TypeOK'
  <2>1. expires' \in Nat
    BY <1>1, <1>4 DEF Eval
  <2>2. tokens' \in 0..Full /\ credit' \in Int /\ admittedAt' \in 0..now /\ updated' \in 0..now
    BY <1>1, <1>7 DEF Eval
  <2> QED BY <1>1, <2>1, <2>2 DEF Eval, TypeOK
<1>9. Covered'
  <2>1. credit >= Refilled(p)
    BY <1>1, <1>2 DEF BucketInv, Covered, gap
  <2>2. credit' >= tokens'
    BY <1>1, <1>2, <2>1 DEF Eval, TokensLeft, Admits
  <2> QED BY <1>1, <1>3, <1>7, <2>2 DEF Covered, Eval
<1>10. Replenished'
  <2>1. CASE Admits(p)
    <3>1. admittedAt' = now /\ updated' = now /\ tokens' \in Nat
      BY <1>7, <2>1 DEF Eval
    <3>2. (now - now) * MinRate = 0
      BY <1>1, Rates
    <3> QED BY <1>1, <3>1, <3>2 DEF Replenished
  <2>2. CASE ~Admits(p)
    <3>1. exists /\ Refilled(p) >= tokens + slow /\ Refilled(p) < Unit
      BY <1>1, <1>2, <2>2 DEF Admits
    <3>2. admittedAt <= updated /\ (tokens >= Unit \/ tokens >= before)
      BY <3>1 DEF BucketInv, Replenished, before
    <3>3. tokens' = Refilled(p) /\ updated' = now /\ admittedAt' = admittedAt
      BY <2>2 DEF Eval, TokensLeft
    <3>4. Refilled(p) >= (now - admittedAt) * MinRate
      BY <1>1, <1>2, <1>5, <1>6, <3>1, <3>2
    <3> QED BY <1>1, <3>3, <3>4 DEF Replenished
  <2> QED BY <2>1, <2>2
<1>11. Kept'
  BY <1>1, <1>4 DEF Eval, Kept
<1> QED BY <1>8, <1>9, <1>10, <1>11 DEF BucketInv

\* A tick keeps it, the tick that removes the key included: in the time for which
\* any policy keeps the key the ideal bucket has filled.
LEMMA TickKeepsBucketInv ==
    ASSUME BucketInv, Tick
    PROVE  BucketInv'
<1> DEFINE gap == (now - updated) * IdealRate
<1>1. /\ Full \in Nat /\ gap \in Nat /\ MaxTime \in Nat /\ MinWindow \in Nat
      /\ now \in 0..MaxTime /\ updated \in 0..now /\ tokens \in 0..Full /\ credit \in Int
      /\ admittedAt \in 0..now /\ exists \in BOOLEAN /\ IdealRate \in Nat /\ expires \in Nat
      /\ (now + 1 - updated) * IdealRate = gap + IdealRate
  BY Amounts DEF BucketInv, TypeOK
<1>2. credit' = Least(Full, credit + IdealRate) /\ now' = now + 1 /\ credit' \in Int
  BY <1>1 DEF Tick, Least
<1>3. CASE exists /\ now + 1 >= expires
  <2>1. exists' = FALSE /\ tokens' = 0 /\ updated' = 0 /\ expires' = 0 /\ admittedAt' = admittedAt
    BY <1>3 DEF Tick
  <2>2. TypeOK'
    <3>1. now' \in 0..MaxTime /\ admittedAt' \in 0..now' /\ 0 \in 0..now' /\ 0 \in 0..Full
      BY <1>1, <1>2, <2>1, ZeroIsIn DEF Tick
    <3> QED BY <1>2, <2>1, <3>1, ZeroIsIn, Zenon DEF TypeOK
  <2>3. Covered'
    <3> DEFINE k == 2 * MinWindow
    <3>1. now + 1 - updated >= k /\ now + 1 - updated \in Nat /\ k \in Nat
      BY <1>1, <1>3 DEF BucketInv, Kept
    <3>2. Full <= k * IdealRate
      BY IdealRateFacts
    <3> HIDE DEF k
    <3>3. k * IdealRate <= gap + IdealRate /\ k * IdealRate \in Nat
      BY <1>1, <3>1, Products
    <3>4. Full <= gap + IdealRate
      BY <1>1, <3>2, <3>3
    <3>5. credit >= Full \/ credit >= tokens + gap
      BY <1>3 DEF BucketInv, Covered
    <3> HIDE DEF gap
    <3>6. credit' >= Full
      BY <1>1, <1>2, <3>4, <3>5 DEF Least
    <3> QED BY <2>1, <3>6 DEF Covered
  <2> QED BY <2>1, <2>2, <2>3 DEF BucketInv, Replenished, Kept
<1>4. CASE ~(exists /\ now + 1 >= expires)
  <2>1. UNCHANGED <<exists, tokens, updated, expires, admittedAt>>
    BY <1>4 DEF Tick
  <2>2. TypeOK'
    BY <1>1, <1>2, <2>1 DEF TypeOK, Tick, BucketInv
  <2>3. Covered'
    <3>1. (now' - updated') * IdealRate = gap + IdealRate
      BY <1>1, <1>2, <2>1
    <3>2. IF exists THEN credit >= Full \/ credit >= tokens + gap ELSE credit >= Full
      BY DEF BucketInv, Covered
    <3> HIDE DEF gap
    <3>3. \/ credit' >= Full
          \/ exists /\ credit' >= tokens + (gap + IdealRate)
      BY <1>1, <1>2, <3>2 DEF Least
    <3> QED BY <2>1, <3>1, <3>3 DEF Covered
  <2> QED BY <2>1, <2>2, <2>3 DEF BucketInv, Replenished, Kept
<1> QED BY <1>3, <1>4

\* The invariant holds in every state of every run.
THEOREM BucketInvHolds == Spec => []BucketInv
<1>1. Init => BucketInv
  <2>1. Full \in Nat /\ MaxTime \in Nat
    BY Sizes, TimeAssumption
  <2>2. 0 \in 0..Full /\ 0 \in 0..MaxTime
    BY <2>1, ZeroIsIn
  <2>3. Init => TypeOK
    BY <2>1, <2>2, ZeroIsIn, Zenon DEF Init, TypeOK
  <2>4. Init => ~exists /\ Covered
    BY <2>1 DEF Init, Covered
  <2> QED BY <2>3, <2>4, Zenon DEF BucketInv, Replenished, Kept
<1>2. BucketInv /\ [Next]_vars => BucketInv'
  <2> SUFFICES ASSUME BucketInv, [Next]_vars PROVE BucketInv'
    OBVIOUS
  <2>1. CASE Tick
    BY <2>1, TickKeepsBucketInv
  <2>2. ASSUME NEW p \in Policies, Eval(p) PROVE BucketInv'
    BY <2>2, EvalKeepsBucketInv
  <2>3. CASE UNCHANGED vars
    BY <2>3 DEF vars, BucketInv, TypeOK, Covered, Replenished, Kept
  <2> QED BY <2>1, <2>2, <2>3 DEF Next
<1> QED BY <1>1, <1>2, PTL DEF Spec

-------------------------------------------------------------------------------
(* The results.                                                            *)

\* NeverAdmitsTooMuch: whatever the policies and their windows, all gateways
\* together admit only what an ideal bucket of the largest size, refilled at the
\* faster of the fastest rate and the rate of expiry, would (allowRequest).
THEOREM BucketLimits == Spec => []NeverAdmitsTooMuch
<1>1. BucketInv => NeverAdmitsTooMuch
  BY Amounts DEF BucketInv, Covered, NeverAdmitsTooMuch
<1> QED BY <1>1, BucketInvHolds, PTL

\* RefusalsDoNotStarve: once the slowest rate has refilled a token since the last
\* admission any policy admits the next call, because the script saves what it
\* refilled when it refuses too.
THEOREM RefusedCallersAreAdmitted == Spec => []RefusalsDoNotStarve
<1>1. BucketInv => RefusalsDoNotStarve
  <2> SUFFICES ASSUME BucketInv, (now - admittedAt) * MinRate >= Unit, NEW p \in Policies
               PROVE  Refilled(p) >= Unit
    BY DEF RefusalsDoNotStarve, Admits
  <2>1. CASE ~exists
    BY <2>1, RefilledBounds DEF BucketInv
  <2>2. CASE exists
    <3> DEFINE slow == (now - updated) * MinRate
               before == (updated - admittedAt) * MinRate
    <3>1. /\ Unit \in Nat /\ tokens \in Nat /\ MinRate \in Nat /\ Refilled(p) \in Nat
          /\ updated - admittedAt \in Nat /\ now - updated \in Nat
          /\ now - admittedAt = (now - updated) + (updated - admittedAt)
      BY <2>2, Amounts, RefilledBounds DEF BucketInv, Replenished
    <3>2. (now - admittedAt) * MinRate = slow + before /\ slow \in Nat /\ before \in Nat
      BY <3>1, Products
    <3>3. Refilled(p) >= Unit \/ Refilled(p) >= tokens + slow
      BY <2>2, RefilledBounds DEF BucketInv
    <3>4. tokens >= Unit \/ tokens >= before
      BY <2>2 DEF BucketInv, Replenished
    <3>5. slow + before >= Unit
      BY <3>2
    <3> HIDE DEF slow, before
    <3> QED BY <3>1, <3>2, <3>3, <3>4, <3>5
  <2> QED BY <2>1, <2>2, Amounts DEF BucketInv
<1> QED BY <1>1, BucketInvHolds, PTL
===============================================================================
