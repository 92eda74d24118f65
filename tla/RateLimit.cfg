\* Bursts up to the capacity, idle times beyond the expiry of the key.
SPECIFICATION Spec
CONSTANTS
    Policies <- LongShortSlow
    Unit = 4
    MaxTime = 12
INVARIANTS NeverAdmitsTooMuch RefusalsDoNotStarve
