\* Three kinds of asker, one request after the other, beside an invalidation.
SPECIFICATION Spec
CONSTANTS
    r1 = r1
    Requests <- One
    Shapes <- ThreeShapes
    PerPrincipal = TRUE
    Ttl = 2
    MaxAge = 1
    MaxTime = 3
INVARIANTS HitsAreFresh InvalidationIsComplete
