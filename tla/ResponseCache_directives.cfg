\* An answer that is to be revalidated is served from the cache.
SPECIFICATION Spec
CONSTANTS
    r1 = r1
    Requests <- One
    Shapes <- ThreeShapes
    PerPrincipal = TRUE
    Ttl = 2
    MaxAge = 1
    MaxTime = 3
INVARIANT DirectivesAreRespected
