SPECIFICATION Spec
CONSTANTS
    Inputs <- MCInputs
    Locations <- MCLocations
INVARIANTS LongestPrefixServes RedirectsLeadBack OrderDoesNotMatter
CHECK_DEADLOCK FALSE
