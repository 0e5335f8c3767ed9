\* The parametric route: every interleaving of declines, timeouts, conflicts and
\* spending.
CONSTANTS
    ParametricTier = TRUE
    Timeout <- MCTimeout
    Costs = {0, 2}
    WallTotal = 6
    UsdTotal = 3
SPECIFICATION FairSpec
INVARIANTS NeverMisconfigured EvidenceWins DraftsAreShadowed
PROPERTIES BrokeRequestsAbstain
CHECK_DEADLOCK FALSE
