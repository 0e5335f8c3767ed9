\* A graph with a cycle, an unknown override, undeclared writes and no
\* abstention path.
CONSTANTS
    Node <- MCNode
    Entry = "look"
    Terminals = {"answer"}
    NoNode = "nowhere"
    AbstainNode = "nowhere"
    Edges <- MCEdges
    Fallback <- MCFallback
    Reads <- MCReads
    Writes <- MCWrites
    MaxSteps = 5
    Field <- MCField
    Unset = "none"
    Always = "always"
    Holds <- MCHolds
    NodeResults <- MCNodeResults
    Timeout <- MCTimeout
    Suspends = {"dig"}
    WallTotal = 5
    UsdTotal = 0
    InitFields <- MCInitFields
SPECIFICATION FairSpec
INVARIANTS TypeOK FieldsAreDeclared FailuresFollowTheGraph
PROPERTIES OnlyAbstentionRunsBroke Terminates
CHECK_DEADLOCK FALSE
