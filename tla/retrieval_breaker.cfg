\* A live source and one that is not registered, under two concurrent requests
\* of one hop each: up to four calls of the live source at once.
CONSTANTS
    Request = {r1, r2}
    Source = {vector, ghost}
    Registered = {vector}
    Dense = {vector}
    Required = {vector}
    Hop = {hop}
    Main = main
    AllOrNothing = FALSE
    Threshold = 2
SPECIFICATION FairSpec
INVARIANTS BreakerCoherent OutageIsContained
PROPERTIES NeededLegsAnswered RequestsEnd BreakersReclose
