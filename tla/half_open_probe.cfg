\* One source, two requests without hops, and a breaker that one failure opens.
CONSTANTS
    Request = {r1, r2}
    Source = {vector}
    Registered = {vector}
    Dense = {vector}
    Required = {vector}
    Hop = {}
    Main = main
    AllOrNothing = FALSE
    Threshold = 1
    NoCall = none
SPECIFICATION ProbeSpec
PROPERTIES OneProbe
