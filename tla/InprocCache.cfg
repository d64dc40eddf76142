SPECIFICATION Spec
CONSTANTS
    Threads = {1, 2}
    h1 = h1
    h2 = h2
    Nothing = Nothing
    event = event
    mutant = mutant
    Handles = {h1, h2}
    Cacheable = {h1}
    Objects = {event, mutant}
    Type <- Kinds
    Fds = {11, 12, 13, 14, 15, 16}
    Lookups <- Uses
    Closes <- Ends
    Given <- Names
INVARIANTS CacheExact RightObject
