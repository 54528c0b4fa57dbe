CONSTANTS
    a = a
    b = b
    s1 = s1
    s2 = s2
    w1 = w1
    w2 = w2
    None = None
    Listings = {a, b}
    Workers = {w1, w2}
    Sessions = {s1, s2}
    Windows <- MCWindows
    Tasks <- MCTasks
    PreferredWindow = 1
    MaxDay = 1
    MaxSnapshots = 2
    MaxStarts = 3
    MaxFaults = 1
SPECIFICATION Spec
SYMMETRY AnyProcess
INVARIANTS AssessmentsInductive BaselinesComplete EvaluatedOnce NoLookAhead
PROPERTY PublishedForGood
CHECK_DEADLOCK FALSE
