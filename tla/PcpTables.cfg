\* Three metrics, two of which get a pmID before the agent runs out of them, and two
\* sets of labels each.
SPECIFICATION Spec
CONSTANTS
    LastItem = 1
    Items = 2
    Clusters = 2
    Serials = 6
    Metric = {a, b, c}
    Label = {x, y}
    Hardcoded = 1
    DurationInstances = 2
    NoId = NoId
    MaxCount = 7
SYMMETRY MCSymmetry
INVARIANTS
    IdsDistinct
    NamesUsable
    NamesLost
    ReleasedOnce
CHECK_DEADLOCK FALSE
