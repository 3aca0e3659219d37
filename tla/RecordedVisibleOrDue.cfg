SPECIFICATION Spec
CONSTANTS
    Name = {a, b}
    Tags = {t, u}
    NoTags = NoTags
    Type = {counter, gauge}
    FreshPernament <- MCZeroed
    Hardcoded = 1
    MaxDatagrams = 3
SYMMETRY MCSymmetry
INVARIANT
    RecordedVisibleOrDue
