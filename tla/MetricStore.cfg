\* The metric table whatever malloc leaves in memory: two names, two tag strings and two
\* types, three datagrams, any number of requests.
SPECIFICATION Spec
CONSTANTS
    Name = {a, b}
    Tags = {t, u}
    NoTags = NoTags
    Type = {counter, gauge}
    FreshPernament = {FALSE, TRUE}
    Hardcoded = 1
    MaxDatagrams = 3
SYMMETRY MCSymmetry
INVARIANTS
    TypeOK
    VerdictMatchesTable
    MappedOnce
    LabelsExposedOrDue
    LookupInRange
    MappedIsRecorded
    NamesReported
PROPERTIES
    NamespaceGrows
