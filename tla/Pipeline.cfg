\* Safety and liveness of the pipeline under the scheduling of FairSpec: three
\* datagrams of no line or two, channels of one, and totals of times that go both up and
\* down.
SPECIFICATION FairSpec
CONSTANTS
    Shapes <- MCShapes
    Capacity = 1
    MaxDatagrams = 3
    MaxLines = 2
    Elapsed <- MCElapsed
    Wrap = 3
INVARIANTS
    TypeOK
    StatsBalance
    DrainedShutdown
    AtMostOneLate
PROPERTIES
    CountsMonotone
    LinesAccounted
    ShutdownCompletes
    ChannelsDrain
