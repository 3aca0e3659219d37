\* SIGUSR1 arrives at the main thread, which serves PCP.
SPECIFICATION FairSpec
CONSTANTS
    SignalThreads = {"pcp"}
    FileOpens = {TRUE}
    MaxSignals = 2
PROPERTY
    RequestServed
CHECK_DEADLOCK FALSE
