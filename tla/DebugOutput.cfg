\* The output file opens or does not, and SIGUSR1 arrives at a thread that takes none
\* of the mutexes.
SPECIFICATION FairSpec
CONSTANTS
    SignalThreads = {"other"}
    FileOpens = {TRUE, FALSE}
    MaxSignals = 3
INVARIANTS
    TypeOK
    RequestKept
PROPERTIES
    RequestServed
    PcpServed
