\* Files of up to three lines and command lines of up to two options, with numbers below,
\* at and above the limit of a port, and defaults that are none of them.
SPECIFICATION Spec
CONSTANTS
    Setting <- MCSetting
    Default <- MCDefault
    PortLimit = 1
    UintLimit = 2
    MaxLines = 3
    MaxOptions = 2
    MaxInputs = 4
    NoName = NoName
INVARIANTS
    SettingsAsGiven
    FirstBadLine
    FilenameReleased
CHECK_DEADLOCK FALSE
