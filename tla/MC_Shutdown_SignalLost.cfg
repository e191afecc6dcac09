CONSTANTS
    MaxSignals = 3
    Timeout = 4
SPECIFICATION Spec
INVARIANT NoSignalLost
\* Run has returned or the process has ended: nothing is left to do.
CHECK_DEADLOCK FALSE
