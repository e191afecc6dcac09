CONSTANTS
    MaxSignals = 4
    Timeout = 4
SPECIFICATION Spec
INVARIANT TypeOK
PROPERTY LifecycleSpec
\* Run has returned or the process has ended: nothing is left to do.
CHECK_DEADLOCK FALSE
