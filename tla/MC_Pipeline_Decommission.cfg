CONSTANTS
    Runs = {r1}
    Scenarios <- MC_ScenariosDecommission
SPECIFICATION Spec
INVARIANT NoDanglingRoute
\* Execute returns: committed, compensated and crashed runs take no step.
CHECK_DEADLOCK FALSE
