CONSTANTS
    Runs = {r1}
    Scenarios <- MC_ScenariosSafety
SPECIFICATION Spec
INVARIANT TypeOK
INVARIANT NoDanglingRoute
INVARIANT CompensationRestoresWorld
\* Execute returns: committed, compensated and crashed runs take no step.
CHECK_DEADLOCK FALSE
