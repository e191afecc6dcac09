CONSTANTS
    Runs = {r1}
    Scenarios <- MC_ScenariosAfterRoutes
SPECIFICATION Spec
PROPERTY ReturnsToCaller
\* Execute returns: committed, compensated and crashed runs take no step.
CHECK_DEADLOCK FALSE
