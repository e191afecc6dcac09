CONSTANTS
    Runs = {r1}
    Scenarios <- MC_ScenariosNoParams
SPECIFICATION Spec
PROPERTY ReturnsToCaller
\* Execute returns: committed, compensated and crashed runs take no step.
CHECK_DEADLOCK FALSE
