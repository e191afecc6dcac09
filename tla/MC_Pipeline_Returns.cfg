CONSTANTS
    Runs = {r1}
    Scenarios <- MC_ScenariosReturning
SPECIFICATION Spec
PROPERTY ReturnsToCaller
\* Execute returns: committed, compensated and refused runs take no step.
CHECK_DEADLOCK FALSE
