CONSTANTS
    h1 = h1
    h2 = h2
    Handles = {h1, h2}
    Statuses <- MC_Statuses
    States <- MC_States
    OutKeys <- MC_OutKeys
    InitRecord <- MC_InitRecord
    MaxCalls = 4
SPECIFICATION Spec
INVARIANT CatalogStatusIsLastAnnounced
\* After MaxCalls calls and every event written, no method is called.
CHECK_DEADLOCK FALSE
