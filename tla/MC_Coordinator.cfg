CONSTANTS
    Queue <- MC_Queue
    AsmIds <- MC_AsmIds
    IdLength <- MC_IdLength
SPECIFICATION Spec
INVARIANT TypeOK
\* The queue is finite: once every message is handled and every goroutine
\* has returned the daemon waits for the next message.
CHECK_DEADLOCK FALSE
