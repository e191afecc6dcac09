--------------------------- MODULE MC_Coordinator ---------------------------
(* Queue messages for TLC: a create of two long ids with a one-character  *)
(* id between them, a delete of the first, a notify event, an unparsable   *)
(* event, a request of an unlisted type and a message on another queue.   *)
EXTENDS Coordinator

Req(type, ids) == [queue |-> "cloudstandup", parses |-> TRUE, reqType |-> type,
                   asms |-> ids, event |-> ""]
Event(e, ok) == [queue |-> "events", parses |-> ok, reqType |-> "",
                 asms |-> <<>>, event |-> e]

MC_AsmIds == {"a1", "a2", "x"}
MC_IdLength == [a \in MC_AsmIds |-> IF a = "x" THEN 1 ELSE 2]

MC_Queue ==
    << Req("create", <<"a1", "x", "a2">>),
       Req("delete", <<"a1">>),
       Event("notify", TRUE),
       Event("", FALSE),
       Req("update", <<"a2">>),
       [queue |-> "metrics", parses |-> TRUE, reqType |-> "", asms |-> <<>>,
        event |-> ""] >>
=============================================================================
