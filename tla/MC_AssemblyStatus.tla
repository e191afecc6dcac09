------------------------- MODULE MC_AssemblyStatus -------------------------
(* An assembly as it is launched: status launching, state created and no  *)
(* outputs; two status values, two states and one output key to write.   *)
EXTENDS AssemblyStatus

CONSTANTS h1, h2

MC_Statuses == {"launching", "running"}
MC_States == {"created", "stopped"}
MC_OutKeys == {"ipv4", "vnchost"}
MC_InitRecord == [status |-> "launching", state |-> "created", outputs |-> {}]
=============================================================================
