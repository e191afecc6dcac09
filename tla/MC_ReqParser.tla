---------------------------- MODULE MC_ReqParser ----------------------------
(* Instantiates the request parser with the inputs of spec.md section 8:   *)
(* an unknown category, an unknown action and two target unit ids.         *)
EXTENDS ReqParser

MC_OtherCategories == {"nope"}
MC_OtherActions == {"bogus"}
MC_CatIds == {"asm-1", "box-7"}
=============================================================================
