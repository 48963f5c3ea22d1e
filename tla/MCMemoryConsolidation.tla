------------------------ MODULE MCMemoryConsolidation ------------------------
(* The instance of MemoryConsolidation that TLC checks. *)
EXTENDS MemoryConsolidation
==============================================================================
