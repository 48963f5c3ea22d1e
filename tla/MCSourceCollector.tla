--------------------------- MODULE MCSourceCollector ---------------------------
(* The instance of SourceCollector that TLC checks. *)
EXTENDS SourceCollector
===============================================================================
