---------------------------- MODULE MCDailyReport ----------------------------
(* Two schedulers and a report of three chunks. *)
EXTENDS DailyReport
==============================================================================
