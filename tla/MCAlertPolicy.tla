---------------------------- MODULE MCAlertPolicy ----------------------------
(* Small instances of AlertPolicy for TLC. *)
EXTENDS AlertPolicy, TLC

MCSymmetry == Permutations(Workers)

\* Two revisions of one event, the second perhaps with new facts, and another event.
MCEvent == [a \in Alerts |-> IF a = 3 THEN 2 ELSE 1]
MCRevision == [a \in Alerts |-> IF a = 2 THEN 2 ELSE 1]

MCJudgments == [a \in Alerts |-> IF a = 2 THEN BOOLEAN ELSE {FALSE}]
==============================================================================
