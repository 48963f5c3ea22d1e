-------------------------- MODULE MCAlertAssessment --------------------------
(* A small instance of AlertAssessment for TLC. *)
EXTENDS AlertAssessment

\* Two decisions about one event revision: its evidence grew in between and the
\* key was rotated, so that the second is of another model.
MCAlert == [d \in Decisions |-> "quake"]
TwoModels == [d \in Decisions |-> d]

\* Total is the sum of the community modules.
ASSUME TotalIsSum ==
  \A f \in [1..3 -> 0..2], S \in SUBSET (1..3) :
    Total(f, S) = MapThenSumSet(LAMBDA x : f[x], S)
==============================================================================
