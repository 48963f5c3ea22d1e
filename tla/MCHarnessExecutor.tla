-------------------------- MODULE MCHarnessExecutor --------------------------
(* Small runs: two leaves and a sub-agent between them, which calls a leaf and *)
(* a leaf or sub-agent; and the same with a chain of two sub-agents.           *)
EXTENDS HarnessExecutor

Call(b, e, a) == [batch |-> b, effect |-> e, agent |-> a, deps |-> {}, grouped |-> FALSE,
                  idempotent |-> FALSE, refused |-> "no"]

\* One call, a sub-agent with a leaf, and a call after it.
Flat == {<<Call(0, e1, FALSE), Call(0, e2, TRUE), Call(0, e3, FALSE), Call(2, e4, FALSE)>> :
           e1, e3, e4 \in {"read", "write"}, e2 \in {"read", "cache", "write"}}

\* A sub-agent calls a sub-agent that calls a leaf, next to a leaf or with a
\* sub-agent too deep.
Deep == {<<Call(0, e1, TRUE), Call(1, e2, TRUE), Call(2, e3, FALSE), last>> :
           e1, e2 \in {"read", "write"}, e3 \in {"read", "delivery"},
           last \in {Call(0, "read", FALSE), Call(2, "read", TRUE)}}

\* Calls that depend on one another and on later ones, one that may be refused,
\* one that may be retried, two that share a group, and one that is unknown.
Related ==
  {<<[Call(0, e1, FALSE) EXCEPT !.deps = d1, !.refused = r, !.grouped = TRUE],
     [Call(0, e2, FALSE) EXCEPT !.idempotent = TRUE, !.grouped = TRUE],
     [Call(0, "read", FALSE) EXCEPT !.deps = d3],
     [Call(0, "write", FALSE) EXCEPT !.refused = "unavailable"]>> :
     e1 \in {"read", "write"}, e2 \in {"read", "cache"}, d1 \in {{}, {2}, {3}},
     d3 \in {{}, {1}}, r \in {"no", "denied"}}

MCPlans == Flat \cup Deep \cup Related
==============================================================================
