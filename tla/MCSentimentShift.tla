--------------------------- MODULE MCSentimentShift ---------------------------
(* A small instance of SentimentShift for TLC. *)
EXTENDS SentimentSystem, Integers, TLC

\* Every article is a story of its own, by its own publisher.
MCEvent == [a \in 0..N |-> a]

\* The old one is negative and the new ones are positive, but for the second: it
\* may be negative, be corrected, and come in too late to be news.
MCRatings ==
  [a \in 0..N |-> CASE a = 0 -> {{"negative"}}
                   [] a = 2 -> {{"positive"}, {"negative"}}
                   [] OTHER -> {{"positive"}}]
MCDelays == [a \in 0..N |-> IF a = 2 THEN {1, 2} ELSE {1}]

MCSymmetry == Permutations(Schedulers)
==============================================================================
