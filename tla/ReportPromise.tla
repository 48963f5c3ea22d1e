---------------------------- MODULE ReportPromise ----------------------------
(* What the daily report promises the reader of the chat and the operator    *)
(* who reads its row in runtime_runs, without schedulers, locks or failures. *)
(* An attempt is counted before it shows anything.  The chat shows a chunk   *)
(* only after the one before it, and every attempt but the first may show    *)
(* one chunk again.  "completed" is said of a report that is shown in full,  *)
(* and is final: no attempt follows, and all that may still appear is a      *)
(* chunk whose sender did not wait for it.                                   *)
EXTENDS Naturals, Sequences

CONSTANTS Chunks, MaxAttempts

VARIABLES completed,  \* what the row says of the report
          attempts,   \* and how often it says it was tried
          seen        \* the chunks in the chat, in their order

promiseVars == <<completed, attempts, seen>>

Init == completed = FALSE /\ attempts = 0 /\ seen = <<>>

Attempt ==
  /\ ~completed /\ attempts < MaxAttempts
  /\ attempts' = attempts + 1
  /\ UNCHANGED <<completed, seen>>

Show(c) ==
  /\ c > 1 => \E i \in DOMAIN seen : seen[i] = c - 1
  /\ attempts > 0 /\ Len(seen) < Chunks + attempts - 1
  /\ seen' = Append(seen, c)
  /\ UNCHANGED <<completed, attempts>>

Complete ==
  /\ ~completed
  /\ \A c \in 1..Chunks : \E i \in DOMAIN seen : seen[i] = c
  /\ completed' = TRUE
  /\ UNCHANGED <<attempts, seen>>

Next == Attempt \/ Complete \/ \E c \in 1..Chunks : Show(c)

Spec == Init /\ [][Next]_promiseVars
==============================================================================
