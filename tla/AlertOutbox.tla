----------------------------- MODULE AlertOutbox -----------------------------
(***************************************************************************)
(* What the alert outbox promises the reader of the Telegram chat and the  *)
(* operator who reads the market_alert_deliveries table, without leases,   *)
(* workers, retries or requests.  A delivery is open until the table       *)
(* settles it.  The chat shows its chunks in order and none of them twice. *)
(* "delivered" and "expired" are exact: nothing appears after either.      *)
(* "unknown" is the honest answer to an uncertain send: the chunk that was *)
(* on its way may still appear, and nothing is sent again.                 *)
(***************************************************************************)
EXTENDS Naturals, Sequences

CONSTANTS Deliveries,   \* the rows of market_alert_deliveries
          NChunks       \* Telegram messages per delivery

Outcomes == {"delivered", "unknown", "expired"}

VARIABLES outcome,      \* what the table says of each delivery
          seen          \* the chunks of each delivery in the chat, in order

outboxVars == <<outcome, seen>>

Init == /\ outcome = [d \in Deliveries |-> "open"]
        /\ seen = [d \in Deliveries |-> <<>>]

\* The next chunk of a delivery appears in the chat.
Show(d) == /\ outcome[d] \in {"open", "unknown"}
           /\ Len(seen[d]) < NChunks
           /\ seen' = [seen EXCEPT ![d] = Append(@, Len(@) + 1)]
           /\ UNCHANGED outcome

\* The table settles some deliveries, "delivered" only what the chat shows
\* in full.
Settle == /\ outcome' \in [Deliveries -> Outcomes \cup {"open"}]
          /\ \A d \in Deliveries :
               outcome'[d] # outcome[d] =>
                 /\ outcome[d] = "open"
                 /\ outcome'[d] = "delivered" => Len(seen[d]) = NChunks
          /\ UNCHANGED seen

Next == Settle \/ \E d \in Deliveries : Show(d)

Spec == Init /\ [][Next]_outboxVars
==============================================================================
