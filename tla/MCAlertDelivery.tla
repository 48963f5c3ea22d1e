--------------------------- MODULE MCAlertDelivery ---------------------------
(* A small instance of AlertDelivery for TLC. *)
EXTENDS AlertDelivery

MCDeadline == [d \in Deliveries |-> 3]
==============================================================================
