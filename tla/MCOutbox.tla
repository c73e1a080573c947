------------------------------ MODULE MCOutbox ------------------------------
(* Small instances of Outbox, with the mapping to Delivery for the runs in which only the
   engine acts. *)
EXTENDS OutboxDelivery

CONSTANTS r1, r2, r3, w1, w2, api1, api2
=============================================================================
