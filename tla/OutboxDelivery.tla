--------------------------- MODULE OutboxDelivery ---------------------------
(***************************************************************************)
(* What of the outbox the promise of Delivery speaks about: the mapping    *)
(* under which the engine implements it when only the engine acts (every   *)
(* request queued at the start, no API call, every worker live).           *)
(***************************************************************************)
EXTENDS Outbox

CONSTANT Lossy   \* may the outcome of a provider call be forgotten?

DeliveryState == [r \in Requests |-> CASE row[r].status = "queued"      -> "waiting"
                                       [] row[r].status = "dispatching" -> "working"
                                       [] row[r].status = "sent"        -> "done"
                                       [] OTHER                         -> "dead"]

Answered(r, ok) == \E p \in Procs : answer[p] = [id |-> r, ok |-> ok]
DeliveryOutcome == [r \in Requests |-> IF Answered(r, TRUE) THEN "ok"
                                       ELSE IF Answered(r, FALSE) THEN "error" ELSE "none"]

Promise == INSTANCE Delivery WITH state <- DeliveryState, outcome <- DeliveryOutcome,
                                  attempts <- [r \in Requests |-> row[r].attempt]

\* The engine keeps the promise: each of its steps is a step of Delivery or changes nothing
\* Delivery can see.
ImplementsDelivery == Promise!Spec
=============================================================================
