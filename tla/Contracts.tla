------------------------------ MODULE Contracts ------------------------------
(***************************************************************************)
(* The status enums every component shares (app/domain/contracts.py).  The *)
(* values are the ones PostgreSQL stores; the sets of final statuses decide *)
(* what the dispatcher, the reaper and the reactions refuse to touch.      *)
(***************************************************************************)

DeliveryStatus ==
    {"pending", "sent", "done", "skipped", "snoozed", "failed", "blocked"}

OccurrenceStatus ==
    {"pending", "dispatching", "sent", "done", "skipped", "expired", "failed"}

\* A delivery in one of these takes no further reaction.
TerminalDelivery == {"done", "skipped", "failed", "blocked"}

\* An occurrence in one of these is closed.
TerminalOccurrence == {"done", "skipped", "expired", "failed"}

\* The part of TerminalDelivery that a recipient's own tap produces.
Answered == {"done", "skipped"}

\* What the dispatcher's claim looks for (db/repositories/deliveries.py).
Queued == {"pending", "snoozed"}

ErrorClass == {"retry_after", "forbidden", "bad_request", "transient"}
=============================================================================
