--------------------------- MODULE MCDeliveryQueue ---------------------------
(***************************************************************************)
(* Small instances of DeliveryQueue for TLC.                               *)
(***************************************************************************)
EXTENDS DeliveryQueue, TLC

CONSTANTS o1, u1, u2,  \* model values
          Ttl          \* OCCURRENCE_TTL_MINUTES

\* One occurrence and its owner.
OneDelivery == {1}
OneOccOf == [d \in {1} |-> o1]
OneUserOf == [d \in {1} |-> u1]

\* One shared occurrence: the owner and a watcher, whose row (the Late one of
\* dq_shared) comes whenever he joins.
TwoDeliveries == {1, 2}
SharedOccOf == [d \in {1, 2} |-> o1]
SharedUserOf == (1 :> u1 @@ 2 :> u2)

\* Every occurrence fires at once and expires after its TTL.
FiresAtOnce == [o \in Occs |-> 0]
ExpiresAfterTtl == [o \in Occs |-> FireAt[o] + Ttl]

\* The backoff doubles and is capped (RetryPolicy in model time).
Doubling == [a \in 1..MaxAttempts |-> IF a = 1 THEN 1 ELSE 2]

\* Nobody has quiet hours.
NoQuiet == [u \in Users |-> [t \in 0..(MaxTime + SnoozeFor) |-> t]]

\* Reactions are interchangeable: nothing orders or compares them.
TapSymmetry == Permutations(Taps)
=============================================================================
