------------------------------ MODULE WatchList ------------------------------
(***************************************************************************)
(* What sharing promises, without handlers, transactions, locks and        *)
(* tokens: one reminder, at most one way in, a list of guests that never   *)
(* outgrows the limit, and nobody on it who was not let in.  Each step of  *)
(* Sharing that commits is one of these steps or changes nothing here.     *)
(***************************************************************************)
EXTENDS Naturals, FiniteSets

CONSTANTS Users, Limit

VARIABLES guests,   \* what each user is to the reminder
          link,     \* no link was ever issued, one is live, all are dead
          gone      \* the reminder is deleted

vars == <<guests, link, gone>>

Nobody == [u \in Users |-> "out"]
Listed == {u \in Users : guests[u] # "out"}

Init == guests = Nobody /\ link = "none" /\ gone = FALSE

\* A new link replaces the one that was live.
Issue == /\ ~gone
         /\ link' = "live"
         /\ UNCHANGED <<guests, gone>>

Revoke == /\ link = "live" /\ link' = "dead"
          /\ UNCHANGED <<guests, gone>>

\* The link may have died since it was followed, but there was one.
Join(u) == /\ ~gone /\ link # "none"
           /\ guests[u] = "out" /\ Cardinality(Listed) < Limit
           /\ guests' = [guests EXCEPT ![u] = "invited"]
           /\ UNCHANGED <<link, gone>>

Accept(u) == /\ guests[u] = "invited"
             /\ guests' = [guests EXCEPT ![u] = "watching"]
             /\ UNCHANGED <<link, gone>>

\* Declining, leaving.
Leave(u) == /\ guests[u] # "out"
            /\ guests' = [guests EXCEPT ![u] = "out"]
            /\ UNCHANGED <<link, gone>>

Delete == /\ ~gone /\ gone' = TRUE
          /\ guests' = Nobody /\ link' = "none"

Next == \/ Issue \/ Revoke \/ Delete
        \/ \E u \in Users : Join(u) \/ Accept(u) \/ Leave(u)

Spec == Init /\ [][Next]_vars
=============================================================================
