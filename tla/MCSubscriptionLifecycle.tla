----------------------- MODULE MCSubscriptionLifecycle -----------------------
(***************************************************************************)
(* Three connections, the third with the last generation u64 has; three    *)
(* slots; two subscription ids.                                            *)
(***************************************************************************)
EXTENDS SubscriptionLifecycle

MCSlots == 1..3
=============================================================================
