--------------------------- MODULE MCSubscriptions ---------------------------
(***************************************************************************)
(* Instances of Subscriptions for TLC.                                     *)
(***************************************************************************)
EXTENDS SubscriptionsCorrect, TLC

\* Calls of the same kind, and topics, are interchangeable.
Symmetry == Permutations(Subscribers) \cup Permutations(Topics)
=============================================================================
