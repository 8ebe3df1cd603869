----------------------------- MODULE MCPeerCache -----------------------------
(***************************************************************************)
(* Instances of PeerCache for TLC: two peers whose entries differ in size. *)
(***************************************************************************)
EXTENDS PeerCache, FiniteSets, TLC

CONSTANTS p1, p2
TwoPeers == {p1, p2}
TwoSizes == [E \in SUBSET Entries |-> Cardinality(E) + Cardinality({e \in E : e.id = p2})]

\* Savers are interchangeable.
Symmetry == Permutations(Savers)
=============================================================================
