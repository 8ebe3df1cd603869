-------------------------- MODULE MCAddressExchange --------------------------
(***************************************************************************)
(* Instances of AddressExchange for TLC: what a peerstore may hold.        *)
(***************************************************************************)
EXTENDS AddressExchange

\* One direct address more than the cap of the instance, and a relay circuit.
SmallAddresses == {"direct1", "direct2", "direct3", "relay"}
RelayCircuits  == {"relay"}
=============================================================================
