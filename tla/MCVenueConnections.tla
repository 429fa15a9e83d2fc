-------------------------- MODULE MCVenueConnections --------------------------
(* VenueConnections on small instances.                                    *)
EXTENDS VenueConnections, TLC

Symmetry ==
    Permutations(Users) \cup Permutations(Wallets) \cup Permutations(Challenges)
=============================================================================
