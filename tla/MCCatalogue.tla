---------------------------- MODULE MCCatalogue ----------------------------
(* Two turns of one identity, a listing and two calls.                     *)
EXTENDS Catalogue, TLC

CONSTANTS list, call1, call2

MCSymmetry == Permutations(Leases) \union Permutations({call1, call2})

=============================================================================
