----------------------------- MODULE MCListing -----------------------------
(* Listing for TLC.                                                          *)
EXTENDS Listing, TLC

\* Operations, and tenants, are interchangeable: nothing but their rows tells them apart.
ListingSymmetry == Permutations(Ops) \cup Permutations(Tenants)
=============================================================================
