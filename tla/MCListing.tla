----------------------------- MODULE MCListing -----------------------------
(***************************************************************************)
(* Listing with five objects, two of which have names that are not UTF-8   *)
(* and look the same.                                                      *)
(***************************************************************************)
EXTENDS Listing

CONSTANTS n1, n2, n3, n4

MCNames == {n1, n2, n3, n4}
MCLossy == <<n1, n2, n3, n1, n4>>

=============================================================================
