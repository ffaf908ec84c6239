------------------------------- MODULE MCListing -------------------------------
(* Listing on a small instance: see the .cfg files that name it. *)
EXTENDS Listing
================================================================================
