----------------------------- MODULE MCBuildStart -----------------------------
(* BuildStart on a small instance: see the .cfg files that name it. *)
EXTENDS BuildStart

MCCopies == << [files |-> <<"a", "b">>, force |-> FALSE],
               [files |-> <<"b">>, force |-> TRUE] >>
===============================================================================
