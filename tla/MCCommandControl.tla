-------------------------- MODULE MCCommandControl --------------------------
(* CommandControl on small instances: see the .cfg files that name it. *)
EXTENDS CommandControl

CONSTANTS k1, pump

MCKillers == {k1}
===============================================================================
