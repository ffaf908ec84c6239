--------------------------- MODULE MCCommandStream ---------------------------
(* CommandStream on a small instance: see the .cfg file that names it. *)
EXTENDS CommandStream

CONSTANT c1

MCCallers == {c1}
===============================================================================
