---------------------------- MODULE MCWatchStream ----------------------------
(* WatchStream on a small instance: see the .cfg file that names it. *)
EXTENDS WatchStream

CONSTANTS s1, s2

MCStoppers == {s1, s2}
===============================================================================
