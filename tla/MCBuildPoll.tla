----------------------------- MODULE MCBuildPoll -----------------------------
(* BuildPoll on small instances: see the .cfg files that name it. *)
EXTENDS BuildPoll, TLC

===============================================================================
