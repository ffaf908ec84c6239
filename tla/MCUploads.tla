------------------------------- MODULE MCUploads -------------------------------
(* Uploads on a small instance: see the .cfg file that names it. *)
EXTENDS Uploads

MCPaths == <<"a", "b", "a">>
================================================================================
