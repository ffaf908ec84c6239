------------------------------ MODULE MCSandboxes ------------------------------
(* Sandboxes on a small instance: see the .cfg file that names it. *)
EXTENDS Sandboxes

CONSTANTS c1, k1, s1, p1

MCCallers   == {c1, k1}
MCKeepers   == {k1}
MCBoxes     == {s1}
MCSnapshots == {p1}
================================================================================
