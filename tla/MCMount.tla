------------------------------ MODULE MCMount ------------------------------
(* Mount on a small instance. *)
EXTENDS Mount
=============================================================================
