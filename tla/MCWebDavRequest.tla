-------------------------- MODULE MCWebDavRequest --------------------------
(* WebDavRequest with files of no, one and up to five bytes; 15 stands for *)
(* the largest 64-bit number, which "-1" comes out as.                     *)
EXTENDS WebDavRequest

MCNumbers == {0, 1, 2, 4, 5, 15}
=============================================================================
