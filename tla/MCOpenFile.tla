----------------------------- MODULE MCOpenFile -----------------------------
(* A TLC instance of OpenFile.                                             *)
EXTENDS OpenFile

ENOENT == 2
EACCES == 13
MCErrors == {ENOENT, EACCES}
=============================================================================
