------------------------------ MODULE MCSound ------------------------------
(* Sound with files of up to two blocks, so that a file is sent in parts.  *)
EXTENDS Sound
=============================================================================
