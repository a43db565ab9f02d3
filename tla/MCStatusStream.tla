--------------------------- MODULE MCStatusStream ---------------------------
(* Small instances of StatusStream. *)
EXTENDS StatusStream
=============================================================================
