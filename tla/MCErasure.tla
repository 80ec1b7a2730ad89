-------------------------------- MODULE MCErasure -------------------------------
(* Small instances of Erasure. *)
EXTENDS Erasure
================================================================================
