--------------------------- MODULE MCThreadAtexit ---------------------------
(* Two threads which race for the key, and register up to three functions    *)
(* each in nodes of two.                                                     *)
EXTENDS ThreadAtexit
=============================================================================
