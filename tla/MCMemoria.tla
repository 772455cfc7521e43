----------------------------- MODULE MCMemoria -----------------------------
(* Instances of Memoria for TLC. *)
EXTENDS Memoria

DosTamanios == {2, 5}
Fijas       == <<2, 5, 2>>
=============================================================================
