---------------------------- MODULE MCProteccion ----------------------------
(* Instances of Proteccion for TLC. *)
EXTENDS Proteccion

Multiplos == {4, 8}
Fijas     == <<8, 4>>
Ninguno   == {}
Alineados == {0, 4, 8, 12}
=============================================================================
