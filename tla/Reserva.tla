------------------------------ MODULE Reserva ------------------------------
(***************************************************************************)
(* What a memory promises to its processes: what each one gets is a run of *)
(* bytes that nobody holds, and it gives back all it has at once.          *)
(***************************************************************************)
EXTENDS Integers

CONSTANTS PIDs, TAM_MEMORIA

VARIABLE ocupa   \* bytes each process holds

Direcciones == 0 .. TAM_MEMORIA - 1
EsTramo(S)  == S # {} /\ \A a, b \in S : a .. b \subseteq S

Init == ocupa = [p \in PIDs |-> {}]

EnUso == UNION {ocupa[p] : p \in PIDs}

Reservar(p) ==
  LET nuevos == ocupa'[p] \ ocupa[p]
  IN  /\ ocupa[p] \subseteq ocupa'[p]
      /\ nuevos \cap EnUso = {}
      /\ EsTramo(nuevos)

Devolver(p) == ocupa'[p] = {}

Next ==
  /\ \E p \in PIDs :
       /\ \A q \in PIDs \ {p} : ocupa'[q] = ocupa[q]
       /\ Reservar(p) \/ Devolver(p)
  /\ ocupa' \in [PIDs -> SUBSET Direcciones]

Spec == Init /\ [][Next]_ocupa
=============================================================================
