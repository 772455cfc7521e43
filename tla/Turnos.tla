------------------------------- MODULE Turnos -------------------------------
(***************************************************************************)
(* What dispatching promises to the threads, with no message in sight:     *)
(* only the thread whose turn it is advances, one instruction at a time,   *)
(* and what a thread has executed is never undone: it goes on from where   *)
(* it was, whatever happened to the others in between.                     *)
(***************************************************************************)
EXTENDS Naturals

CONSTANTS Hilos, Nadie, NoHay

VARIABLES
  titular,  \* the thread whose turn it is
  avance    \* instructions each thread has executed, NoHay when there is no such thread

Vivos == {h \in Hilos : avance[h] # NoHay}

Init ==
  \E h \in Hilos :
    titular = h /\ avance = [g \in Hilos |-> IF g = h THEN 0 ELSE NoHay]

Ejecutar ==
  /\ titular \in Vivos
  /\ avance' = [avance EXCEPT ![titular] = @ + 1]
  /\ UNCHANGED titular

\* One request of the thread of the turn: threads appear and threads end, itself
\* among them, and the turn may be over.
Pedir ==
  /\ titular \in Vivos
  /\ \A h \in Hilos : avance'[h] \in {avance[h], NoHay} \cup (IF h \in Vivos THEN {} ELSE {0})
  /\ avance' = [h \in Hilos |-> avance'[h]]
  /\ titular' \in {Nadie} \cup ({titular} \ {h \in Hilos : avance'[h] = NoHay})

Elegir == titular = Nadie /\ titular' \in Vivos /\ UNCHANGED avance

Next == Ejecutar \/ Pedir \/ Elegir

Spec == Init /\ [][Next]_<<titular, avance>>
=============================================================================
