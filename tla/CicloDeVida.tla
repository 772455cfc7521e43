---------------------------- MODULE CicloDeVida ----------------------------
(***************************************************************************)
(* What the kernel promises about its threads, with no queue in sight: the *)
(* states a thread goes through, one CPU that runs at most one of them,    *)
(* and no idle CPU while a thread is ready. The states are the ones the    *)
(* kernel logs (NEW, READY, EXIT) and the queues it names (BLOCK, EXEC).   *)
(***************************************************************************)
CONSTANT Hilos
VARIABLE estado

Estados == {"SIN_CREAR", "NEW", "READY", "EXEC", "BLOCK", "EXIT"}

\* The changes of state of a thread in one request of the CPU. A request may wake
\* or admit a thread and elect it at once, so BLOCK and NEW also lead to EXEC.
Pasos ==
  {<<"SIN_CREAR", e>> : e \in {"NEW", "READY", "EXIT"}}
    \cup {<<"NEW", "READY">>, <<"NEW", "EXEC">>}
    \cup {<<"READY", "EXEC">>, <<"READY", "EXIT">>}
    \cup {<<"EXEC", "READY">>, <<"EXEC", "BLOCK">>, <<"EXEC", "EXIT">>}
    \cup {<<"BLOCK", "READY">>, <<"BLOCK", "EXEC">>, <<"BLOCK", "EXIT">>}

EnEstado(f, e) == {h \in Hilos : f[h] = e}

\* One CPU, and it does not rest while somebody could use it.
UnaCpuOcupada(f) ==
  /\ \A a, b \in EnEstado(f, "EXEC") : a = b
  /\ EnEstado(f, "READY") # {} => EnEstado(f, "EXEC") # {}

Init == \E h \in Hilos : \E e \in {"NEW", "EXEC"} :
          estado = [g \in Hilos |-> IF g = h THEN e ELSE "SIN_CREAR"]

Next ==
  /\ EnEstado(estado, "EXEC") # {}
  /\ estado' \in [Hilos -> Estados]
  /\ \A h \in Hilos : estado'[h] = estado[h] \/ <<estado[h], estado'[h]>> \in Pasos
  /\ UnaCpuOcupada(estado')

Spec == Init /\ [][Next]_estado
=============================================================================
