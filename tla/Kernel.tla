------------------------------- MODULE Kernel -------------------------------
(***************************************************************************)
(* The dispatch thread of the kernel module: the thread life cycle, the    *)
(* three planning algorithms, joins, cancellations and mutexes.            *)
(*                                                                         *)
(* The CPU runs one thread at a time and waits for the kernel after every  *)
(* syscall, so one action is one iteration of the switch in                *)
(* gestionar_peticiones_cpu_dispatch, with everything its handler calls.   *)
(* IO and DUMP_MEMORY, the two syscalls whose answer comes from another    *)
(* thread of the kernel, are not in this module: without them no other     *)
(* thread writes the queues, which is why a handler is one atomic step.    *)
(*                                                                         *)
(* A TCB is the pair <<PID, TID>>, a NULL TCB is Nadie. Memory is a        *)
(* partner that may refuse any creation (\E) and accepts every end.        *)
(***************************************************************************)
EXTENDS Integers, Sequences, FiniteSets, SequencesExt, Filtro

CONSTANTS
  MaxPid,       \* bound: processes created in one run of the system
  MaxTid,       \* bound: the greatest TID of a process
  Prioridades,  \* priorities the scripts use
  Nombres,      \* names of mutexes the scripts use
  ALGORITMO,    \* ALGORITMO_PLANIFICACION of the configuration
  Llamadas,     \* requests the CPU makes: syscalls of the scripts and quantum ends
  Disciplina,   \* TRUE: the scripts name mutexes they created, unlock those they hold
  Basura,       \* values an uninitialised hilo_propietario may hold
  Nadie         \* the NULL pointer

PIDs  == 1 .. MaxPid
TIDs  == 0 .. MaxTid
Hilos == PIDs \X TIDs

Recursos == [valor : Int, propietario : Hilos \cup {Nadie}, espera : Seq(Hilos)]

ASSUME ConstantesDelKernel ==
  /\ MaxPid \in Nat \ {0}
  /\ MaxTid \in Nat
  /\ Prioridades \subseteq Nat /\ 0 \in Prioridades
  /\ ALGORITMO \in {"FIFO", "PRIORIDADES", "CMN"}
  /\ Disciplina \in BOOLEAN
  /\ Nadie \notin Hilos /\ Nadie \notin Recursos
  /\ Basura \subseteq Hilos \cup {Nadie} /\ Basura # {}

VARIABLES
  proximo_pid,         \* PID of the next process
  prox_tid,            \* TID of the next thread of each process
  prioridad,           \* priority of each TCB
  hilos_bloqueados,    \* TIDs that joined each TCB, in order of arrival
  cola_procesos_NEW,
  cola_procesos_READY, \* processes admitted and not ended (searched by PID only)
  cola_hilos_NEW,
  cola_hilos_READY,    \* used by FIFO and PRIORIDADES
  colas_multi_level,   \* one queue per priority
  cola_hilos_BLOCK,
  cola_hilos_EXIT,
  lista_hilos,         \* threads a join may wait for
  mutexs,              \* the mutex of each process and name, Nadie when not created
  hilo_EXEC,
  liberados,           \* TCBs already given to free()
  cpu,                 \* what the CPU does: runs hilo_EXEC, waits for a thread, waits for a reply
  kernel               \* "caido" after dereferencing a NULL TCB

colas  == <<cola_procesos_NEW, cola_procesos_READY, cola_hilos_NEW>>
listos == <<cola_hilos_READY, colas_multi_level>>
tcbs   == <<proximo_pid, prox_tid, prioridad>>
fin    == <<cola_hilos_EXIT, lista_hilos, liberados>>
vars   == <<colas, listos, tcbs, fin, hilos_bloqueados, cola_hilos_BLOCK,
            mutexs, hilo_EXEC, cpu, kernel>>

-----------------------------------------------------------------------------
(* Operators on queues *)

DePrioridad(prio, l) == {h \in Hilos : prio[h] = l}

EnNiveles(h) == \E l \in Prioridades : h \in ToSet(colas_multi_level[l])

\* Threads buscar_y_eliminar_tcb_en_ready can find.
EnReady(h) ==
  IF ALGORITMO = "CMN" THEN EnNiveles(h) ELSE h \in ToSet(cola_hilos_READY)

SinMutexs == [n \in Nombres |-> Nadie]

\* Names buscar_recurso finds.
Creados(p) == {n \in Nombres : mutexs[p][n] # Nadie}

EnEspera(h) == \E n \in Creados(h[1]) : h \in ToSet(mutexs[h[1]][n].espera)

\* Threads buscar_y_eliminar_tcb_en_block can find.
EnBlock(h) == h \in cola_hilos_BLOCK \/ EnEspera(h)

\* Mutant: the search forgets BLOCK and the waiters of the mutexes.
EncontrableSinBlock(h) == h = hilo_EXEC \/ EnReady(h)

\* Threads that finalizar_hilo and eliminar_hilo_de_un_proceso_a_finalizar can find.
Encontrable(h) == h = hilo_EXEC \/ EnReady(h) \/ EnBlock(h)

\* Mutant: the TCB is pushed at the front.
AgregarNivelAdelante(niveles, s, prio) ==
  [l \in Prioridades |-> Filtrar(s, DePrioridad(prio, l)) \o niveles[l]]

\* agregar_hilo_a_ready for each TCB of s, on the READY queue and on the levels.
AgregarReady(cola, s) == IF ALGORITMO = "CMN" THEN cola ELSE cola \o s

AgregarNivel(niveles, s, prio) ==
  [l \in Prioridades |-> niveles[l] \o Filtrar(s, DePrioridad(prio, l))]

AgregarNiveles(niveles, s, prio) ==
  IF ALGORITMO = "CMN" THEN AgregarNivel(niveles, s, prio) ELSE niveles

\* The mutexes of a process with h taken from every queue of waiters.
SinEspera(recursos, h) ==
  [n \in Nombres |-> IF recursos[n] = Nadie THEN Nadie
                     ELSE [recursos[n] EXCEPT !.espera = RemoveFirst(@, h)]]

-----------------------------------------------------------------------------
(* Choice of the next thread *)

\* Mutant: only the first level, or the first element, is looked at.
SinListosPrimero(cola, niveles) ==
  IF ALGORITMO = "CMN" THEN niveles[0] = <<>> ELSE Len(cola) <= 1

SinListos(cola, niveles) ==
  IF ALGORITMO = "CMN" THEN \A l \in Prioridades : niveles[l] = <<>> ELSE cola = <<>>

\* Mutant: <= instead of < in the comparison, so the last one wins.
PosicionUltima(cola) ==
  CHOOSE i \in 1 .. Len(cola) :
    \A k \in 1 .. Len(cola) :
      \/ prioridad[cola[i]] < prioridad[cola[k]]
      \/ prioridad[cola[i]] = prioridad[cola[k]] /\ k <= i

\* First position of the READY queue with the best priority.
Posicion(cola) ==
  CHOOSE i \in 1 .. Len(cola) :
    \A k \in 1 .. Len(cola) :
      \/ prioridad[cola[i]] < prioridad[cola[k]]
      \/ prioridad[cola[i]] = prioridad[cola[k]] /\ i <= k

PrimerNivel(niveles) ==
  CHOOSE l \in Prioridades :
    niveles[l] # <<>> /\ \A m \in Prioridades : niveles[m] # <<>> => l <= m

\* The queue holds a NULL TCB that the choice dereferences.
EligeNulo(cola) ==
  \/ ALGORITMO = "FIFO" /\ cola # <<>> /\ Head(cola) = Nadie
  \/ ALGORITMO = "PRIORIDADES" /\ Nadie \in ToSet(cola)

\* Mutant: hilo_EXEC keeps the thread that left the CPU.
CpuLibreSinReset == UNCHANGED hilo_EXEC /\ cpu' = "espera_hilo"

\* elegir_hilo starts with hilo_EXEC = NULL; the CPU waits in recibir_operacion.
CpuLibre == hilo_EXEC' = Nadie /\ cpu' = "espera_hilo"

\* elegir_hilo, on the ready queues as its caller left them.
elegir_hilo(cola, niveles) ==
  \/ /\ SinListos(cola, niveles)
     /\ CpuLibre
     /\ cola_hilos_READY' = cola /\ colas_multi_level' = niveles
     /\ UNCHANGED kernel
  \/ /\ EligeNulo(cola)
     /\ CpuLibre /\ kernel' = "caido"
     /\ cola_hilos_READY' = cola /\ colas_multi_level' = niveles
  \/ /\ ALGORITMO # "CMN" /\ cola # <<>> /\ ~EligeNulo(cola)
     /\ LET i == IF ALGORITMO = "FIFO" THEN 1 ELSE Posicion(cola)
        IN  hilo_EXEC' = cola[i] /\ cola_hilos_READY' = RemoveAt(cola, i)
     /\ cpu' = "ejecuta"
     /\ colas_multi_level' = niveles
     /\ UNCHANGED kernel
  \/ /\ ALGORITMO = "CMN" /\ ~SinListos(cola, niveles)
     /\ LET l == PrimerNivel(niveles)
        IN  /\ hilo_EXEC' = Head(niveles[l])
            /\ colas_multi_level' = [niveles EXCEPT ![l] = Tail(@)]
     /\ cpu' = "ejecuta"
     /\ cola_hilos_READY' = cola
     /\ UNCHANGED kernel

\* enviar_a_ejecucion(hilo_EXEC): the same thread goes on.
SigueElMismo == hilo_EXEC' = hilo_EXEC /\ cpu' = "ejecuta" /\ UNCHANGED kernel

\* The handler dereferences a NULL TCB: the kernel process ends.
Cae ==
  /\ kernel' = "caido"
  /\ UNCHANGED <<colas, listos, tcbs, fin, hilos_bloqueados, cola_hilos_BLOCK,
                 mutexs, hilo_EXEC, cpu>>

-----------------------------------------------------------------------------
(* Creation *)

\* Mutant: the thread is peeked and never popped.
AdmiteSinPop(procesos, hilos, k) ==
  /\ cola_procesos_NEW' = SubSeq(procesos, k + 1, Len(procesos))
  /\ cola_hilos_NEW' = hilos

\* revisar_cola_procesos_new: memory admits the first k processes of NEW and
\* then either refuses one (its process or its thread 0) or the queue is empty.
Admite(procesos, hilos, k) ==
  /\ cola_procesos_NEW' = SubSeq(procesos, k + 1, Len(procesos))
  /\ cola_hilos_NEW' = SubSeq(hilos, k + 1, Len(hilos))

crear_proceso(prio) ==
  /\ proximo_pid \in PIDs
  /\ LET h        == <<proximo_pid, 0>>
         procesos == Append(cola_procesos_NEW, proximo_pid)
         hilos    == Append(cola_hilos_NEW, h)
     IN \E k \in IF Len(procesos) = 1 THEN {0, 1} ELSE {0} :
          /\ proximo_pid' = proximo_pid + 1
          /\ prox_tid' = [prox_tid EXCEPT ![proximo_pid] = 1]
          /\ prioridad' = [prioridad EXCEPT ![h] = prio]
          /\ Admite(procesos, hilos, k)
          /\ cola_procesos_READY' =
               cola_procesos_READY \cup ToSet(SubSeq(procesos, 1, k))
          /\ cola_hilos_READY' = AgregarReady(cola_hilos_READY, SubSeq(hilos, 1, k))
          /\ colas_multi_level' =
               AgregarNiveles(colas_multi_level, SubSeq(hilos, 1, k), prioridad')
  /\ SigueElMismo
  /\ UNCHANGED <<fin, hilos_bloqueados, cola_hilos_BLOCK, mutexs>>

\* The new TCB goes through NEW: the handler appends it and then takes the first
\* TCB of the process it finds there. When memory refuses, the TCB is dropped.
crear_hilo(prio) ==
  LET pid == hilo_EXEC[1]
      h   == <<pid, prox_tid[pid]>>
      new == Append(cola_hilos_NEW, h)
      i   == SelectInSeq(new, LAMBDA t : t[1] = pid)
      tcb == new[i]
  IN  /\ prox_tid[pid] \in TIDs
      /\ prox_tid' = [prox_tid EXCEPT ![pid] = @ + 1]
      /\ prioridad' = [prioridad EXCEPT ![h] = prio]
      /\ cola_hilos_NEW' = RemoveAt(new, i)
      /\ \E admitidos \in {<<tcb>>, <<>>} :
           /\ cola_hilos_READY' = AgregarReady(cola_hilos_READY, admitidos)
           /\ colas_multi_level' =
                AgregarNiveles(colas_multi_level, admitidos, prioridad')
           /\ lista_hilos' = lista_hilos \cup ToSet(admitidos)
      /\ SigueElMismo
      /\ UNCHANGED <<proximo_pid, cola_procesos_NEW, cola_procesos_READY,
                     hilos_bloqueados, cola_hilos_BLOCK, cola_hilos_EXIT,
                     liberados, mutexs>>

-----------------------------------------------------------------------------
(* Joins and ends *)

bloquear_hilo_por_thread_join(tid) ==
  LET h == <<hilo_EXEC[1], tid>>
  IN  \/ /\ h \in lista_hilos
         /\ hilos_bloqueados' = [hilos_bloqueados EXCEPT ![h] = Append(@, hilo_EXEC[2])]
         /\ cola_hilos_BLOCK' = cola_hilos_BLOCK \cup {hilo_EXEC}
         /\ elegir_hilo(cola_hilos_READY, colas_multi_level)
         /\ UNCHANGED <<colas, tcbs, fin, mutexs>>
      \/ /\ h \notin lista_hilos
         /\ SigueElMismo
         /\ UNCHANGED <<colas, listos, tcbs, fin, mutexs, hilos_bloqueados,
                        cola_hilos_BLOCK>>
      \/ \* the search reads TCBs already freed: it may as well end the kernel
         lista_hilos \cap liberados # {} /\ Cae

\* Mutant: the visited joiners stay in the list.
NoVisitadosTodos(s) == s

\* desbloquear_hilos_bloqueados_por_otro removes from the list it walks, so it
\* visits the joiners at odd positions and leaves the others.
Visitados(s)    == [n \in 1 .. (Len(s) + 1) \div 2 |-> s[2 * n - 1]]
NoVisitados(s)  == [n \in 1 .. Len(s) \div 2 |-> s[2 * n]]

\* Mutant: a joiner goes to READY without being looked for in BLOCK.
DespertadosSinBuscar(h) ==
  LET s == Visitados(hilos_bloqueados[h]) IN [n \in DOMAIN s |-> <<h[1], s[n]>>]

\* The TCBs the joiners of h turn into: NULL when they are not blocked.
Despertados(h) ==
  LET s == Visitados(hilos_bloqueados[h])
  IN  [n \in DOMAIN s |-> IF EnBlock(<<h[1], s[n]>>) /\ s[n] # h[2]
                          THEN <<h[1], s[n]>> ELSE Nadie]

\* Mutant: the TCB is found and left where it is.
NivelesSinQuitar(h) == colas_multi_level

\* READY and the levels once h is out of them.
ReadySin(h) == IF ALGORITMO = "CMN" THEN cola_hilos_READY ELSE RemoveFirst(cola_hilos_READY, h)

NivelesSin(h) ==
  IF ALGORITMO = "CMN"
  THEN [l \in Prioridades |-> RemoveFirst(colas_multi_level[l], h)]
  ELSE colas_multi_level

\* Mutant: the ended thread stays in lista_hilos.
PasaAExitEnLista(h) ==
  /\ cola_hilos_EXIT' = cola_hilos_EXIT \cup {h}
  /\ UNCHANGED lista_hilos

\* The TCB goes to EXIT and out of the list of threads a join may wait for.
PasaAExit(h) ==
  /\ cola_hilos_EXIT' = cola_hilos_EXIT \cup {h}
  /\ lista_hilos' = lista_hilos \ {h}

\* THREAD_EXIT of the running thread and THREAD_CANCEL of a thread of its process.
finalizar_hilo(tid) ==
  LET h      == <<hilo_EXEC[1], tid>>
      ds     == Despertados(h)
      cola   == AgregarReady(ReadySin(h), ds)
      niveles == AgregarNiveles(NivelesSin(h), ds, prioridad)
  IN  \/ /\ ~Encontrable(h)
         /\ SigueElMismo
         /\ UNCHANGED <<colas, listos, tcbs, fin, mutexs, hilos_bloqueados,
                        cola_hilos_BLOCK>>
      \/ /\ Encontrable(h) /\ ALGORITMO = "CMN" /\ Nadie \in ToSet(ds)
         /\ Cae
      \/ /\ Encontrable(h) /\ (ALGORITMO = "CMN" => Nadie \notin ToSet(ds))
         /\ hilos_bloqueados' = [hilos_bloqueados EXCEPT ![h] = NoVisitados(@)]
         /\ cola_hilos_BLOCK' = cola_hilos_BLOCK \ ({h} \cup ToSet(ds))
         /\ mutexs' = [mutexs EXCEPT ![h[1]] = SinEspera(@, h)]
         /\ PasaAExit(h)
         /\ \/ h = hilo_EXEC /\ elegir_hilo(cola, niveles)
            \/ /\ h # hilo_EXEC /\ SigueElMismo
               /\ cola_hilos_READY' = cola /\ colas_multi_level' = niveles
         /\ UNCHANGED <<colas, tcbs, liberados>>

\* The threads of the process that the end finds in some queue.
Terminan(pid) ==
  {h \in Hilos : h[1] = pid /\ h[2] < prox_tid[pid] /\ Encontrable(h)}

\* The joiners of those threads that cannot be found any more: the threads end in
\* the order of their TIDs, so a joiner with a smaller TID has already ended.
SinBloquear(h) ==
  LET s == Visitados(hilos_bloqueados[h])
  IN  {n \in DOMAIN s : ~(EnBlock(<<h[1], s[n]>>) /\ s[n] > h[2])}
Nulos(pid) == UNION {{<<h, n>> : n \in SinBloquear(h)} : h \in Terminan(pid)}

\* READY and the levels once the process is out of them, each joiner that was not
\* found queued as a NULL. A joiner that is found ends later in the same walk.
ReadySinProceso(pid) ==
  IF ALGORITMO = "CMN" THEN cola_hilos_READY
  ELSE Filtrar(cola_hilos_READY, (Hilos \cup {Nadie}) \ Terminan(pid))
         \o [n \in 1 .. Cardinality(Nulos(pid)) |-> Nadie]

NivelesSinProceso(pid) ==
  IF ALGORITMO = "CMN"
  THEN [l \in Prioridades |-> Filtrar(colas_multi_level[l], Hilos \ Terminan(pid))]
  ELSE colas_multi_level

\* PROCESS_EXIT and segmentation fault. Then memory may admit processes of NEW.
finalizar_proceso ==
  LET pid == hilo_EXEC[1]
  IN  \/ ALGORITMO = "CMN" /\ Nulos(pid) # {} /\ Cae
      \/ /\ ALGORITMO = "CMN" => Nulos(pid) = {}
         /\ cola_hilos_BLOCK' = cola_hilos_BLOCK \ Terminan(pid)
         /\ cola_hilos_EXIT' = {}
         /\ liberados' = liberados \cup cola_hilos_EXIT \cup Terminan(pid)
         /\ lista_hilos' = lista_hilos \ Terminan(pid)
         /\ hilos_bloqueados' = [h \in Hilos |-> IF h \in liberados' THEN <<>>
                                                 ELSE hilos_bloqueados[h]]
         /\ mutexs' = [mutexs EXCEPT ![pid] = SinMutexs]
         /\ \E k \in 0 .. Len(cola_procesos_NEW) :
              LET hs == SubSeq(cola_hilos_NEW, 1, k)
              IN  /\ Admite(cola_procesos_NEW, cola_hilos_NEW, k)
                  /\ cola_procesos_READY' =
                       (cola_procesos_READY \ {pid})
                         \cup ToSet(SubSeq(cola_procesos_NEW, 1, k))
                  /\ elegir_hilo(AgregarReady(ReadySinProceso(pid), hs),
                                 AgregarNiveles(NivelesSinProceso(pid), hs, prioridad))
         /\ UNCHANGED tcbs

-----------------------------------------------------------------------------
(* Mutexes *)

\* A second mutex with the same name is never found: nothing else changes.
crear_mutex(n) ==
  LET pid == hilo_EXEC[1]
  IN  /\ \/ n \in Creados(pid) /\ UNCHANGED mutexs
         \/ /\ n \notin Creados(pid)
            /\ \E basura \in Basura :
                 mutexs' = [mutexs EXCEPT ![pid][n] =
                   [valor |-> 1, propietario |-> basura, espera |-> <<>>]]
      /\ SigueElMismo
      /\ UNCHANGED <<colas, listos, tcbs, fin, hilos_bloqueados, cola_hilos_BLOCK>>

\* LOCK or UNLOCK of a name the process never created: the thread goes to EXIT.
RecursoInexistente ==
  /\ cola_hilos_EXIT' = cola_hilos_EXIT \cup {hilo_EXEC}
  /\ elegir_hilo(cola_hilos_READY, colas_multi_level)
  /\ UNCHANGED <<colas, tcbs, lista_hilos, liberados, hilos_bloqueados,
                 cola_hilos_BLOCK, mutexs>>

\* Mutants: LOCK without owner; UNLOCK that forgets valor; UNLOCK for the last waiter.
TomarSinPropietario(m, h) == [m EXCEPT !.valor = @ - 1]
SoltarSinSumar(m) ==
  IF m.espera = <<>>
  THEN [m EXCEPT !.valor = @ + 1, !.propietario = Nadie]
  ELSE [m EXCEPT !.propietario = Head(m.espera), !.espera = Tail(@)]
SoltarAlUltimo(m) ==
  IF m.espera = <<>>
  THEN [m EXCEPT !.valor = @ + 1, !.propietario = Nadie]
  ELSE [m EXCEPT !.valor = @ + 1, !.propietario = Last(m.espera), !.espera = Front(@)]

\* The mutex m after a LOCK that takes it, a LOCK that waits, and an UNLOCK: the
\* first waiter becomes the owner and valor goes up all the same.
Recurso(v, p, e) == [valor |-> v, propietario |-> p, espera |-> e]
Tomar(m, h)      == Recurso(m.valor - 1, h, m.espera)
Esperar(m, h)    == Recurso(m.valor - 1, m.propietario, Append(m.espera, h))
Soltar(m) ==
  IF m.espera = <<>>
  THEN Recurso(m.valor + 1, Nadie, <<>>)
  ELSE Recurso(m.valor + 1, Head(m.espera), Tail(m.espera))

bloquear_mutex(n) ==
  LET pid == hilo_EXEC[1]
  IN  \/ n \notin Creados(pid) /\ RecursoInexistente
      \/ /\ n \in Creados(pid) /\ mutexs[pid][n].valor = 1
         /\ mutexs' = [mutexs EXCEPT ![pid][n] = Tomar(@, hilo_EXEC)]
         /\ SigueElMismo
         /\ UNCHANGED <<colas, listos, tcbs, fin, hilos_bloqueados, cola_hilos_BLOCK>>
      \/ /\ n \in Creados(pid) /\ mutexs[pid][n].valor # 1
         /\ mutexs' = [mutexs EXCEPT ![pid][n] = Esperar(@, hilo_EXEC)]
         /\ elegir_hilo(cola_hilos_READY, colas_multi_level)
         /\ UNCHANGED <<colas, tcbs, fin, hilos_bloqueados, cola_hilos_BLOCK>>

\* The new owner joins the queue of its level, whatever the algorithm is. A thread
\* that is not the owner gets no reply at all.
desbloquear_mutex(n) ==
  LET pid == hilo_EXEC[1]
      m   == mutexs[pid][n]
  IN  \/ n \notin Creados(pid) /\ RecursoInexistente
      \/ /\ n \in Creados(pid) /\ m.propietario # hilo_EXEC
         /\ cpu' = "espera_rta"
         /\ UNCHANGED <<colas, listos, tcbs, fin, hilos_bloqueados, cola_hilos_BLOCK,
                        mutexs, hilo_EXEC, kernel>>
      \/ /\ n \in Creados(pid) /\ m.propietario = hilo_EXEC
         /\ mutexs' = [mutexs EXCEPT ![pid][n] = Soltar(@)]
         /\ colas_multi_level' =
              AgregarNivel(colas_multi_level,
                           IF m.espera = <<>> THEN <<>> ELSE <<Head(m.espera)>>, prioridad)
         /\ SigueElMismo
         /\ UNCHANGED <<colas, cola_hilos_READY, tcbs, fin, hilos_bloqueados,
                        cola_hilos_BLOCK>>

-----------------------------------------------------------------------------
(* End of quantum: only CMN starts the counter. *)
cambiar_hilo_exec_fin_Q ==
  /\ ALGORITMO = "CMN"
  /\ elegir_hilo(cola_hilos_READY,
                 AgregarNivel(colas_multi_level, <<hilo_EXEC>>, prioridad))
  /\ UNCHANGED <<colas, tcbs, fin, hilos_bloqueados, cola_hilos_BLOCK, mutexs>>

-----------------------------------------------------------------------------
(* main: the first process, and the first choice. *)
Init ==
  /\ proximo_pid = 2
  /\ prox_tid = [p \in PIDs |-> IF p = 1 THEN 1 ELSE 0]
  /\ prioridad = [h \in Hilos |-> 0]
  /\ hilos_bloqueados = [h \in Hilos |-> <<>>]
  /\ cola_hilos_READY = <<>>
  /\ colas_multi_level = [l \in Prioridades |-> <<>>]
  /\ cola_hilos_BLOCK = {} /\ cola_hilos_EXIT = {}
  /\ lista_hilos = {} /\ liberados = {}
  /\ mutexs = [p \in PIDs |-> SinMutexs]
  /\ kernel = "activo"
  /\ \/ /\ cola_procesos_NEW = <<>> /\ cola_hilos_NEW = <<>>
        /\ cola_procesos_READY = {1}
        /\ hilo_EXEC = <<1, 0>> /\ cpu = "ejecuta"
     \/ /\ cola_procesos_NEW = <<1>> /\ cola_hilos_NEW = <<<<1, 0>>>>
        /\ cola_procesos_READY = {}
        /\ hilo_EXEC = Nadie /\ cpu = "espera_hilo"

Peticion(op) == op \in Llamadas /\ kernel = "activo" /\ cpu = "ejecuta"

\* One iteration of gestionar_peticiones_cpu_dispatch.
ProcessCreate == Peticion("PROCESS_CREATE") /\ \E prio \in Prioridades : crear_proceso(prio)
ThreadCreate  == Peticion("THREAD_CREATE") /\ \E prio \in Prioridades : crear_hilo(prio)
ThreadJoin    == Peticion("THREAD_JOIN") /\ \E tid \in TIDs : bloquear_hilo_por_thread_join(tid)
ThreadCancel  == Peticion("THREAD_CANCEL") /\ \E tid \in TIDs : finalizar_hilo(tid)
ThreadExit    == Peticion("THREAD_EXIT") /\ finalizar_hilo(hilo_EXEC[2])
ProcessExit   == Peticion("PROCESS_EXIT") /\ finalizar_proceso
SegmentationFault == Peticion("SEGMENTATION_FAULT") /\ finalizar_proceso
MutexCreate   == Peticion("MUTEX_CREATE") /\ \E n \in Nombres : crear_mutex(n)

\* What a script with Disciplina may name in a LOCK and in an UNLOCK.
Creado(n) == n \in Creados(hilo_EXEC[1])
Tomado(n) ==
  /\ Creado(n)
  /\ mutexs[hilo_EXEC[1]][n].propietario = hilo_EXEC
  /\ mutexs[hilo_EXEC[1]][n].valor < 1

MutexLock ==
  /\ Peticion("MUTEX_LOCK")
  /\ \E n \in Nombres : (Disciplina => Creado(n)) /\ bloquear_mutex(n)
MutexUnlock ==
  /\ Peticion("MUTEX_UNLOCK")
  /\ \E n \in Nombres : (Disciplina => Tomado(n)) /\ desbloquear_mutex(n)
FinQuantum    == Peticion("INTERRUPT") /\ cambiar_hilo_exec_fin_Q

Next ==
  \/ ProcessCreate \/ ThreadCreate \/ ThreadJoin \/ ThreadCancel \/ ThreadExit
  \/ ProcessExit \/ SegmentationFault \/ MutexCreate \/ MutexLock \/ MutexUnlock \/ FinQuantum

Spec == Init /\ [][Next]_vars

-----------------------------------------------------------------------------
(* Properties *)

\* The variables keep their types (global.c, estructuras.h).
TypeOK ==
  /\ proximo_pid \in 1 .. MaxPid + 1
  /\ prox_tid \in [PIDs -> 0 .. MaxTid + 1]
  /\ prioridad \in [Hilos -> Prioridades]
  /\ hilos_bloqueados \in [Hilos -> Seq(TIDs)]
  /\ cola_procesos_NEW \in Seq(PIDs)
  /\ cola_procesos_READY \subseteq PIDs
  /\ cola_hilos_NEW \in Seq(Hilos)
  /\ cola_hilos_READY \in Seq(Hilos \cup {Nadie})
  /\ colas_multi_level \in [Prioridades -> Seq(Hilos)]
  /\ cola_hilos_BLOCK \subseteq Hilos
  /\ cola_hilos_EXIT \subseteq Hilos
  /\ lista_hilos \subseteq Hilos
  /\ mutexs \in [PIDs -> [Nombres -> Recursos \cup {Nadie}]]
  /\ hilo_EXEC \in Hilos \cup {Nadie}
  /\ liberados \subseteq Hilos
  /\ cpu \in {"ejecuta", "espera_hilo", "espera_rta"}
  /\ cpu = "espera_hilo" <=> hilo_EXEC = Nadie
  /\ kernel \in {"activo", "caido"}

\* The two NEW queues go together: the i-th thread is thread 0 of the i-th
\* process. revisar_cola_procesos_new peeks the head of each one and sends memory
\* the pair, so a shifted queue would start a process with another one's script.
ColasNEWAlineadas ==
  /\ Len(cola_hilos_NEW) = Len(cola_procesos_NEW)
  /\ \A i \in DOMAIN cola_procesos_NEW : cola_hilos_NEW[i] = <<cola_procesos_NEW[i], 0>>

\* The places that hold a pointer to the TCB h: a queue and a position in it.
En(s, h) == {i \in DOMAIN s : s[i] = h}
Lugares(h) ==
  {<<"EXEC", 0, 1>> : x \in {hilo_EXEC} \cap {h}}
    \cup {<<"BLOCK", 0, 1>> : x \in cola_hilos_BLOCK \cap {h}}
    \cup {<<"EXIT", 0, 1>> : x \in cola_hilos_EXIT \cap {h}}
    \cup {<<"NEW", 0, i>> : i \in En(cola_hilos_NEW, h)}
    \cup {<<"READY", 0, i>> : i \in En(cola_hilos_READY, h)}
    \cup (UNION {{<<"NIVEL", l, i>> : i \in En(colas_multi_level[l], h)} : l \in Prioridades})
    \cup (UNION {UNION {{<<"ESPERA", n, i>> : i \in En(mutexs[p][n].espera, h)} :
                          n \in Creados(p)} : p \in PIDs})

\* A TCB is in one place at most, and a TCB given to free() is in none: a thread
\* queued twice would run twice, and a queue that kept a freed TCB would elect it.
\* Every handler takes the TCB out of one queue and puts it in another by hand.
UnSoloLugar ==
  \A h \in Hilos :
    /\ h \in liberados => Lugares(h) = {}
    /\ \A a, b \in Lugares(h) : a = b

\* The CPU is idle only when no thread is ready in any queue: nobody calls
\* elegir_hilo later for a thread that was left behind.
TrabajoConservado ==
  kernel = "activo" /\ hilo_EXEC = Nadie
    => \A h \in Hilos : ~EnReady(h) /\ ~EnNiveles(h)

\* The thread that runs, and the ones that may come to run, belong to processes that
\* exist: ending a process takes all its threads out of every queue, the ones woken
\* meanwhile included, and the handlers that dereference proceso_EXEC() find one.
SinHuerfanos ==
  \A h \in Hilos :
    h = hilo_EXEC \/ EnReady(h) \/ EnBlock(h) => h[1] \in cola_procesos_READY

\* A thread a join may wait for has not ended, so its end will come and
\* wake the joiner (planificacion.c, comment on the last line of the join).
EsperadosVivos == \A h \in lista_hilos : Encontrable(h)

\* A blocked thread is noted once, in the list of one thread: ends that wake it
\* twice would queue it twice.
EsperaUnica ==
  \A h \in cola_hilos_BLOCK :
    \A a, b \in UNION {{<<t, i>> : i \in En(hilos_bloqueados[<<h[1], t>>], h[2])} :
                        t \in TIDs} : a = b

\* No thread stays blocked on a thread that has ended
\* ("acordarnos de desbloquear a los hilos que bloqueo").
NadieEsperaAUnFinalizado ==
  \A h \in cola_hilos_EXIT :
    \A i \in DOMAIN hilos_bloqueados[h] :
      <<h[1], hilos_bloqueados[h][i]>> \notin cola_hilos_BLOCK

\* valor counts what the queue and the owner say: 1 when free, minus one for the
\* owner, minus one for each waiter, at every step of the FIFO hand-over.
ContabilidadMutex ==
  \A p \in PIDs : \A n \in Creados(p) :
    LET m == mutexs[p][n]
    IN  m.valor = 1 - Len(m.espera) - (IF m.propietario = Nadie THEN 0 ELSE 1)

\* Threads wait for a mutex only while some thread owns it ("recurso NO
\* disponible").
EsperaSoloSiTomado ==
  \A p \in PIDs : \A n \in Creados(p) :
    mutexs[p][n].espera # <<>> => mutexs[p][n].propietario # Nadie

\* Nobody overtakes the waiters of a mutex: while there are some, the ownership
\* passes only to the first, who leaves the queue and nobody else does.
SinColarse ==
  [][\A p \in PIDs : \A n \in Creados(p) \cap Creados(p)' :
       LET m == mutexs[p][n]
           r == mutexs'[p][n]
       IN  m.espera # <<>> /\ r.propietario # m.propietario
             => r.propietario = Head(m.espera) /\ r.espera = Tail(m.espera)]_vars

\* Whoever is ahead of a thread in its ready queue was ahead of it before: no
\* newcomer, woken or preempted thread gets in front of the ones that wait.
Antes(s, a, b) == \E i, j \in DOMAIN s : i < j /\ s[i] = a /\ s[j] = b
SinAdelantarse ==
  [][\A a, b \in Hilos :
       /\ b \in ToSet(cola_hilos_READY) /\ Antes(cola_hilos_READY', a, b)
            => Antes(cola_hilos_READY, a, b)
       /\ \A l \in Prioridades :
            b \in ToSet(colas_multi_level[l]) /\ Antes(colas_multi_level'[l], a, b)
              => Antes(colas_multi_level[l], a, b)]_vars

\* The thread elected has the best priority among the ready ones, and none of
\* those with the same priority was waiting before it.
EleccionPorPrioridad ==
  [][hilo_EXEC' \notin {hilo_EXEC, Nadie} =>
       \A h \in Hilos \cap ToSet(cola_hilos_READY') :
         \/ prioridad[hilo_EXEC'] < prioridad[h]
         \/ /\ prioridad[hilo_EXEC'] = prioridad[h]
            /\ ~Antes(cola_hilos_READY, h, hilo_EXEC')]_vars

\* The state of a thread, read from the place that holds it. A thread whose
\* creation memory refused is in none and has a TID already: it is over.
EstadoDe(h) ==
  IF h = hilo_EXEC THEN "EXEC"
  ELSE IF h \in ToSet(cola_hilos_NEW) THEN "NEW"
  ELSE IF EnReady(h) \/ EnNiveles(h) THEN "READY"
  ELSE IF EnBlock(h) THEN "BLOCK"
  ELSE IF h[2] < prox_tid[h[1]] THEN "EXIT"
  ELSE "SIN_CREAR"

Ciclo == INSTANCE CicloDeVida WITH estado <- [h \in Hilos |-> EstadoDe(h)]

\* The handlers of the dispatch thread implement the life cycle: no thread comes
\* back from EXIT, skips a state, or runs beside another one, and the CPU never
\* idles with a ready thread.
ImplementaCiclo == Ciclo!Spec

\* While the cpu changes hands for ever no thread stays ready for ever, among equal
\* priorities: ready threads come and go, and the preempted ones are queued again.
\* Nothing says that it does change hands: the cpu may drop the only interrupt of a
\* turn, and then the thread that runs keeps it until it makes a request.
SinPostergar ==
  []<><<hilo_EXEC' # hilo_EXEC>>_vars => \A h \in Hilos : []<>~EnReady(h)
=============================================================================
