---------------------------- MODULE KernelProofs ----------------------------
(***************************************************************************)
(* Types, the NEW queues and the ends of processes in the dispatch thread  *)
(* of the kernel, for every number of processes and threads, every         *)
(* algorithm and every script.                                             *)
(*                                                                         *)
(* Types need one more fact: memory admits pairs of a process and a thread *)
(* from the front of two queues, so the two must be as long as each other  *)
(* (MismoLargo). The lemmas on the queues are stated for any set H of      *)
(* threads: types are the case H = Hilos, and the rest of the module uses  *)
(* them for the threads of the admitted processes.                         *)
(***************************************************************************)
EXTENDS Kernel, LemasDeColas, TLAPS, FiniteSetTheorems, FunctionTheorems, SequenceTheorems

-----------------------------------------------------------------------------
(* Types of the operators on queues *)

\* Threads of H or NULL, and the levels of threads of H.
ONulo(H) == H \cup {Nadie}
NivelesDe(H) == [Prioridades -> Seq(H)]

\* agregar_hilo_a_ready on READY.
LEMMA AgregarReadyTipo ==
  ASSUME NEW H, NEW cola \in Seq(ONulo(H)), NEW s \in Seq(ONulo(H))
  PROVE  AgregarReady(cola, s) \in Seq(ONulo(H))
BY DEF AgregarReady

\* agregar_a_cola_ready_correspondiente for each thread, on the levels.
LEMMA AgregarNivelTipo ==
  ASSUME NEW H \in SUBSET Hilos, NEW niveles \in NivelesDe(H), NEW s \in Seq(ONulo(H)), NEW prio
  PROVE  AgregarNivel(niveles, s, prio) \in NivelesDe(H)
<1>1. \A l \in Prioridades : Filtrar(s, DePrioridad(prio, l)) \in Seq(H)
  <2> SUFFICES ASSUME NEW l \in Prioridades
               PROVE  Filtrar(s, DePrioridad(prio, l)) \in Seq(H)
    OBVIOUS
  <2>1. ONulo(H) \cap DePrioridad(prio, l) \subseteq H
    BY ConstantesDelKernel DEF DePrioridad, ONulo
  <2> QED BY <2>1, FiltrarTipo
<1>2. \A l \in Prioridades : niveles[l] \in Seq(H)
  BY DEF NivelesDe
<1>3. \A l \in Prioridades : niveles[l] \o Filtrar(s, DePrioridad(prio, l)) \in Seq(H)
  BY <1>1, <1>2, ConcatProperties
<1> QED BY <1>3 DEF AgregarNivel, NivelesDe

\* agregar_hilo_a_ready on the levels.
LEMMA AgregarNivelesTipo ==
  ASSUME NEW H \in SUBSET Hilos, NEW niveles \in NivelesDe(H), NEW s \in Seq(ONulo(H)), NEW prio
  PROVE  AgregarNiveles(niveles, s, prio) \in NivelesDe(H)
BY AgregarNivelTipo DEF AgregarNiveles

\* When some level has a thread, the choice of CMN finds one.
LEMMA PrimerNivelTipo ==
  ASSUME NEW niveles, \E l \in Prioridades : niveles[l] # <<>>
  PROVE  PrimerNivel(niveles) \in Prioridades /\ niveles[PrimerNivel(niveles)] # <<>>
<1> DEFINE M == {l \in Prioridades : niveles[l] # <<>>}
<1>1. M \in SUBSET Nat /\ M # {}
  BY ConstantesDelKernel
<1>2. \E l \in M : \A m \in M : l <= m
  <2> HIDE DEF M
  <2> QED BY <1>1, Minimo
<1> QED BY <1>2 DEF PrimerNivel

\* READY without a NULL has a first position with the best priority.
LEMMA PosicionMejor ==
  ASSUME NEW H \in SUBSET Hilos, NEW cola \in Seq(ONulo(H)), cola # <<>>, Nadie \notin ToSet(cola),
         prioridad \in [Hilos -> Prioridades]
  PROVE  /\ Posicion(cola) \in 1 .. Len(cola)
         /\ \A k \in 1 .. Len(cola) :
              \/ prioridad[cola[Posicion(cola)]] < prioridad[cola[k]]
              \/ prioridad[cola[Posicion(cola)]] = prioridad[cola[k]] /\ Posicion(cola) <= k
<1> DEFINE I == 1 .. Len(cola)
           P(i) == prioridad[cola[i]]
           Ps == {P(i) : i \in I}
<1>1. Len(cola) \in Nat /\ Len(cola) # 0
  OBVIOUS
<1>2. \A i \in I : cola[i] \in Hilos
  BY DEF ToSet, ONulo
<1>3. \A i \in I : P(i) \in Nat
  BY <1>2, ConstantesDelKernel
<1>4. PICK p \in Ps : \A q \in Ps : p <= q
  <2>1. Ps \in SUBSET Nat /\ Ps # {}
    BY <1>1, <1>3
  <2> HIDE DEF Ps
  <2> QED BY <2>1, Minimo
<1> DEFINE M == {i \in I : P(i) = p}
<1>5. PICK i \in M : \A k \in M : i <= k
  <2>1. M \in SUBSET Nat /\ M # {}
    OBVIOUS
  <2> HIDE DEF M
  <2> QED BY <2>1, Minimo
<1>6. \A k \in I : P(i) < P(k) \/ (P(i) = P(k) /\ i <= k)
  <2> SUFFICES ASSUME NEW k \in I PROVE P(i) < P(k) \/ (P(i) = P(k) /\ i <= k)
    OBVIOUS
  <2>1. P(i) = p /\ P(i) \in Nat /\ P(k) \in Nat
    BY <1>3
  <2>2. p <= P(k)
    BY <1>4
  <2>3. P(k) = p => i <= k
    BY <1>5
  <2> HIDE DEF P, I
  <2> QED BY <2>1, <2>2, <2>3
<1>7. i \in I
  OBVIOUS
<1> HIDE DEF M, Ps
<1> QED BY <1>6, <1>7 DEF Posicion

LEMMA PosicionTipo ==
  ASSUME NEW H \in SUBSET Hilos, NEW cola \in Seq(ONulo(H)), cola # <<>>, Nadie \notin ToSet(cola),
         prioridad \in [Hilos -> Prioridades]
  PROVE  Posicion(cola) \in 1 .. Len(cola)
BY PosicionMejor

-----------------------------------------------------------------------------
(* Type correctness *)

\* The parts of TypeOK the choice of a thread writes.
TipoListos == cola_hilos_READY \in Seq(ONulo(Hilos)) /\ colas_multi_level \in NivelesDe(Hilos)
TipoCPU ==
  /\ hilo_EXEC \in ONulo(Hilos)
  /\ cpu \in {"ejecuta", "espera_hilo", "espera_rta"}
  /\ cpu = "espera_hilo" <=> hilo_EXEC = Nadie
  /\ kernel \in {"activo", "caido"}

\* The parts the other handlers write.
TipoTCB ==
  /\ proximo_pid \in 1 .. MaxPid + 1
  /\ prox_tid \in [PIDs -> 0 .. MaxTid + 1]
  /\ prioridad \in [Hilos -> Prioridades]
TipoNEW ==
  /\ cola_procesos_NEW \in Seq(PIDs)
  /\ cola_procesos_READY \subseteq PIDs
  /\ cola_hilos_NEW \in Seq(Hilos)
TipoEspera ==
  /\ hilos_bloqueados \in [Hilos -> Seq(TIDs)]
  /\ cola_hilos_BLOCK \subseteq Hilos
TipoFin ==
  /\ cola_hilos_EXIT \subseteq Hilos
  /\ lista_hilos \subseteq Hilos
  /\ liberados \subseteq Hilos
TipoMutexs == mutexs \in [PIDs -> [Nombres -> Recursos \cup {Nadie}]]

Tipos ==
  TipoListos /\ TipoCPU /\ TipoTCB /\ TipoNEW /\ TipoEspera /\ TipoFin /\ TipoMutexs

\* What the type of the NEW queues rests on: each process brings its thread 0.
MismoLargo == Len(cola_hilos_NEW) = Len(cola_procesos_NEW)

\* TypeOK is the conjunction of its parts, now and after the step.
LEMMA Partes == (TypeOK <=> Tipos) /\ (TypeOK' <=> Tipos')
BY DEF TypeOK, Tipos, TipoListos, TipoCPU, TipoTCB, TipoNEW, TipoEspera, TipoFin,
       TipoMutexs, ONulo, NivelesDe

\* The threads of READY and those of the levels when the ones the algorithm elects
\* from are to be in H: the other queues hold whatever threads.
DeReady(H) == IF ALGORITMO = "CMN" THEN Hilos ELSE H
DeNivel(H) == IF ALGORITMO = "CMN" THEN H ELSE Hilos

\* A choice among threads of H runs one of them and leaves the others queued.
LEMMA ElegirDe ==
  ASSUME NEW H \in SUBSET Hilos, NEW cola \in Seq(ONulo(DeReady(H))),
         NEW niveles \in NivelesDe(DeNivel(H)), TipoTCB, TipoCPU,
         elegir_hilo(cola, niveles)
  PROVE  /\ cola_hilos_READY' \in Seq(ONulo(DeReady(H)))
         /\ colas_multi_level' \in NivelesDe(DeNivel(H))
         /\ hilo_EXEC' \in ONulo(H)
         /\ TipoCPU'
<1> USE DEF TipoCPU, TipoTCB
<1>1. CASE SinListos(cola, niveles) /\ CpuLibre
           /\ cola_hilos_READY' = cola /\ colas_multi_level' = niveles
           /\ UNCHANGED kernel
  BY <1>1 DEF CpuLibre, ONulo
<1>2. CASE EligeNulo(cola) /\ CpuLibre /\ kernel' = "caido"
           /\ cola_hilos_READY' = cola /\ colas_multi_level' = niveles
  BY <1>2 DEF CpuLibre, ONulo
<1>3. CASE /\ ALGORITMO # "CMN" /\ cola # <<>> /\ ~EligeNulo(cola)
           /\ LET i == IF ALGORITMO = "FIFO" THEN 1 ELSE Posicion(cola)
              IN  hilo_EXEC' = cola[i] /\ cola_hilos_READY' = RemoveAt(cola, i)
           /\ cpu' = "ejecuta"
           /\ colas_multi_level' = niveles
           /\ UNCHANGED kernel
  <2> DEFINE i == IF ALGORITMO = "FIFO" THEN 1 ELSE Posicion(cola)
  <2>0. cola \in Seq(ONulo(H))
    BY <1>3 DEF DeReady
  <2>1. ASSUME ALGORITMO = "FIFO"
        PROVE  i \in 1 .. Len(cola) /\ cola[i] # Nadie
    <3>1. i \in 1 .. Len(cola) /\ cola[i] # Nadie
      BY <1>3, <2>0, <2>1 DEF EligeNulo
    <3> QED BY <3>1
  <2>2. ASSUME ALGORITMO # "FIFO"
        PROVE  i \in 1 .. Len(cola) /\ cola[i] # Nadie
    <3>1. ALGORITMO = "PRIORIDADES"
      BY <1>3, <2>2, ConstantesDelKernel
    <3>2. Nadie \notin ToSet(cola)
      BY <1>3, <3>1 DEF EligeNulo
    <3>3. i \in 1 .. Len(cola)
      BY <1>3, <2>0, <2>2, <3>2, PosicionTipo
    <3>4. cola[i] # Nadie
      BY <3>2, <3>3 DEF ToSet
    <3> QED BY <3>3, <3>4
  <2>3. i \in 1 .. Len(cola) /\ cola[i] \in H /\ cola[i] # Nadie
    BY <2>0, <2>1, <2>2 DEF ONulo
  <2>4. hilo_EXEC' = cola[i] /\ cola_hilos_READY' = RemoveAt(cola, i)
    BY <1>3
  <2> HIDE DEF i
  <2>5. RemoveAt(cola, i) \in Seq(ONulo(H))
    BY <2>0, <2>3, RemoveAtTipo
  <2> QED BY <1>3, <2>3, <2>4, <2>5 DEF ONulo, DeReady
<1>4. CASE /\ ALGORITMO = "CMN" /\ ~SinListos(cola, niveles)
           /\ LET l == PrimerNivel(niveles)
              IN  /\ hilo_EXEC' = Head(niveles[l])
                  /\ colas_multi_level' = [niveles EXCEPT ![l] = Tail(@)]
           /\ cpu' = "ejecuta"
           /\ cola_hilos_READY' = cola
           /\ UNCHANGED kernel
  <2> DEFINE l == PrimerNivel(niveles)
  <2>1. l \in Prioridades /\ niveles[l] # <<>>
    BY <1>4, PrimerNivelTipo DEF SinListos
  <2>2. niveles[l] \in Seq(H)
    BY <1>4, <2>1 DEF NivelesDe, DeNivel
  <2> HIDE DEF l
  <2>3. Head(niveles[l]) \in H /\ Tail(niveles[l]) \in Seq(H)
    BY <2>1, <2>2
  <2>4. [niveles EXCEPT ![l] = Tail(@)] \in NivelesDe(H)
    BY <1>4, <2>3 DEF NivelesDe, DeNivel
  <2>5. hilo_EXEC' = Head(niveles[l])
        /\ colas_multi_level' = [niveles EXCEPT ![l] = Tail(@)]
    BY <1>4 DEF l
  <2>6. Head(niveles[l]) # Nadie
    BY <2>3, ConstantesDelKernel
  <2> QED BY <1>4, <2>3, <2>4, <2>5, <2>6 DEF ONulo, DeNivel
<1> QED BY <1>1, <1>2, <1>3, <1>4 DEF elegir_hilo

\* A choice among any threads keeps the types.
LEMMA ElegirTipo ==
  ASSUME NEW cola \in Seq(ONulo(Hilos)), NEW niveles \in NivelesDe(Hilos), TipoTCB, TipoCPU,
         elegir_hilo(cola, niveles)
  PROVE  TipoListos' /\ TipoCPU'
BY ElegirDe DEF TipoListos, DeReady, DeNivel

\* While the CPU runs, hilo_EXEC is a thread.
LEMMA EjecutaHilo ==
  ASSUME TipoCPU, cpu = "ejecuta"
  PROVE  /\ hilo_EXEC \in Hilos /\ hilo_EXEC[1] \in PIDs /\ hilo_EXEC[2] \in TIDs
         /\ hilo_EXEC = <<hilo_EXEC[1], hilo_EXEC[2]>>
BY DEF TipoCPU, ONulo, Hilos

\* A handler that lets the thread go on keeps the type of the CPU.
LEMMA SigueTipo ==
  ASSUME TipoCPU, cpu = "ejecuta", SigueElMismo
  PROVE  TipoCPU'
BY DEF TipoCPU, SigueElMismo

\* A handler that dereferences NULL writes nothing but kernel.
LEMMA CaeTipo ==
  ASSUME TypeOK, Cae
  PROVE  TypeOK'
BY DEF TypeOK, Cae, colas, listos, tcbs, fin

\* A prefix and a suffix keep the type.
LEMMA SubSeqTipo ==
  ASSUME NEW T, NEW s \in Seq(T), NEW k \in 0 .. Len(s)
  PROVE  SubSeq(s, 1, k) \in Seq(T) /\ SubSeq(s, k + 1, Len(s)) \in Seq(T)
OBVIOUS

\* A queue of threads is a queue of threads or NULL.
LEMMA HilosNulos ==
  \A s : s \in Seq(Hilos) => s \in Seq(ONulo(Hilos))
BY DEF ONulo

\* PROCESS_CREATE.
LEMMA CrearProcesoTipo ==
  ASSUME TypeOK, MismoLargo, cpu = "ejecuta", NEW prio \in Prioridades, crear_proceso(prio)
  PROVE  TypeOK' /\ MismoLargo'
<1> DEFINE h == <<proximo_pid, 0>>
           procesos == Append(cola_procesos_NEW, proximo_pid)
           hilos == Append(cola_hilos_NEW, h)
<1>1. /\ TipoListos /\ TipoCPU /\ TipoTCB /\ TipoNEW /\ TipoEspera /\ TipoFin
      /\ TipoMutexs
  BY Partes DEF Tipos
<1>2. proximo_pid \in PIDs /\ h \in Hilos
  BY ConstantesDelKernel DEF crear_proceso, Hilos, TIDs
<1>3. procesos \in Seq(PIDs) /\ hilos \in Seq(Hilos)
  BY <1>1, <1>2 DEF TipoNEW
<1>4. PICK k \in IF Len(procesos) = 1 THEN {0, 1} ELSE {0} :
        /\ proximo_pid' = proximo_pid + 1
        /\ prox_tid' = [prox_tid EXCEPT ![proximo_pid] = 1]
        /\ prioridad' = [prioridad EXCEPT ![h] = prio]
        /\ Admite(procesos, hilos, k)
        /\ cola_procesos_READY' = cola_procesos_READY \cup ToSet(SubSeq(procesos, 1, k))
        /\ cola_hilos_READY' = AgregarReady(cola_hilos_READY, SubSeq(hilos, 1, k))
        /\ colas_multi_level' =
              AgregarNiveles(colas_multi_level, SubSeq(hilos, 1, k), prioridad')
  BY DEF crear_proceso
<1>5. /\ SigueElMismo
      /\ UNCHANGED <<fin, hilos_bloqueados, cola_hilos_BLOCK, mutexs>>
  BY DEF crear_proceso
<1>6. Len(procesos) \in Nat /\ Len(hilos) \in Nat /\ Len(hilos) > 0 /\ k \in 0 .. 1
      /\ (k = 1 => Len(procesos) = 1)
  BY <1>1 DEF TipoNEW
<1> HIDE DEF procesos, hilos
<1>7. k \in 0 .. Len(procesos) /\ k \in 0 .. Len(hilos)
  BY <1>6
<1>8. /\ SubSeq(procesos, 1, k) \in Seq(PIDs)
      /\ SubSeq(procesos, k + 1, Len(procesos)) \in Seq(PIDs)
      /\ SubSeq(hilos, 1, k) \in Seq(Hilos)
      /\ SubSeq(hilos, k + 1, Len(hilos)) \in Seq(Hilos)
  BY <1>3, <1>7, SubSeqTipo
<1>9. TipoTCB'
  BY <1>1, <1>2, <1>4, ConstantesDelKernel DEF TipoTCB, PIDs
<1>10. TipoNEW'
  <2>1. ToSet(SubSeq(procesos, 1, k)) \subseteq PIDs
    <3> DEFINE q == SubSeq(procesos, 1, k)
    <3>1. q \in Seq(PIDs) BY <1>8
    <3> HIDE DEF q
    <3>2. ToSet(q) \subseteq PIDs BY <3>1 DEF ToSet
    <3> QED BY <3>2 DEF q
  <2> QED BY <1>1, <1>4, <1>8, <2>1 DEF TipoNEW, Admite
<1>11. TipoListos'
  BY <1>1, <1>4, <1>8, HilosNulos, AgregarReadyTipo, AgregarNivelesTipo DEF TipoListos
<1>12. TipoCPU' /\ TipoEspera' /\ TipoFin' /\ TipoMutexs'
  BY <1>1, <1>5, SigueTipo DEF TipoEspera, TipoFin, TipoMutexs, fin
<1>13. MismoLargo'
  <2>1. Len(hilos) = Len(procesos)
    BY <1>1 DEF MismoLargo, hilos, procesos, TipoNEW
  <2>2. Len(SubSeq(hilos, k + 1, Len(hilos))) = Len(SubSeq(procesos, k + 1, Len(procesos)))
    BY <1>3, <1>7, <2>1
  <2> QED BY <1>4, <2>2 DEF MismoLargo, Admite
<1> QED BY <1>9, <1>10, <1>11, <1>12, <1>13, Partes DEF Tipos

\* THREAD_CREATE.
LEMMA CrearHiloTipo ==
  ASSUME TypeOK, MismoLargo, cpu = "ejecuta", NEW prio \in Prioridades, crear_hilo(prio)
  PROVE  TypeOK' /\ MismoLargo'
<1> DEFINE pid == hilo_EXEC[1]
           h == <<pid, prox_tid[pid]>>
           new == Append(cola_hilos_NEW, h)
           i == SelectInSeq(new, LAMBDA t : t[1] = pid)
           tcb == new[i]
<1>1. /\ TipoListos /\ TipoCPU /\ TipoTCB /\ TipoNEW /\ TipoEspera /\ TipoFin
      /\ TipoMutexs
  BY Partes DEF Tipos
<1>2. pid \in PIDs
  BY <1>1, EjecutaHilo
<1>3. /\ prox_tid[pid] \in TIDs
      /\ prox_tid' = [prox_tid EXCEPT ![pid] = @ + 1]
      /\ prioridad' = [prioridad EXCEPT ![h] = prio]
      /\ cola_hilos_NEW' = RemoveAt(new, i)
      /\ SigueElMismo
      /\ UNCHANGED <<proximo_pid, cola_procesos_NEW, cola_procesos_READY,
                     hilos_bloqueados, cola_hilos_BLOCK, cola_hilos_EXIT,
                     liberados, mutexs>>
  BY DEF crear_hilo
<1>4. PICK admitidos \in {<<tcb>>, <<>>} :
        /\ cola_hilos_READY' = AgregarReady(cola_hilos_READY, admitidos)
        /\ colas_multi_level' = AgregarNiveles(colas_multi_level, admitidos, prioridad')
        /\ lista_hilos' = lista_hilos \cup ToSet(admitidos)
  BY DEF crear_hilo
<1>5. h \in Hilos
  BY <1>2, <1>3 DEF Hilos
<1>6. /\ new \in Seq(Hilos) /\ Len(new) \in 1 .. Len(new)
      /\ new[Len(new)] = h
  BY <1>1, <1>5 DEF TipoNEW
<1>7. i \in 1 .. Len(new)
  <2> HIDE DEF new
  <2> DEFINE I == {k \in 1 .. Len(new) : new[k][1] = pid}
  <2>1. Len(new) \in I
    BY <1>6
  <2>2. I \in SUBSET Nat /\ I # {}
    BY <2>1
  <2>3. Min(I) \in I
    <3> HIDE DEF I
    <3> QED BY <2>2, MinTipo
  <2>4. i = Min(I)
    BY <2>2 DEF SelectInSeq
  <2> QED BY <2>3, <2>4
<1> HIDE DEF new, i
<1>8. tcb \in Hilos /\ RemoveAt(new, i) \in Seq(Hilos)
  BY <1>6, <1>7, RemoveAtTipo
<1>9. admitidos \in Seq(Hilos) /\ ToSet(admitidos) \subseteq Hilos
  <2>1. ToSet(<<tcb>>) = {tcb} /\ ToSet(<<>>) = {}
    BY DEF ToSet
  <2>2. admitidos = <<tcb>> \/ admitidos = <<>>
    BY <1>4
  <2>3. <<tcb>> \in Seq(Hilos) /\ <<>> \in Seq(Hilos)
    BY <1>8
  <2> HIDE DEF tcb
  <2> QED BY <1>8, <2>1, <2>2, <2>3
<1>10. TipoTCB'
  <2>1. prox_tid[pid] + 1 \in 0 .. MaxTid + 1
    BY <1>3, ConstantesDelKernel DEF TIDs
  <2> QED BY <1>1, <1>2, <1>3, <1>5, <2>1 DEF TipoTCB
<1>11. TipoNEW'
  BY <1>1, <1>3, <1>8 DEF TipoNEW
<1>12. TipoListos'
  BY <1>1, <1>4, <1>9, HilosNulos, AgregarReadyTipo, AgregarNivelesTipo DEF TipoListos
<1>13. TipoCPU' /\ TipoEspera' /\ TipoFin' /\ TipoMutexs'
  BY <1>1, <1>3, <1>4, <1>9, SigueTipo DEF TipoEspera, TipoFin, TipoMutexs
<1>14. MismoLargo'
  <2>1. Len(new) = Len(cola_hilos_NEW) + 1
    BY <1>1 DEF new, TipoNEW
  <2>2. Len(RemoveAt(new, i)) = Len(new) - 1
    BY <1>6, <1>7, RemoveAtTipo
  <2> QED BY <1>1, <1>3, <2>1, <2>2 DEF MismoLargo, TipoNEW
<1> QED BY <1>10, <1>11, <1>12, <1>13, <1>14, Partes DEF Tipos

\* THREAD_JOIN.
LEMMA JoinTipo ==
  ASSUME TypeOK, cpu = "ejecuta", NEW tid \in TIDs, bloquear_hilo_por_thread_join(tid)
  PROVE  TypeOK'
<1> DEFINE h == <<hilo_EXEC[1], tid>>
<1>1. /\ TipoListos /\ TipoCPU /\ TipoTCB /\ TipoNEW /\ TipoEspera /\ TipoFin
      /\ TipoMutexs
  BY Partes DEF Tipos
<1>2. hilo_EXEC \in Hilos /\ hilo_EXEC[2] \in TIDs /\ h \in Hilos
  BY <1>1, EjecutaHilo DEF Hilos
<1>3. CASE /\ hilos_bloqueados' = [hilos_bloqueados EXCEPT ![h] = Append(@, hilo_EXEC[2])]
           /\ cola_hilos_BLOCK' = cola_hilos_BLOCK \cup {hilo_EXEC}
           /\ elegir_hilo(cola_hilos_READY, colas_multi_level)
           /\ UNCHANGED <<colas, tcbs, fin, mutexs>>
  <2>1. TipoListos' /\ TipoCPU'
    BY <1>1, <1>3, ElegirTipo DEF TipoListos
  <2>2. TipoEspera'
    BY <1>1, <1>2, <1>3 DEF TipoEspera
  <2>3. TipoTCB' /\ TipoNEW' /\ TipoFin' /\ TipoMutexs'
    BY <1>1, <1>3 DEF TipoTCB, TipoNEW, TipoFin, TipoMutexs, colas, tcbs, fin
  <2> QED BY <2>1, <2>2, <2>3, Partes DEF Tipos
<1>4. CASE /\ SigueElMismo
           /\ UNCHANGED <<colas, listos, tcbs, fin, mutexs, hilos_bloqueados,
                          cola_hilos_BLOCK>>
  <2>1. TipoCPU'
    BY <1>1, <1>4, SigueTipo
  <2>2. TipoListos' /\ TipoEspera' /\ TipoTCB' /\ TipoNEW' /\ TipoFin' /\ TipoMutexs'
    BY <1>1, <1>4
    DEF TipoListos, TipoEspera, TipoTCB, TipoNEW, TipoFin, TipoMutexs,
        colas, listos, tcbs, fin
  <2> QED BY <2>1, <2>2, Partes DEF Tipos
<1>5. CASE Cae
  BY <1>5, CaeTipo
<1> QED BY <1>3, <1>4, <1>5 DEF bloquear_hilo_por_thread_join

\* The odd and the even positions of a list are positions of it.
LEMMA Mitades ==
  ASSUME NEW k \in Nat
  PROVE  /\ (k + 1) \div 2 \in Nat /\ k \div 2 \in Nat
         /\ \A n \in 1 .. (k + 1) \div 2 : 2 * n - 1 \in 1 .. k
         /\ \A n \in 1 .. k \div 2 : 2 * n \in 1 .. k
<1>1. (k + 1) \div 2 \in Nat /\ 2 * ((k + 1) \div 2) <= k + 1
  OBVIOUS
<1>2. k \div 2 \in Nat /\ 2 * (k \div 2) <= k
  OBVIOUS
<1> QED BY <1>1, <1>2

\* The TCBs a handler wakes are threads or NULL.
LEMMA DespertadosTipo ==
  ASSUME TipoEspera, NEW h \in Hilos
  PROVE  /\ Visitados(hilos_bloqueados[h]) \in Seq(TIDs)
         /\ NoVisitados(hilos_bloqueados[h]) \in Seq(TIDs)
         /\ Despertados(h) \in Seq(ONulo(Hilos))
<1> DEFINE s == hilos_bloqueados[h]
           m == (Len(s) + 1) \div 2
<1>1. s \in Seq(TIDs) /\ Len(s) \in Nat
  BY DEF TipoEspera
<1>2. m \in Nat /\ Len(s) \div 2 \in Nat
  BY <1>1, Mitades
<1>3. \A n \in 1 .. m : 2 * n - 1 \in 1 .. Len(s)
  BY <1>1, Mitades
<1>4. \A n \in 1 .. Len(s) \div 2 : 2 * n \in 1 .. Len(s)
  BY <1>1, Mitades
<1> HIDE DEF s
<1>5. Visitados(s) \in Seq(TIDs)
  BY <1>1, <1>2, <1>3 DEF Visitados
<1>6. NoVisitados(s) \in Seq(TIDs)
  BY <1>1, <1>2, <1>4 DEF NoVisitados
<1>7. h[1] \in PIDs
  BY DEF Hilos
<1> DEFINE v == Visitados(s)
<1>8. Despertados(h) \in Seq(ONulo(Hilos))
  <2>1. Despertados(h) = [n \in DOMAIN v |-> IF EnBlock(<<h[1], v[n]>>) /\ v[n] # h[2]
                                            THEN <<h[1], v[n]>> ELSE Nadie]
    BY DEF Despertados, s
  <2> HIDE DEF v
  <2>2. v \in Seq(TIDs)
    BY <1>5 DEF v
  <2>3. DOMAIN v = 1 .. Len(v) /\ Len(v) \in Nat /\ \A n \in 1 .. Len(v) : v[n] \in TIDs
    BY <2>2
  <2>4. \A n \in 1 .. Len(v) : <<h[1], v[n]>> \in ONulo(Hilos)
    BY <2>3, <1>7 DEF ONulo, Hilos
  <2> QED BY <2>1, <2>3, <2>4 DEF ONulo
<1> QED BY <1>5, <1>6, <1>8 DEF s

\* The mutexes of a process without a waiter are mutexes.
LEMMA SinEsperaTipo ==
  ASSUME TipoMutexs, NEW p \in PIDs, NEW h
  PROVE  SinEspera(mutexs[p], h) \in [Nombres -> Recursos \cup {Nadie}]
<1> DEFINE r == mutexs[p]
<1>1. r \in [Nombres -> Recursos \cup {Nadie}]
  BY DEF TipoMutexs
<1> HIDE DEF r
<1>2. ASSUME NEW n \in Nombres, r[n] # Nadie
      PROVE  [r[n] EXCEPT !.espera = RemoveFirst(@, h)] \in Recursos
  <2>1. r[n] \in Recursos
    BY <1>1, <1>2
  <2>2. r[n].espera \in Seq(Hilos)
    BY <2>1 DEF Recursos
  <2>3. RemoveFirst(r[n].espera, h) \in Seq(Hilos)
    BY <2>2, RemoveFirstTipo
  <2> QED BY <2>1, <2>3 DEF Recursos
<1>3. SinEspera(r, h) \in [Nombres -> Recursos \cup {Nadie}]
  BY <1>2 DEF SinEspera
<1> QED BY <1>3 DEF r

\* The ready queues without a thread keep their types.
LEMMA SinListoTipo ==
  ASSUME TipoListos, NEW h
  PROVE  ReadySin(h) \in Seq(ONulo(Hilos)) /\ NivelesSin(h) \in NivelesDe(Hilos)
<1>1. ReadySin(h) \in Seq(ONulo(Hilos))
  BY RemoveFirstTipo DEF TipoListos, ReadySin
<1>2. \A l \in Prioridades : RemoveFirst(colas_multi_level[l], h) \in Seq(Hilos)
  <2>1. \A l \in Prioridades : colas_multi_level[l] \in Seq(Hilos)
    BY DEF TipoListos, NivelesDe
  <2> QED BY <2>1, RemoveFirstTipo
<1>3. NivelesSin(h) \in NivelesDe(Hilos)
  BY <1>2 DEF NivelesSin, TipoListos, NivelesDe
<1> QED BY <1>1, <1>3

\* THREAD_EXIT and THREAD_CANCEL.
LEMMA FinalizarHiloTipo ==
  ASSUME TypeOK, cpu = "ejecuta", NEW tid \in TIDs, finalizar_hilo(tid)
  PROVE  TypeOK'
<1> DEFINE h == <<hilo_EXEC[1], tid>>
           ds == Despertados(h)
           cola == AgregarReady(ReadySin(h), ds)
           niveles == AgregarNiveles(NivelesSin(h), ds, prioridad)
<1>1. /\ TipoListos /\ TipoCPU /\ TipoTCB /\ TipoNEW /\ TipoEspera /\ TipoFin
      /\ TipoMutexs
  BY Partes DEF Tipos
<1>2. h \in Hilos /\ h[1] \in PIDs
  BY <1>1, EjecutaHilo DEF Hilos
<1>3. CASE /\ SigueElMismo
           /\ UNCHANGED <<colas, listos, tcbs, fin, mutexs, hilos_bloqueados,
                          cola_hilos_BLOCK>>
  <2>1. TipoCPU'
    BY <1>1, <1>3, SigueTipo
  <2>2. TipoListos' /\ TipoEspera' /\ TipoTCB' /\ TipoNEW' /\ TipoFin' /\ TipoMutexs'
    BY <1>1, <1>3
    DEF TipoListos, TipoEspera, TipoTCB, TipoNEW, TipoFin, TipoMutexs,
        colas, listos, tcbs, fin
  <2> QED BY <2>1, <2>2, Partes DEF Tipos
<1>4. CASE Cae
  BY <1>4, CaeTipo
<1>5. CASE /\ hilos_bloqueados' = [hilos_bloqueados EXCEPT ![h] = NoVisitados(@)]
           /\ cola_hilos_BLOCK' = cola_hilos_BLOCK \ ({h} \cup ToSet(ds))
           /\ mutexs' = [mutexs EXCEPT ![h[1]] = SinEspera(@, h)]
           /\ PasaAExit(h)
           /\ \/ h = hilo_EXEC /\ elegir_hilo(cola, niveles)
              \/ /\ h # hilo_EXEC /\ SigueElMismo
                 /\ cola_hilos_READY' = cola /\ colas_multi_level' = niveles
           /\ UNCHANGED <<colas, tcbs, liberados>>
  <2>1. ds \in Seq(ONulo(Hilos)) /\ NoVisitados(hilos_bloqueados[h]) \in Seq(TIDs)
    BY <1>1, <1>2, DespertadosTipo
  <2>2. cola \in Seq(ONulo(Hilos)) /\ niveles \in NivelesDe(Hilos)
    <3>1. ReadySin(h) \in Seq(ONulo(Hilos)) /\ NivelesSin(h) \in NivelesDe(Hilos)
      BY <1>1, SinListoTipo
    <3> HIDE DEF ds
    <3> QED BY <2>1, <3>1, AgregarReadyTipo, AgregarNivelesTipo
  <2>3. SinEspera(mutexs[h[1]], h) \in [Nombres -> Recursos \cup {Nadie}]
    BY <1>1, <1>2, SinEsperaTipo
  <2> HIDE DEF cola, niveles, ds, h
  <2>4. TipoListos' /\ TipoCPU'
    <3>1. CASE elegir_hilo(cola, niveles)
      BY <1>1, <2>2, <3>1, ElegirTipo
    <3>2. CASE SigueElMismo /\ cola_hilos_READY' = cola /\ colas_multi_level' = niveles
      BY <1>1, <2>2, <3>2, SigueTipo DEF TipoListos
    <3> QED BY <1>5, <3>1, <3>2
  <2>5. TipoEspera'
    BY <1>1, <1>2, <1>5, <2>1 DEF TipoEspera
  <2>6. TipoMutexs'
    BY <1>1, <1>2, <1>5, <2>3 DEF TipoMutexs
  <2>7. TipoTCB' /\ TipoNEW' /\ TipoFin'
    BY <1>1, <1>2, <1>5 DEF TipoTCB, TipoNEW, TipoFin, PasaAExit, colas, tcbs
  <2> QED BY <2>4, <2>5, <2>6, <2>7, Partes DEF Tipos
<1> QED BY <1>3, <1>4, <1>5 DEF finalizar_hilo

\* A finite union, given by a function, of finite sets is finite.
LEMMA UnionFinita ==
  ASSUME NEW H, IsFiniteSet(H), NEW f, \A h \in H : IsFiniteSet(f[h])
  PROVE  IsFiniteSet(UNION {f[h] : h \in H})
<1> DEFINE F == {f[h] : h \in H}
           g == [h \in H |-> f[h]]
<1>1. g \in Surjection(H, F)
  BY DEF Surjection
<1>2. IsFiniteSet(F)
  <2> HIDE DEF F, g
  <2> QED BY <1>1, FS_Surjection
<1>3. \A T \in F : IsFiniteSet(T)
  OBVIOUS
<1>4. IsFiniteSet(UNION F)
  <2> HIDE DEF F
  <2> QED BY <1>2, <1>3, FS_UNION
<1> QED BY <1>4

\* Pairs of a thread and some positions of a list are finitely many.
LEMMA ParesFinitos ==
  ASSUME NEW h, NEW L \in Nat, NEW D \in SUBSET (1 .. L)
  PROVE  IsFiniteSet({<<h, n>> : n \in D})
<1> DEFINE T == {<<h, n>> : n \in D}
           g == [n \in D |-> <<h, n>>]
<1>1. g \in Surjection(D, T)
  BY DEF Surjection
<1>2. IsFiniteSet(D)
  BY Posiciones
<1> HIDE DEF T, g
<1>3. IsFiniteSet(T)
  BY <1>1, <1>2, FS_Surjection
<1> QED BY <1>3 DEF T

\* There are finitely many threads.
LEMMA HilosFinito == IsFiniteSet(Hilos)
<1>1. IsFiniteSet(PIDs) /\ IsFiniteSet(TIDs)
  BY ConstantesDelKernel, FS_Interval DEF PIDs, TIDs
<1> QED BY <1>1, FS_Product DEF Hilos

\* The joiners that are not found when a process ends are finitely many.
LEMMA NulosFinitos ==
  ASSUME TipoEspera, NEW pid
  PROVE  Cardinality(Nulos(pid)) \in Nat
<1> DEFINE f == [h \in Hilos |-> {<<h, n>> : n \in SinBloquear(h)}]
<1>1. Terminan(pid) \subseteq Hilos
  BY DEF Terminan
<1>2. \A h \in Hilos : IsFiniteSet(f[h])
  <2> SUFFICES ASSUME NEW h \in Hilos PROVE IsFiniteSet({<<h, n>> : n \in SinBloquear(h)})
    OBVIOUS
  <2> DEFINE v == Visitados(hilos_bloqueados[h])
  <2>1. v \in Seq(TIDs)
    BY DespertadosTipo
  <2>2. Len(v) \in Nat /\ DOMAIN v = 1 .. Len(v)
    BY <2>1
  <2>3. SinBloquear(h) \in SUBSET (1 .. Len(v))
    BY <2>2 DEF SinBloquear
  <2> HIDE DEF v
  <2> QED BY <2>2, <2>3, ParesFinitos
<1>3. IsFiniteSet(Terminan(pid))
  BY <1>1, HilosFinito, FS_Subset
<1>4. Nulos(pid) = UNION {f[h] : h \in Terminan(pid)}
  <2>1. \A h \in Terminan(pid) : f[h] = {<<h, n>> : n \in SinBloquear(h)}
    BY <1>1
  <2> HIDE DEF f
  <2>2. {f[h] : h \in Terminan(pid)} = {{<<h, n>> : n \in SinBloquear(h)} : h \in Terminan(pid)}
    BY SMTT(30), <2>1
  <2> QED BY <2>2, Zenon DEF Nulos
<1> HIDE DEF f
<1>5. IsFiniteSet(Nulos(pid))
  BY <1>1, <1>2, <1>3, <1>4, UnionFinita
<1> QED BY <1>5, FS_CardinalityType

\* READY and the levels without a process keep the threads of H that do not end.
LEMMA SinProcesoDe ==
  ASSUME TipoEspera, NEW H \in SUBSET Hilos, NEW G \in SUBSET Hilos, NEW pid,
         H \ Terminan(pid) \subseteq G,
         cola_hilos_READY \in Seq(ONulo(DeReady(H))), colas_multi_level \in NivelesDe(DeNivel(H))
  PROVE  /\ ReadySinProceso(pid) \in Seq(ONulo(DeReady(G)))
         /\ NivelesSinProceso(pid) \in NivelesDe(DeNivel(G))
<1> DEFINE colaN == [n \in 1 .. Cardinality(Nulos(pid)) |-> Nadie]
           ready == Filtrar(cola_hilos_READY, (Hilos \cup {Nadie}) \ Terminan(pid))
<1>6. Cardinality(Nulos(pid)) \in Nat
  BY NulosFinitos
<1>7. colaN \in Seq(ONulo(G))
  BY <1>6 DEF ONulo
<1>8. ASSUME ALGORITMO # "CMN"
      PROVE  ReadySinProceso(pid) \in Seq(ONulo(G))
  <2>1. ReadySinProceso(pid) = ready \o colaN
    BY <1>8 DEF ReadySinProceso
  <2>2. cola_hilos_READY \in Seq(ONulo(H))
    BY <1>8 DEF DeReady
  <2>3. ONulo(H) \cap ((Hilos \cup {Nadie}) \ Terminan(pid)) \subseteq ONulo(G)
    BY DEF ONulo
  <2>4. ready \in Seq(ONulo(G))
    BY <2>2, <2>3, FiltrarTipo
  <2> HIDE DEF ready, colaN
  <2> QED BY <1>7, <2>1, <2>4, ConcatProperties
<1>9. ReadySinProceso(pid) \in Seq(ONulo(DeReady(G)))
  BY <1>8 DEF ReadySinProceso, DeReady
<1>10. ASSUME ALGORITMO = "CMN"
       PROVE  NivelesSinProceso(pid) \in NivelesDe(G)
  <2>1. \A l \in Prioridades : colas_multi_level[l] \in Seq(H)
    BY <1>10 DEF NivelesDe, DeNivel
  <2>2. H \cap (Hilos \ Terminan(pid)) \subseteq G
    OBVIOUS
  <2>3. \A l \in Prioridades :
          Filtrar(colas_multi_level[l], Hilos \ Terminan(pid)) \in Seq(G)
    BY <2>1, <2>2, FiltrarTipo
  <2> QED BY <1>10, <2>3 DEF NivelesSinProceso, NivelesDe
<1>11. NivelesSinProceso(pid) \in NivelesDe(DeNivel(G))
  BY <1>10 DEF NivelesSinProceso, DeNivel
<1> QED BY <1>9, <1>11

\* PROCESS_EXIT and the segmentation fault. Here MismoLargo is needed: the threads
\* admitted are as many as the processes.
LEMMA FinalizarProcesoTipo ==
  ASSUME TypeOK, MismoLargo, cpu = "ejecuta", finalizar_proceso
  PROVE  TypeOK' /\ MismoLargo'
<1> DEFINE pid == hilo_EXEC[1]
           c == ReadySinProceso(pid)
           v == NivelesSinProceso(pid)
<1>1. /\ TipoListos /\ TipoCPU /\ TipoTCB /\ TipoNEW /\ TipoEspera /\ TipoFin
      /\ TipoMutexs
  BY Partes DEF Tipos
<1>2. pid \in PIDs /\ Terminan(pid) \subseteq Hilos
  BY <1>1, EjecutaHilo DEF Terminan
<1>3. c \in Seq(ONulo(Hilos)) /\ v \in NivelesDe(Hilos)
  BY <1>1, SinProcesoDe DEF TipoListos, DeReady, DeNivel
<1>4. CASE Cae
  BY <1>4, CaeTipo DEF MismoLargo, Cae, colas
<1>5. CASE /\ cola_hilos_BLOCK' = cola_hilos_BLOCK \ Terminan(pid)
           /\ cola_hilos_EXIT' = {}
           /\ liberados' = liberados \cup cola_hilos_EXIT \cup Terminan(pid)
           /\ lista_hilos' = lista_hilos \ Terminan(pid)
           /\ hilos_bloqueados' = [h \in Hilos |-> IF h \in liberados' THEN <<>>
                                                   ELSE hilos_bloqueados[h]]
           /\ mutexs' = [mutexs EXCEPT ![pid] = SinMutexs]
           /\ \E k \in 0 .. Len(cola_procesos_NEW) :
                LET hs == SubSeq(cola_hilos_NEW, 1, k)
                IN  /\ Admite(cola_procesos_NEW, cola_hilos_NEW, k)
                    /\ cola_procesos_READY' =
                         (cola_procesos_READY \ {pid})
                           \cup ToSet(SubSeq(cola_procesos_NEW, 1, k))
                    /\ elegir_hilo(AgregarReady(c, hs), AgregarNiveles(v, hs, prioridad))
           /\ UNCHANGED tcbs
  <2> HIDE DEF c, v
  <2>1. PICK k \in 0 .. Len(cola_procesos_NEW) :
          /\ Admite(cola_procesos_NEW, cola_hilos_NEW, k)
          /\ cola_procesos_READY' = (cola_procesos_READY \ {pid})
                                      \cup ToSet(SubSeq(cola_procesos_NEW, 1, k))
          /\ elegir_hilo(AgregarReady(c, SubSeq(cola_hilos_NEW, 1, k)),
                         AgregarNiveles(v, SubSeq(cola_hilos_NEW, 1, k), prioridad))
    BY <1>5
  <2> DEFINE hs == SubSeq(cola_hilos_NEW, 1, k)
  <2>2. k \in 0 .. Len(cola_hilos_NEW)
    BY DEF MismoLargo
  <2>3. hs \in Seq(Hilos) /\ hs \in Seq(ONulo(Hilos))
        /\ SubSeq(cola_hilos_NEW, k + 1, Len(cola_hilos_NEW)) \in Seq(Hilos)
    BY <1>1, <2>2, SubSeqTipo, HilosNulos DEF TipoNEW
  <2>4. /\ SubSeq(cola_procesos_NEW, 1, k) \in Seq(PIDs)
        /\ SubSeq(cola_procesos_NEW, k + 1, Len(cola_procesos_NEW)) \in Seq(PIDs)
    BY <1>1, SubSeqTipo DEF TipoNEW
  <2>5. TipoListos' /\ TipoCPU'
    <3>1. AgregarReady(c, hs) \in Seq(ONulo(Hilos))
      BY <1>3, <2>3, AgregarReadyTipo
    <3>2. AgregarNiveles(v, hs, prioridad) \in NivelesDe(Hilos)
      BY <1>3, <2>3, AgregarNivelesTipo
    <3> HIDE DEF hs
    <3>3. elegir_hilo(AgregarReady(c, hs), AgregarNiveles(v, hs, prioridad))
      BY <2>1 DEF hs
    <3> QED BY <1>1, <3>1, <3>2, <3>3, ElegirTipo
  <2>6. TipoNEW'
    <3> DEFINE q == SubSeq(cola_procesos_NEW, 1, k)
    <3>1. q \in Seq(PIDs) BY <2>4
    <3>2. cola_procesos_READY' = (cola_procesos_READY \ {pid}) \cup ToSet(q) BY <2>1
    <3> HIDE DEF q
    <3>3. ToSet(q) \subseteq PIDs BY <3>1 DEF ToSet
    <3> QED BY <1>1, <2>1, <2>3, <2>4, <3>2, <3>3 DEF TipoNEW, Admite
  <2>7. TipoFin'
    BY <1>1, <1>2, <1>5 DEF TipoFin
  <2>8. TipoEspera'
    BY <1>1, <1>5 DEF TipoEspera
  <2>9. TipoMutexs'
    BY <1>1, <1>2, <1>5 DEF TipoMutexs, SinMutexs
  <2>10. TipoTCB'
    BY <1>1, <1>5 DEF TipoTCB, tcbs
  <2>11. MismoLargo'
    <3>1. Len(SubSeq(cola_hilos_NEW, k + 1, Len(cola_hilos_NEW)))
            = Len(SubSeq(cola_procesos_NEW, k + 1, Len(cola_procesos_NEW)))
      BY <1>1, <2>2 DEF TipoNEW, MismoLargo
    <3> QED BY <2>1, <3>1 DEF MismoLargo, Admite
  <2> QED BY <2>5, <2>6, <2>7, <2>8, <2>9, <2>10, <2>11, Partes DEF Tipos
<1> QED BY <1>4, <1>5 DEF finalizar_proceso

-----------------------------------------------------------------------------
(* Mutexes and quantum *)

\* LOCK or UNLOCK of a name that does not exist.
LEMMA InexistenteTipo ==
  ASSUME TypeOK, cpu = "ejecuta", RecursoInexistente
  PROVE  TypeOK'
<1>1. Tipos
  BY Partes
<1>2. hilo_EXEC \in Hilos
  BY <1>1, EjecutaHilo DEF Tipos
<1>3. TipoListos' /\ TipoCPU'
  BY <1>1, ElegirTipo DEF Tipos, TipoListos, RecursoInexistente
<1>4. TipoFin' /\ TipoTCB' /\ TipoNEW' /\ TipoEspera' /\ TipoMutexs'
  BY <1>1, <1>2
  DEF Tipos, TipoFin, TipoTCB, TipoNEW, TipoEspera, TipoMutexs, RecursoInexistente, colas, tcbs
<1> QED BY <1>3, <1>4, Partes DEF Tipos

\* The fields make a mutex.
LEMMA RecursoTipo ==
  ASSUME NEW v \in Int, NEW p \in ONulo(Hilos), NEW e \in Seq(Hilos)
  PROVE  Recurso(v, p, e) \in Recursos
BY DEF Recurso, Recursos, ONulo

\* LOCK and UNLOCK leave a mutex.
LEMMA OperadoresMutexTipo ==
  ASSUME NEW m \in Recursos, NEW h \in Hilos
  PROVE  Tomar(m, h) \in Recursos /\ Esperar(m, h) \in Recursos /\ Soltar(m) \in Recursos
<1> DEFINE mas == m.valor + 1
           menos == m.valor - 1
           cola == Append(m.espera, h)
<1>1. m.valor \in Int /\ m.propietario \in ONulo(Hilos) /\ m.espera \in Seq(Hilos)
  BY DEF Recursos, ONulo
<1>2. h \in ONulo(Hilos) /\ Nadie \in ONulo(Hilos)
  BY DEF ONulo
<1>3. mas \in Int /\ menos \in Int /\ cola \in Seq(Hilos) /\ <<>> \in Seq(Hilos)
  BY <1>1
<1>4. /\ Tomar(m, h) = Recurso(menos, h, m.espera)
      /\ Esperar(m, h) = Recurso(menos, m.propietario, cola)
      /\ Soltar(m) = IF m.espera = <<>> THEN Recurso(mas, Nadie, <<>>)
                     ELSE Recurso(mas, Head(m.espera), Tail(m.espera))
  BY DEF Tomar, Esperar, Soltar
<1> HIDE DEF mas, menos, cola
<1>5. Tomar(m, h) \in Recursos
  BY <1>1, <1>2, <1>3, <1>4, RecursoTipo
<1>6. Esperar(m, h) \in Recursos
  BY <1>1, <1>3, <1>4, RecursoTipo
<1>7. Soltar(m) \in Recursos
  <2>1. CASE m.espera = <<>>
    BY <1>2, <1>3, <1>4, <2>1, RecursoTipo
  <2>2. CASE m.espera # <<>>
    <3>1. Head(m.espera) \in ONulo(Hilos) /\ Tail(m.espera) \in Seq(Hilos)
      BY <1>1, <2>2 DEF ONulo
    <3> QED BY <1>3, <1>4, <2>2, <3>1, RecursoTipo
  <2> QED BY <2>1, <2>2
<1> QED BY <1>5, <1>6, <1>7

\* A mutex that changes keeps its type.
LEMMA MutexTipo ==
  ASSUME TipoMutexs, NEW p \in PIDs, NEW n \in Nombres, NEW m \in Recursos,
         mutexs' = [mutexs EXCEPT ![p][n] = m]
  PROVE  TipoMutexs'
BY DEF TipoMutexs

\* MUTEX_CREATE.
LEMMA CrearMutexTipo ==
  ASSUME TypeOK, cpu = "ejecuta", NEW n \in Nombres, crear_mutex(n)
  PROVE  TypeOK'
<1>1. Tipos
  BY Partes
<1>2. hilo_EXEC[1] \in PIDs
  BY <1>1, EjecutaHilo DEF Tipos
<1>3. TipoMutexs'
  <2>1. CASE UNCHANGED mutexs
    BY <1>1, <2>1 DEF Tipos, TipoMutexs
  <2>2. ASSUME NEW basura \in Basura,
               mutexs' = [mutexs EXCEPT ![hilo_EXEC[1]][n] =
                 [valor |-> 1, propietario |-> basura, espera |-> <<>>]]
        PROVE  TipoMutexs'
    <3>1. [valor |-> 1, propietario |-> basura, espera |-> <<>>] \in Recursos
      BY ConstantesDelKernel DEF Recursos
    <3> QED BY <1>1, <1>2, <2>2, <3>1, MutexTipo DEF Tipos
  <2> QED BY <2>1, <2>2 DEF crear_mutex
<1>4. TipoListos' /\ TipoFin' /\ TipoTCB' /\ TipoNEW' /\ TipoEspera'
  BY <1>1
  DEF Tipos, TipoListos, TipoFin, TipoTCB, TipoNEW, TipoEspera, crear_mutex,
      colas, listos, tcbs, fin
<1>5. TipoCPU'
  BY <1>1, SigueTipo DEF Tipos, crear_mutex
<1> QED BY <1>3, <1>4, <1>5, Partes DEF Tipos

\* MUTEX_LOCK.
LEMMA BloquearMutexTipo ==
  ASSUME TypeOK, cpu = "ejecuta", NEW n \in Nombres, bloquear_mutex(n)
  PROVE  TypeOK'
<1> DEFINE pid == hilo_EXEC[1]
<1>1. Tipos
  BY Partes
<1>2. hilo_EXEC \in Hilos /\ pid \in PIDs
  BY <1>1, EjecutaHilo DEF Tipos
<1>3. n \in Creados(pid) => mutexs[pid][n] \in Recursos
  BY <1>1, <1>2 DEF Tipos, TipoMutexs, Creados
<1>4. CASE RecursoInexistente
  BY <1>4, InexistenteTipo
<1>5. CASE /\ n \in Creados(pid)
           /\ mutexs' = [mutexs EXCEPT ![pid][n] = Tomar(@, hilo_EXEC)]
           /\ SigueElMismo
           /\ UNCHANGED <<colas, listos, tcbs, fin, hilos_bloqueados, cola_hilos_BLOCK>>
  <2>1. Tomar(mutexs[pid][n], hilo_EXEC) \in Recursos
    BY <1>2, <1>3, <1>5, OperadoresMutexTipo
  <2>2. mutexs' = [mutexs EXCEPT ![pid][n] = Tomar(mutexs[pid][n], hilo_EXEC)]
    BY <1>1, <1>2, <1>5 DEF Tipos, TipoMutexs
  <2>3. TipoMutexs'
    BY <1>1, <1>2, <2>1, <2>2, MutexTipo DEF Tipos
  <2>4. TipoCPU'
    BY <1>1, <1>5, SigueTipo DEF Tipos
  <2>5. TipoListos' /\ TipoFin' /\ TipoTCB' /\ TipoNEW' /\ TipoEspera'
    BY <1>1, <1>5
    DEF Tipos, TipoListos, TipoFin, TipoTCB, TipoNEW, TipoEspera, colas, listos, tcbs, fin
  <2> QED BY <2>3, <2>4, <2>5, Partes DEF Tipos
<1>6. CASE /\ n \in Creados(pid)
           /\ mutexs' = [mutexs EXCEPT ![pid][n] = Esperar(@, hilo_EXEC)]
           /\ elegir_hilo(cola_hilos_READY, colas_multi_level)
           /\ UNCHANGED <<colas, tcbs, fin, hilos_bloqueados, cola_hilos_BLOCK>>
  <2>1. Esperar(mutexs[pid][n], hilo_EXEC) \in Recursos
    BY <1>2, <1>3, <1>6, OperadoresMutexTipo
  <2>2. mutexs' = [mutexs EXCEPT ![pid][n] = Esperar(mutexs[pid][n], hilo_EXEC)]
    BY <1>1, <1>2, <1>6 DEF Tipos, TipoMutexs
  <2>3. TipoMutexs'
    BY <1>1, <1>2, <2>1, <2>2, MutexTipo DEF Tipos
  <2>4. TipoListos' /\ TipoCPU'
    BY <1>1, <1>6, ElegirTipo DEF Tipos, TipoListos
  <2>5. TipoFin' /\ TipoTCB' /\ TipoNEW' /\ TipoEspera'
    BY <1>1, <1>6 DEF Tipos, TipoFin, TipoTCB, TipoNEW, TipoEspera, colas, tcbs, fin
  <2> QED BY <2>3, <2>4, <2>5, Partes DEF Tipos
<1> QED BY <1>4, <1>5, <1>6 DEF bloquear_mutex

\* MUTEX_UNLOCK.
LEMMA DesbloquearMutexTipo ==
  ASSUME TypeOK, cpu = "ejecuta", NEW n \in Nombres, desbloquear_mutex(n)
  PROVE  TypeOK'
<1> DEFINE pid == hilo_EXEC[1]
           m == mutexs[pid][n]
           s == IF m.espera = <<>> THEN <<>> ELSE <<Head(m.espera)>>
<1>1. Tipos
  BY Partes
<1>2. hilo_EXEC \in Hilos /\ pid \in PIDs
  BY <1>1, EjecutaHilo DEF Tipos
<1>3. CASE RecursoInexistente
  BY <1>3, InexistenteTipo
<1>4. CASE /\ cpu' = "espera_rta"
           /\ UNCHANGED <<colas, listos, tcbs, fin, hilos_bloqueados, cola_hilos_BLOCK,
                          mutexs, hilo_EXEC, kernel>>
  BY <1>1, <1>2, <1>4, Partes, ConstantesDelKernel
  DEF Tipos, TipoListos, TipoCPU, TipoFin, TipoTCB, TipoNEW, TipoEspera, TipoMutexs,
      colas, listos, tcbs, fin
<1>5. CASE /\ n \in Creados(pid)
           /\ mutexs' = [mutexs EXCEPT ![pid][n] = Soltar(@)]
           /\ colas_multi_level' = AgregarNivel(colas_multi_level, s, prioridad)
           /\ SigueElMismo
           /\ UNCHANGED <<colas, cola_hilos_READY, tcbs, fin, hilos_bloqueados,
                          cola_hilos_BLOCK>>
  <2>1. m \in Recursos
    BY <1>1, <1>2, <1>5 DEF Tipos, TipoMutexs, Creados
  <2>2. m.espera \in Seq(Hilos)
    BY <2>1 DEF Recursos
  <2>3. Soltar(m) \in Recursos
    BY <1>2, <2>1, OperadoresMutexTipo
  <2> HIDE DEF m
  <2>4. s \in Seq(ONulo(Hilos))
    <3>1. CASE m.espera = <<>>
      BY <3>1
    <3>2. CASE m.espera # <<>>
      <4>1. Head(m.espera) \in ONulo(Hilos)
        BY <2>2, <3>2 DEF ONulo
      <4> DEFINE x == Head(m.espera)
      <4> HIDE DEF x
      <4>2. s = <<x>>
        BY <3>2 DEF x
      <4> QED BY <4>1, <4>2 DEF x
    <3> QED BY <3>1, <3>2
  <2>5. mutexs' = [mutexs EXCEPT ![pid][n] = Soltar(m)]
    BY <1>1, <1>2, <1>5 DEF Tipos, TipoMutexs, m
  <2>6. TipoMutexs'
    BY <1>1, <1>2, <2>3, <2>5, MutexTipo DEF Tipos
  <2>8. TipoListos'
    <3> HIDE DEF s
    <3> QED BY <1>1, <1>5, <2>4, AgregarNivelTipo DEF Tipos, TipoListos
  <2>9. TipoCPU'
    BY <1>1, <1>5, SigueTipo DEF Tipos
  <2>10. TipoFin' /\ TipoTCB' /\ TipoNEW' /\ TipoEspera'
    BY <1>1, <1>5 DEF Tipos, TipoFin, TipoTCB, TipoNEW, TipoEspera, colas, tcbs, fin
  <2> QED BY <2>6, <2>8, <2>9, <2>10, Partes DEF Tipos
<1> QED BY <1>3, <1>4, <1>5 DEF desbloquear_mutex

\* The end of a quantum.
LEMMA FinQuantumTipo ==
  ASSUME TypeOK, cpu = "ejecuta", cambiar_hilo_exec_fin_Q
  PROVE  TypeOK'
<1>1. Tipos
  BY Partes
<1>2. <<hilo_EXEC>> \in Seq(ONulo(Hilos))
  BY <1>1, EjecutaHilo DEF Tipos, ONulo
<1>3. AgregarNivel(colas_multi_level, <<hilo_EXEC>>, prioridad) \in NivelesDe(Hilos)
  BY <1>1, <1>2, AgregarNivelTipo DEF Tipos, TipoListos
<1>4. TipoListos' /\ TipoCPU'
  BY <1>1, <1>3, ElegirTipo DEF Tipos, TipoListos, cambiar_hilo_exec_fin_Q
<1>5. TipoFin' /\ TipoTCB' /\ TipoNEW' /\ TipoEspera' /\ TipoMutexs'
  BY <1>1
  DEF Tipos, TipoFin, TipoTCB, TipoNEW, TipoEspera, TipoMutexs, cambiar_hilo_exec_fin_Q,
      colas, tcbs, fin
<1> QED BY <1>4, <1>5, Partes DEF Tipos

-----------------------------------------------------------------------------
(* The theorem *)

\* The initial states are well typed.
LEMMA InitTipo == Init => TypeOK /\ MismoLargo
<1> SUFFICES ASSUME Init PROVE TypeOK /\ MismoLargo
  OBVIOUS
<1> USE DEF Init
<1>1. 1 \in PIDs /\ 0 \in TIDs /\ <<1, 0>> \in Hilos
  BY ConstantesDelKernel DEF PIDs, TIDs, Hilos
<1>2. TipoTCB
  BY ConstantesDelKernel DEF TipoTCB
<1>3. TipoNEW /\ MismoLargo
  <2>1. <<1>> \in Seq(PIDs) /\ Len(<<1>>) = 1
    BY <1>1
  <2>2. \A h \in Hilos : <<h>> \in Seq(Hilos) /\ Len(<<h>>) = 1
    OBVIOUS
  <2>3. CASE cola_procesos_NEW = <<>>
    BY <1>1, <2>3 DEF TipoNEW, MismoLargo
  <2>4. CASE cola_procesos_NEW = <<1>>
    <3> DEFINE h == <<1, 0>>
    <3>1. cola_hilos_NEW = <<h>> /\ cola_procesos_READY = {}
      BY <2>4
    <3>2. h \in Hilos
      BY <1>1
    <3> HIDE DEF h
    <3> QED BY <2>1, <2>2, <2>4, <3>1, <3>2 DEF TipoNEW, MismoLargo
  <2> QED BY <2>3, <2>4
<1>4. TipoListos
  BY DEF TipoListos, NivelesDe, ONulo
<1>5. TipoEspera /\ TipoFin
  BY DEF TipoEspera, TipoFin
<1>6. TipoMutexs
  BY DEF TipoMutexs, SinMutexs
<1>7. TipoCPU
  BY <1>1, ConstantesDelKernel DEF TipoCPU, ONulo
<1> QED BY <1>2, <1>3, <1>4, <1>5, <1>6, <1>7, Partes DEF Tipos

\* Every step keeps the types.
LEMMA NextTipo ==
  ASSUME TypeOK, MismoLargo, [Next]_vars
  PROVE  TypeOK' /\ MismoLargo'
<1> USE DEF Peticion
<1>1. CASE ProcessCreate
  BY <1>1, CrearProcesoTipo DEF ProcessCreate
<1>2. CASE ThreadCreate
  BY <1>2, CrearHiloTipo DEF ThreadCreate
<1>3. CASE ThreadJoin
  <2>1. UNCHANGED colas
    BY <1>3 DEF ThreadJoin, bloquear_hilo_por_thread_join, Cae
  <2> QED BY <1>3, <2>1, JoinTipo DEF ThreadJoin, MismoLargo, colas
<1>4. CASE ThreadCancel \/ ThreadExit
  <2>1. hilo_EXEC[2] \in TIDs
    BY <1>4, EjecutaHilo, Partes DEF ThreadCancel, ThreadExit, Tipos
  <2>2. PICK tid \in TIDs : cpu = "ejecuta" /\ finalizar_hilo(tid)
    BY <1>4, <2>1 DEF ThreadCancel, ThreadExit
  <2>3. UNCHANGED colas
    BY <2>2 DEF finalizar_hilo, Cae
  <2> QED BY <2>2, <2>3, FinalizarHiloTipo DEF MismoLargo, colas
<1>5. CASE ProcessExit \/ SegmentationFault
  BY <1>5, FinalizarProcesoTipo DEF ProcessExit, SegmentationFault
<1>6. CASE MutexCreate
  <2>1. UNCHANGED colas
    BY <1>6 DEF MutexCreate, crear_mutex
  <2> QED BY <1>6, <2>1, CrearMutexTipo DEF MutexCreate, MismoLargo, colas
<1>7. CASE MutexLock
  <2>1. UNCHANGED colas
    BY <1>7 DEF MutexLock, bloquear_mutex, RecursoInexistente
  <2> QED BY <1>7, <2>1, BloquearMutexTipo DEF MutexLock, MismoLargo, colas
<1>8. CASE MutexUnlock
  <2>1. UNCHANGED colas
    BY <1>8 DEF MutexUnlock, desbloquear_mutex, RecursoInexistente
  <2> QED BY <1>8, <2>1, DesbloquearMutexTipo DEF MutexUnlock, MismoLargo, colas
<1>9. CASE FinQuantum
  <2>1. UNCHANGED colas
    BY <1>9 DEF FinQuantum, cambiar_hilo_exec_fin_Q
  <2> QED BY <1>9, <2>1, FinQuantumTipo DEF FinQuantum, MismoLargo, colas
<1>10. CASE UNCHANGED vars
  BY <1>10 DEF TypeOK, MismoLargo, vars, colas, listos, tcbs, fin
<1> QED BY <1>1, <1>2, <1>3, <1>4, <1>5, <1>6, <1>7, <1>8, <1>9, <1>10 DEF Next

\* Every reachable state of the kernel is well typed, whatever the number of
\* processes and threads, the priorities, the algorithm and the scripts are.
THEOREM TipoCorrecto == Spec => []TypeOK
<1>1. Init => TypeOK /\ MismoLargo
  BY InitTipo
<1>2. TypeOK /\ MismoLargo /\ [Next]_vars => (TypeOK /\ MismoLargo)'
  BY NextTipo
<1> QED BY <1>1, <1>2, PTL DEF Spec

(***************************************************************************)
(* The two NEW queues of the kernel go together, and no thread outlives    *)
(* its process.                                                            *)
(*                                                                         *)
(* THREAD_CREATE takes from NEW the first TCB of the running process. If a *)
(* process that memory has not admitted yet could run, that would be the   *)
(* thread 0 it still keeps there and the two queues would shift. So the    *)
(* first invariant says of every queue a thread is elected from, and of    *)
(* the ones that feed it, that its threads belong to admitted processes.   *)
(*                                                                         *)
(* The end of a process walks the TIDs it has handed out and takes each    *)
(* thread from wherever it is. So the second invariant says of every place *)
(* a thread is elected from, or woken from, that its threads have a TID    *)
(* the walk reaches and a process that memory admitted and that has not    *)
(* ended (Listables). The queues the algorithm never elects from may keep  *)
(* threads that ended: under FIFO and PRIORIDADES the levels do.           *)
(***************************************************************************)

Admitidos == {p \in PIDs : /\ p < proximo_pid
                          /\ \A i \in 1 .. Len(cola_procesos_NEW) : cola_procesos_NEW[i] # p}
HilosDe(P) == {h \in Hilos : h[1] \in P}

DelProceso(H, p) == {h \in H : h[1] = p}

\* The threads queued to run, waiting for a mutex of their process or running
\* belong to H.
EsperaDe(H) ==
  \A p \in PIDs : \A n \in Nombres :
    mutexs[p][n] # Nadie => mutexs[p][n].espera \in Seq(DelProceso(H, p))
SoloDe(H) ==
  /\ cola_hilos_READY \in Seq(ONulo(DeReady(H)))
  /\ colas_multi_level \in NivelesDe(DeNivel(H))
  /\ hilo_EXEC \in ONulo(H)
  /\ EsperaDe(H)

\* The PIDs of NEW are distinct and were all handed out.
NEWSinRepetidos ==
  \A i \in 1 .. Len(cola_procesos_NEW) :
    /\ cola_procesos_NEW[i] < proximo_pid
    /\ \A j \in 1 .. Len(cola_procesos_NEW) : cola_procesos_NEW[i] = cola_procesos_NEW[j] => i = j

InvNEW ==
  /\ TypeOK /\ ColasNEWAlineadas
  /\ NEWSinRepetidos
  /\ SoloDe(HilosDe(Admitidos))

\* H has every blocked thread of the process that runs.
Propios(H) == \A t \in TIDs : EnBlock(<<hilo_EXEC[1], t>>) => <<hilo_EXEC[1], t>> \in H

\* SoloDe is monotonic.
LEMMA MasGrande ==
  ASSUME NEW H \in SUBSET Hilos, NEW G \in SUBSET Hilos, H \subseteq G, SoloDe(H)
  PROVE  SoloDe(G)
<1>1. /\ ONulo(H) \subseteq ONulo(G)
      /\ ONulo(DeReady(H)) \subseteq ONulo(DeReady(G))
      /\ DeNivel(H) \subseteq DeNivel(G)
      /\ \A p \in PIDs : DelProceso(H, p) \subseteq DelProceso(G, p)
  BY DEF ONulo, DeReady, DeNivel, DelProceso
<1>2. /\ Seq(ONulo(DeReady(H))) \subseteq Seq(ONulo(DeReady(G)))
      /\ Seq(DeNivel(H)) \subseteq Seq(DeNivel(G))
      /\ \A p \in PIDs : Seq(DelProceso(H, p)) \subseteq Seq(DelProceso(G, p))
  BY <1>1, SeqMonotonic
<1>3. NivelesDe(DeNivel(H)) \subseteq NivelesDe(DeNivel(G))
  BY <1>2 DEF NivelesDe
<1> QED BY <1>1, <1>2, <1>3 DEF SoloDe, EsperaDe

\* Threads of H queued behind threads of H.
LEMMA AgregarDe ==
  ASSUME NEW H \in SUBSET Hilos, NEW cola \in Seq(ONulo(DeReady(H))),
         NEW niveles \in NivelesDe(DeNivel(H)), NEW s \in Seq(ONulo(H)), NEW prio
  PROVE  /\ AgregarReady(cola, s) \in Seq(ONulo(DeReady(H)))
         /\ AgregarNivel(niveles, s, prio) \in NivelesDe(DeNivel(H))
         /\ AgregarNiveles(niveles, s, prio) \in NivelesDe(DeNivel(H))
<1>1. ONulo(H) \subseteq ONulo(DeReady(H)) /\ ONulo(H) \subseteq ONulo(DeNivel(H))
  BY DEF ONulo, DeReady, DeNivel
<1>2. s \in Seq(ONulo(DeReady(H))) /\ s \in Seq(ONulo(DeNivel(H)))
  BY <1>1, SeqMonotonic
<1>3. DeNivel(H) \in SUBSET Hilos
  BY DEF DeNivel
<1> QED BY <1>2, <1>3, AgregarReadyTipo, AgregarNivelTipo, AgregarNivelesTipo

\* A handler that dereferences NULL leaves the queues alone.
LEMMA CaeSolo ==
  ASSUME NEW H \in SUBSET Hilos, SoloDe(H), Cae
  PROVE  SoloDe(H)'
BY DEF SoloDe, EsperaDe, Cae, listos

\* THREAD_JOIN queues no thread.
LEMMA JoinSolo ==
  ASSUME TypeOK, cpu = "ejecuta", NEW tid \in TIDs, bloquear_hilo_por_thread_join(tid),
         NEW H \in SUBSET Hilos, SoloDe(H)
  PROVE  SoloDe(H)'
<1>1. CASE elegir_hilo(cola_hilos_READY, colas_multi_level) /\ UNCHANGED mutexs
  BY <1>1, ElegirDe, Partes DEF Tipos, SoloDe, EsperaDe
<1>2. CASE SigueElMismo /\ UNCHANGED <<listos, mutexs>>
  BY <1>2 DEF SigueElMismo, SoloDe, EsperaDe, listos
<1>3. CASE Cae
  BY <1>3, CaeSolo
<1> QED BY <1>1, <1>2, <1>3 DEF bloquear_hilo_por_thread_join

\* A thread taken from the queues leaves the rest in them.
LEMMA QuitarDe ==
  ASSUME NEW H \in SUBSET Hilos, SoloDe(H), NEW h
  PROVE  /\ ReadySin(h) \in Seq(ONulo(DeReady(H))) /\ NivelesSin(h) \in NivelesDe(DeNivel(H))
         /\ \A p \in PIDs : \A n \in Nombres :
              mutexs[p][n] # Nadie =>
                RemoveFirst(mutexs[p][n].espera, h) \in Seq(DelProceso(H, p))
<1>1. ReadySin(h) \in Seq(ONulo(DeReady(H)))
  BY RemoveFirstTipo DEF SoloDe, ReadySin
<1>2. \A l \in Prioridades : RemoveFirst(colas_multi_level[l], h) \in Seq(DeNivel(H))
  <2>1. \A l \in Prioridades : colas_multi_level[l] \in Seq(DeNivel(H))
    BY DEF SoloDe, NivelesDe
  <2> QED BY <2>1, RemoveFirstTipo
<1>3. NivelesSin(h) \in NivelesDe(DeNivel(H))
  BY <1>2 DEF NivelesSin, SoloDe, NivelesDe
<1>4. \A p \in PIDs : \A n \in Nombres :
        mutexs[p][n] # Nadie =>
          RemoveFirst(mutexs[p][n].espera, h) \in Seq(DelProceso(H, p))
  BY RemoveFirstTipo DEF SoloDe, EsperaDe
<1> QED BY <1>1, <1>3, <1>4

\* The threads a handler wakes belong to the process of h.
LEMMA DespertadosDe ==
  ASSUME TipoEspera, NEW h \in Hilos, NEW H \in SUBSET Hilos,
         \A t \in TIDs : EnBlock(<<h[1], t>>) => <<h[1], t>> \in H
  PROVE  Despertados(h) \in Seq(ONulo(H))
<1> DEFINE v == Visitados(hilos_bloqueados[h])
<1>1. v \in Seq(TIDs)
  BY DespertadosTipo
<1>2. Despertados(h) = [n \in DOMAIN v |-> IF EnBlock(<<h[1], v[n]>>) /\ v[n] # h[2]
                                          THEN <<h[1], v[n]>> ELSE Nadie]
  BY DEF Despertados
<1> HIDE DEF v
<1>3. DOMAIN v = 1 .. Len(v) /\ Len(v) \in Nat /\ \A n \in 1 .. Len(v) : v[n] \in TIDs
  BY <1>1
<1>4. \A n \in 1 .. Len(v) : EnBlock(<<h[1], v[n]>>) => <<h[1], v[n]>> \in ONulo(H)
  BY <1>3 DEF ONulo
<1> QED BY <1>2, <1>3, <1>4 DEF ONulo

\* THREAD_EXIT and THREAD_CANCEL queue threads of the running process only.
LEMMA FinalizarHiloSolo ==
  ASSUME TypeOK, cpu = "ejecuta", NEW tid \in TIDs, finalizar_hilo(tid),
         NEW H \in SUBSET Hilos, SoloDe(H), Propios(H)
  PROVE  SoloDe(H)'
<1> DEFINE h == <<hilo_EXEC[1], tid>>
           ds == Despertados(h)
           cola == AgregarReady(ReadySin(h), ds)
           niveles == AgregarNiveles(NivelesSin(h), ds, prioridad)
<1>1. Tipos
  BY Partes
<1>2. h \in Hilos /\ h[1] \in PIDs
  BY <1>1, EjecutaHilo DEF Hilos, Tipos
<1>3. CASE SigueElMismo /\ UNCHANGED <<listos, mutexs>>
  BY <1>3 DEF SigueElMismo, SoloDe, EsperaDe, listos
<1>4. CASE Cae
  BY <1>4, CaeSolo
<1>5. CASE /\ mutexs' = [mutexs EXCEPT ![h[1]] = SinEspera(@, h)]
           /\ \/ h = hilo_EXEC /\ elegir_hilo(cola, niveles)
              \/ /\ h # hilo_EXEC /\ SigueElMismo
                 /\ cola_hilos_READY' = cola /\ colas_multi_level' = niveles
  <2>1. ds \in Seq(ONulo(H))
    BY <1>1, <1>2, DespertadosDe DEF Tipos, Propios
  <2>2. cola \in Seq(ONulo(DeReady(H))) /\ niveles \in NivelesDe(DeNivel(H))
    <3>1. ReadySin(h) \in Seq(ONulo(DeReady(H))) /\ NivelesSin(h) \in NivelesDe(DeNivel(H))
      BY QuitarDe
    <3> HIDE DEF ds
    <3> QED BY <2>1, <3>1, AgregarDe
  <2> HIDE DEF cola, niveles, ds, h
  <2>3. cola_hilos_READY' \in Seq(ONulo(DeReady(H)))
        /\ colas_multi_level' \in NivelesDe(DeNivel(H))
        /\ hilo_EXEC' \in ONulo(H)
    <3>1. CASE elegir_hilo(cola, niveles)
      BY <1>1, <2>2, <3>1, ElegirDe DEF Tipos
    <3>2. CASE SigueElMismo /\ cola_hilos_READY' = cola /\ colas_multi_level' = niveles
      BY <2>2, <3>2 DEF SoloDe, SigueElMismo
    <3> QED BY <1>5, <3>1, <3>2
  <2>4. EsperaDe(H)'
    <3> SUFFICES ASSUME NEW p \in PIDs, NEW n \in Nombres, mutexs'[p][n] # Nadie
                 PROVE  mutexs'[p][n].espera \in Seq(DelProceso(H, p))
      BY DEF EsperaDe
    <3>1. CASE p # h[1]
      BY <1>1, <1>5, <3>1 DEF Tipos, TipoMutexs, SoloDe, EsperaDe
    <3>2. CASE p = h[1]
      <4>1. mutexs'[p] = SinEspera(mutexs[p], h)
        BY <1>1, <1>5, <3>2 DEF Tipos, TipoMutexs
      <4>2. mutexs[p][n] # Nadie
            /\ mutexs'[p][n] = [mutexs[p][n] EXCEPT !.espera = RemoveFirst(@, h)]
        BY <4>1 DEF SinEspera
      <4>3. mutexs[p][n] \in Recursos
        BY <1>1, <4>2 DEF Tipos, TipoMutexs
      <4>4. mutexs'[p][n].espera = RemoveFirst(mutexs[p][n].espera, h)
        BY <4>2, <4>3 DEF Recursos
      <4>5. mutexs[p][n] # Nadie
        BY <4>2
      <4>6. RemoveFirst(mutexs[p][n].espera, h) \in Seq(DelProceso(H, p))
        BY <4>5, QuitarDe
      <4> QED BY <4>4, <4>6
    <3> QED BY <3>1, <3>2
  <2> QED BY <2>3, <2>4 DEF SoloDe
<1> QED BY <1>3, <1>4, <1>5 DEF finalizar_hilo

\* LOCK or UNLOCK of a name that does not exist queues no thread.
LEMMA InexistenteSolo ==
  ASSUME TypeOK, RecursoInexistente, NEW H \in SUBSET Hilos, SoloDe(H)
  PROVE  SoloDe(H)'
BY ElegirDe, Partes DEF Tipos, SoloDe, EsperaDe, RecursoInexistente

\* A mutex that changes keeps waiters of H.
LEMMA MutexSolo ==
  ASSUME TipoMutexs, NEW p \in PIDs, NEW n \in Nombres, NEW H \in SUBSET Hilos,
         NEW m, m.espera \in Seq(DelProceso(H, p)),
         mutexs' = [mutexs EXCEPT ![p][n] = m], EsperaDe(H)
  PROVE  EsperaDe(H)'
BY DEF TipoMutexs, EsperaDe

\* MUTEX_CREATE queues no thread.
LEMMA CrearMutexSolo ==
  ASSUME TypeOK, cpu = "ejecuta", NEW n \in Nombres, crear_mutex(n),
         NEW H \in SUBSET Hilos, SoloDe(H)
  PROVE  SoloDe(H)'
<1>1. Tipos /\ hilo_EXEC[1] \in PIDs
  BY Partes, EjecutaHilo DEF Tipos
<1>2. EsperaDe(H)'
  <2>1. CASE UNCHANGED mutexs
    BY <2>1 DEF SoloDe, EsperaDe
  <2>2. ASSUME NEW basura \in Basura,
               mutexs' = [mutexs EXCEPT ![hilo_EXEC[1]][n] =
                 [valor |-> 1, propietario |-> basura, espera |-> <<>>]]
        PROVE  EsperaDe(H)'
    <3> DEFINE m == [valor |-> 1, propietario |-> basura, espera |-> <<>>]
    <3>1. m.espera \in Seq(DelProceso(H, hilo_EXEC[1]))
      OBVIOUS
    <3>2. mutexs' = [mutexs EXCEPT ![hilo_EXEC[1]][n] = m]
      BY <2>2
    <3> HIDE DEF m
    <3> QED BY <1>1, <3>1, <3>2, MutexSolo DEF Tipos, SoloDe
  <2> QED BY <2>1, <2>2 DEF crear_mutex
<1> QED BY <1>2 DEF SoloDe, crear_mutex, SigueElMismo, listos

\* MUTEX_LOCK queues the running thread only.
LEMMA BloquearMutexSolo ==
  ASSUME TypeOK, cpu = "ejecuta", NEW n \in Nombres, bloquear_mutex(n),
         NEW H \in SUBSET Hilos, SoloDe(H)
  PROVE  SoloDe(H)'
<1> DEFINE pid == hilo_EXEC[1]
           m == mutexs[pid][n]
<1>1. Tipos /\ hilo_EXEC \in Hilos /\ pid \in PIDs
  BY Partes, EjecutaHilo DEF Tipos
<1>2. n \in Creados(pid) => m.espera \in Seq(DelProceso(H, pid))
  BY <1>1 DEF SoloDe, EsperaDe, Creados
<1>3. hilo_EXEC \in DelProceso(H, pid)
  BY <1>1, ConstantesDelKernel DEF SoloDe, ONulo, DelProceso
<1>4. CASE RecursoInexistente
  BY <1>4, InexistenteSolo
<1>5. CASE /\ n \in Creados(pid)
           /\ mutexs' = [mutexs EXCEPT ![pid][n] = Tomar(@, hilo_EXEC)]
           /\ SigueElMismo
           /\ UNCHANGED listos
  <2>1. mutexs' = [mutexs EXCEPT ![pid][n] = Tomar(m, hilo_EXEC)]
    BY <1>1, <1>5 DEF Tipos, TipoMutexs
  <2>2. Tomar(m, hilo_EXEC).espera \in Seq(DelProceso(H, pid))
    BY <1>2, <1>5 DEF Tomar, Recurso
  <2>3. EsperaDe(H)'
    BY <1>1, <2>1, <2>2, MutexSolo DEF Tipos, SoloDe
  <2> QED BY <1>5, <2>3 DEF SoloDe, SigueElMismo, listos
<1>6. CASE /\ n \in Creados(pid)
           /\ mutexs' = [mutexs EXCEPT ![pid][n] = Esperar(@, hilo_EXEC)]
           /\ elegir_hilo(cola_hilos_READY, colas_multi_level)
  <2>1. mutexs' = [mutexs EXCEPT ![pid][n] = Esperar(m, hilo_EXEC)]
    BY <1>1, <1>6 DEF Tipos, TipoMutexs
  <2>2. Esperar(m, hilo_EXEC).espera \in Seq(DelProceso(H, pid))
    <3>1. Append(m.espera, hilo_EXEC) \in Seq(DelProceso(H, pid))
      BY <1>2, <1>3, <1>6, AppendProperties
    <3> QED BY <3>1 DEF Esperar, Recurso
  <2>3. EsperaDe(H)'
    BY <1>1, <2>1, <2>2, MutexSolo DEF Tipos, SoloDe
  <2>4. cola_hilos_READY' \in Seq(ONulo(DeReady(H)))
        /\ colas_multi_level' \in NivelesDe(DeNivel(H))
        /\ hilo_EXEC' \in ONulo(H)
    BY <1>1, <1>6, ElegirDe DEF Tipos, SoloDe
  <2> QED BY <2>3, <2>4 DEF SoloDe
<1> QED BY <1>4, <1>5, <1>6 DEF bloquear_mutex

\* MUTEX_UNLOCK queues a waiter only.
LEMMA DesbloquearMutexSolo ==
  ASSUME TypeOK, cpu = "ejecuta", NEW n \in Nombres, desbloquear_mutex(n),
         NEW H \in SUBSET Hilos, SoloDe(H)
  PROVE  SoloDe(H)'
<1> DEFINE pid == hilo_EXEC[1]
           m == mutexs[pid][n]
           s == IF m.espera = <<>> THEN <<>> ELSE <<Head(m.espera)>>
<1>1. Tipos /\ hilo_EXEC \in Hilos /\ pid \in PIDs
  BY Partes, EjecutaHilo DEF Tipos
<1>2. n \in Creados(pid) => m.espera \in Seq(DelProceso(H, pid))
  BY <1>1 DEF SoloDe, EsperaDe, Creados
<1>3. CASE RecursoInexistente
  BY <1>3, InexistenteSolo
<1>4. CASE UNCHANGED <<listos, mutexs, hilo_EXEC>>
  BY <1>4 DEF SoloDe, EsperaDe, listos
<1>5. CASE /\ n \in Creados(pid)
           /\ mutexs' = [mutexs EXCEPT ![pid][n] = Soltar(@)]
           /\ colas_multi_level' = AgregarNivel(colas_multi_level, s, prioridad)
           /\ SigueElMismo
           /\ UNCHANGED cola_hilos_READY
  <2>1. mutexs' = [mutexs EXCEPT ![pid][n] = Soltar(m)]
    BY <1>1, <1>5 DEF Tipos, TipoMutexs
  <2> DEFINE e == m.espera
  <2> HIDE DEF e
  <2>2. e \in Seq(DelProceso(H, pid))
    BY <1>2, <1>5 DEF e
  <2>3. e # <<>> => Tail(e) \in Seq(DelProceso(H, pid)) /\ Head(e) \in ONulo(H)
    <3>1. e # <<>> => Tail(e) \in Seq(DelProceso(H, pid)) /\ Head(e) \in DelProceso(H, pid)
      BY <2>2
    <3> QED BY <3>1 DEF ONulo, DelProceso
  <2>4. Soltar(m).espera = IF e = <<>> THEN <<>> ELSE Tail(e)
    BY DEF Soltar, Recurso, e
  <2>5. Soltar(m).espera \in Seq(DelProceso(H, pid))
    <3> DEFINE P == DelProceso(H, pid)
               r == Soltar(m).espera
    <3>1. e # <<>> => Tail(e) \in Seq(P)
      BY <2>3
    <3>2. r = IF e = <<>> THEN <<>> ELSE Tail(e)
      BY <2>4
    <3> HIDE DEF P, r
    <3>3. r \in Seq(P)
      BY <3>1, <3>2
    <3> QED BY <3>3 DEF P, r
  <2>6. EsperaDe(H)'
    <3> HIDE DEF m
    <3> QED BY <1>1, <2>1, <2>5, MutexSolo DEF Tipos, SoloDe
  <2>7. s \in Seq(ONulo(H))
    <3> DEFINE x == Head(e)
    <3>1. s = IF e = <<>> THEN <<>> ELSE <<x>>
      BY DEF e
    <3>2. e # <<>> => x \in ONulo(H)
      BY <2>3
    <3> HIDE DEF x, s
    <3> QED BY <3>1, <3>2
  <2>8. colas_multi_level' \in NivelesDe(DeNivel(H))
    <3> HIDE DEF s
    <3> QED BY <1>5, <2>7, AgregarDe DEF SoloDe
  <2> QED BY <1>5, <2>6, <2>8 DEF SoloDe, SigueElMismo
<1> QED BY <1>3, <1>4, <1>5 DEF desbloquear_mutex

\* The end of a quantum queues the running thread only.
LEMMA FinQuantumSolo ==
  ASSUME TypeOK, cpu = "ejecuta", cambiar_hilo_exec_fin_Q, NEW H \in SUBSET Hilos, SoloDe(H)
  PROVE  SoloDe(H)'
<1>1. <<hilo_EXEC>> \in Seq(ONulo(H))
  BY DEF SoloDe
<1>2. AgregarNivel(colas_multi_level, <<hilo_EXEC>>, prioridad) \in NivelesDe(DeNivel(H))
  BY <1>1, AgregarDe DEF SoloDe
<1> QED BY <1>2, ElegirDe, Partes DEF Tipos, SoloDe, EsperaDe, cambiar_hilo_exec_fin_Q

-----------------------------------------------------------------------------
(* The steps that write NEW *)

\* THREAD_CREATE takes back from NEW the TCB it has just put there, because no
\* thread in NEW is of the process that runs.
LEMMA CrearHiloNEW ==
  ASSUME InvNEW, cpu = "ejecuta", NEW prio \in Prioridades, crear_hilo(prio)
  PROVE  /\ cola_hilos_NEW' = cola_hilos_NEW
         /\ UNCHANGED <<cola_procesos_NEW, proximo_pid, mutexs, hilo_EXEC>>
         /\ \E h \in Hilos : \E s \in {<<h>>, <<>>} :
              /\ h = <<hilo_EXEC[1], prox_tid[hilo_EXEC[1]]>>
              /\ cola_hilos_READY' = AgregarReady(cola_hilos_READY, s)
              /\ colas_multi_level' = AgregarNiveles(colas_multi_level, s, prioridad')
              /\ lista_hilos' = lista_hilos \cup ToSet(s)
<1> DEFINE pid == hilo_EXEC[1]
           h == <<pid, prox_tid[pid]>>
           new == Append(cola_hilos_NEW, h)
           i == SelectInSeq(new, LAMBDA t : t[1] = pid)
           I == {k \in 1 .. Len(new) : new[k][1] = pid}
<1>1. Tipos /\ hilo_EXEC \in Hilos /\ pid \in PIDs
  BY Partes, EjecutaHilo DEF Tipos, InvNEW
<1>2. h \in Hilos
  BY <1>1 DEF crear_hilo, Hilos
<1>3. pid \in Admitidos
  BY <1>1, ConstantesDelKernel DEF InvNEW, SoloDe, ONulo, HilosDe
<1>4. \A k \in 1 .. Len(cola_hilos_NEW) : cola_hilos_NEW[k][1] # pid
  <2> SUFFICES ASSUME NEW k \in 1 .. Len(cola_hilos_NEW) PROVE cola_hilos_NEW[k][1] # pid
    OBVIOUS
  <2>1. k \in 1 .. Len(cola_procesos_NEW) /\ cola_hilos_NEW[k] = <<cola_procesos_NEW[k], 0>>
    BY <1>1 DEF InvNEW, ColasNEWAlineadas, Tipos, TipoNEW
  <2> QED BY <2>1, <1>3 DEF Admitidos
<1>5. cola_hilos_NEW \in Seq(Hilos) /\ Len(cola_hilos_NEW) \in Nat
  BY <1>1 DEF Tipos, TipoNEW
<1>6. /\ new \in Seq(Hilos) /\ Len(new) = Len(cola_hilos_NEW) + 1
      /\ new[Len(new)] = h
      /\ \A k \in 1 .. Len(cola_hilos_NEW) : new[k] = cola_hilos_NEW[k]
  BY <1>2, <1>5
<1> HIDE DEF new
<1>7. I = {Len(new)}
  <2>1. Len(new) \in I
    BY <1>5, <1>6
  <2>2. \A k \in I : k = Len(new)
    BY <1>4, <1>5, <1>6
  <2> HIDE DEF I
  <2> QED BY <2>1, <2>2
<1>8. i = Len(new)
  <2>1. I # {} /\ i = Min(I)
    BY <1>7 DEF SelectInSeq
  <2>2. I \in SUBSET Nat
    BY <1>7, <1>5, <1>6
  <2>3. Min(I) \in I
    <3> HIDE DEF I
    <3> QED BY <2>1, <2>2, MinTipo
  <2> HIDE DEF i, I
  <2> QED BY <1>7, <2>1, <2>3
<1>9. RemoveAt(new, Len(new)) = cola_hilos_NEW
  <2> DEFINE a == SubSeq(new, 1, Len(new) - 1)
             b == SubSeq(new, Len(new) + 1, Len(new))
  <2>1. b = <<>>
    BY <1>5, <1>6
  <2>2. a = cola_hilos_NEW
    BY <1>5, <1>6
  <2>3. RemoveAt(new, Len(new)) = a \o b
    BY DEF RemoveAt
  <2> HIDE DEF a, b
  <2> QED BY <1>5, <2>1, <2>2, <2>3
<1>10. cola_hilos_NEW' = cola_hilos_NEW
  BY <1>8, <1>9 DEF crear_hilo, new
<1>11. new[i] = h
  BY <1>6, <1>8
<1>12. \E s \in {<<h>>, <<>>} :
         /\ cola_hilos_READY' = AgregarReady(cola_hilos_READY, s)
         /\ colas_multi_level' = AgregarNiveles(colas_multi_level, s, prioridad')
         /\ lista_hilos' = lista_hilos \cup ToSet(s)
  BY <1>11 DEF crear_hilo, new
<1>13. UNCHANGED <<cola_procesos_NEW, proximo_pid, mutexs, hilo_EXEC>>
  BY DEF crear_hilo, SigueElMismo
<1> QED BY <1>2, <1>10, <1>12, <1>13

\* THREAD_CREATE keeps the invariant.
LEMMA CrearHiloInv ==
  ASSUME InvNEW, MismoLargo, cpu = "ejecuta", NEW prio \in Prioridades, crear_hilo(prio)
  PROVE  InvNEW'
<1> PICK H \in SUBSET Hilos : H = HilosDe(Admitidos)
  BY DEF HilosDe
<1>1. TypeOK' /\ Tipos /\ hilo_EXEC \in Hilos /\ hilo_EXEC[1] \in Admitidos
  BY CrearHiloTipo, Partes, EjecutaHilo, ConstantesDelKernel
  DEF InvNEW, Tipos, SoloDe, ONulo, HilosDe
<1>2. UNCHANGED <<cola_hilos_NEW, cola_procesos_NEW, proximo_pid, mutexs, hilo_EXEC>>
  BY CrearHiloNEW
<1>3. PICK h \in Hilos : \E s \in {<<h>>, <<>>} :
        /\ h = <<hilo_EXEC[1], prox_tid[hilo_EXEC[1]]>>
        /\ cola_hilos_READY' = AgregarReady(cola_hilos_READY, s)
        /\ colas_multi_level' = AgregarNiveles(colas_multi_level, s, prioridad')
  BY CrearHiloNEW
<1>4. PICK s \in {<<h>>, <<>>} :
        /\ h = <<hilo_EXEC[1], prox_tid[hilo_EXEC[1]]>>
        /\ cola_hilos_READY' = AgregarReady(cola_hilos_READY, s)
        /\ colas_multi_level' = AgregarNiveles(colas_multi_level, s, prioridad')
  BY <1>3
<1>5. h \in ONulo(H)
  BY <1>1, <1>4 DEF HilosDe, ONulo
<1>6. s \in Seq(ONulo(H))
  <2>1. <<h>> \in Seq(ONulo(H)) /\ <<>> \in Seq(ONulo(H))
    BY <1>5
  <2>2. s = <<h>> \/ s = <<>>
    BY <1>4
  <2> QED BY <2>1, <2>2
<1>7. SoloDe(H)'
  BY <1>2, <1>4, <1>6, AgregarDe DEF InvNEW, SoloDe, EsperaDe
<1>8. HilosDe(Admitidos)' = H
  BY <1>2 DEF HilosDe, Admitidos
<1>9. SoloDe(HilosDe(Admitidos))'
  BY <1>7, <1>8 DEF SoloDe, EsperaDe
<1>10. ColasNEWAlineadas' /\ NEWSinRepetidos'
  BY <1>2 DEF InvNEW, ColasNEWAlineadas, NEWSinRepetidos
<1> QED BY <1>1, <1>9, <1>10 DEF InvNEW

\* A suffix of NEW keeps the two queues in step.
LEMMA SufijoAlineado ==
  ASSUME NEW ps \in Seq(PIDs), NEW hs \in Seq(Hilos), Len(hs) = Len(ps),
         \A i \in 1 .. Len(ps) : hs[i] = <<ps[i], 0>>,
         NEW k \in 0 .. Len(ps), Admite(ps, hs, k)
  PROVE  /\ ColasNEWAlineadas'
         /\ Len(cola_procesos_NEW') = Len(ps) - k
         /\ \A i \in 1 .. Len(cola_procesos_NEW') : cola_procesos_NEW'[i] = ps[i + k]
<1> DEFINE a == SubSeq(ps, k + 1, Len(ps))
           b == SubSeq(hs, k + 1, Len(hs))
<1>1. Len(ps) \in Nat
  OBVIOUS
<1>2. /\ a \in Seq(PIDs) /\ b \in Seq(Hilos)
      /\ Len(a) = Len(ps) - k /\ Len(b) = Len(ps) - k
      /\ \A i \in 1 .. Len(ps) - k : a[i] = ps[i + k] /\ b[i] = hs[i + k]
  BY <1>1
<1>3. \A i \in 1 .. Len(ps) - k : i + k \in 1 .. Len(ps)
  BY <1>1
<1>4. cola_procesos_NEW' = a /\ cola_hilos_NEW' = b
  BY DEF Admite
<1> HIDE DEF a, b
<1>5. DOMAIN a = 1 .. Len(a)
  BY <1>2
<1> QED BY <1>2, <1>3, <1>4, <1>5 DEF ColasNEWAlineadas

\* The threads that go to READY with the admitted processes, and a set that has them.
LEMMA PrefijoDe ==
  ASSUME NEW hs \in Seq(Hilos), NEW k \in 0 .. Len(hs), NEW H \in SUBSET Hilos,
         \A i \in 1 .. k : hs[i] \in H
  PROVE  SubSeq(hs, 1, k) \in Seq(ONulo(H))
BY DEF ONulo

\* PROCESS_CREATE keeps the invariant: the new PID is not in NEW yet.
LEMMA CrearProcesoInv ==
  ASSUME InvNEW, MismoLargo, cpu = "ejecuta", NEW prio \in Prioridades, crear_proceso(prio)
  PROVE  InvNEW'
<1> DEFINE h == <<proximo_pid, 0>>
           procesos == Append(cola_procesos_NEW, proximo_pid)
           hilos == Append(cola_hilos_NEW, h)
<1>1. TypeOK' /\ Tipos
  BY CrearProcesoTipo, Partes DEF InvNEW
<1>2. proximo_pid \in PIDs /\ h \in Hilos
  BY ConstantesDelKernel DEF crear_proceso, Hilos, TIDs
<1>3. PICK k \in IF Len(procesos) = 1 THEN {0, 1} ELSE {0} :
        /\ proximo_pid' = proximo_pid + 1
        /\ Admite(procesos, hilos, k)
        /\ cola_hilos_READY' = AgregarReady(cola_hilos_READY, SubSeq(hilos, 1, k))
        /\ colas_multi_level' =
              AgregarNiveles(colas_multi_level, SubSeq(hilos, 1, k), prioridad')
  BY DEF crear_proceso
<1>4. UNCHANGED <<mutexs, hilo_EXEC>>
  BY DEF crear_proceso, SigueElMismo
<1>5. cola_procesos_NEW \in Seq(PIDs) /\ cola_hilos_NEW \in Seq(Hilos)
      /\ Len(cola_procesos_NEW) \in Nat
  BY <1>1 DEF Tipos, TipoNEW
<1>6. /\ procesos \in Seq(PIDs) /\ hilos \in Seq(Hilos)
      /\ Len(procesos) = Len(cola_procesos_NEW) + 1 /\ Len(hilos) = Len(procesos)
      /\ procesos[Len(procesos)] = proximo_pid /\ hilos[Len(procesos)] = h
      /\ \A i \in 1 .. Len(cola_procesos_NEW) :
           procesos[i] = cola_procesos_NEW[i] /\ hilos[i] = cola_hilos_NEW[i]
  BY <1>2, <1>5 DEF MismoLargo
<1>7. \A i \in 1 .. Len(cola_procesos_NEW) : cola_hilos_NEW[i] = <<cola_procesos_NEW[i], 0>>
  BY <1>5 DEF InvNEW, ColasNEWAlineadas
<1>8. \A i \in 1 .. Len(procesos) : hilos[i] = <<procesos[i], 0>>
  BY <1>5, <1>6, <1>7
<1>9. k \in {0, 1} /\ (k = 1 => Len(procesos) = 1) /\ k \in 0 .. Len(procesos)
  BY <1>3, <1>5, <1>6
<1> HIDE DEF procesos, hilos
<1>10. /\ ColasNEWAlineadas'
       /\ Len(cola_procesos_NEW') = Len(procesos) - k
       /\ \A i \in 1 .. Len(cola_procesos_NEW') : cola_procesos_NEW'[i] = procesos[i + k]
  BY <1>3, <1>6, <1>8, <1>9, SufijoAlineado
<1>11. proximo_pid \in Nat /\ \A p \in PIDs : p \in Nat
  BY <1>1, ConstantesDelKernel DEF Tipos, TipoTCB, PIDs
<1>12. \A i \in 1 .. Len(procesos) :
         \/ i = Len(procesos) /\ procesos[i] = proximo_pid
         \/ i \in 1 .. Len(cola_procesos_NEW) /\ procesos[i] = cola_procesos_NEW[i]
            /\ procesos[i] < proximo_pid
  <2>1. \A i \in 1 .. Len(procesos) :
          i = Len(procesos) \/ i \in 1 .. Len(cola_procesos_NEW)
    BY <1>5, <1>6
  <2>2. \A i \in 1 .. Len(cola_procesos_NEW) : cola_procesos_NEW[i] < proximo_pid
    BY DEF InvNEW, NEWSinRepetidos
  <2> QED BY <1>6, <2>1, <2>2
<1>13. \A i \in 1 .. Len(procesos) :
         /\ procesos[i] < proximo_pid + 1
         /\ \A j \in 1 .. Len(procesos) : procesos[i] = procesos[j] => i = j
  <2> SUFFICES ASSUME NEW i \in 1 .. Len(procesos)
               PROVE  /\ procesos[i] < proximo_pid + 1
                      /\ \A j \in 1 .. Len(procesos) : procesos[i] = procesos[j] => i = j
    OBVIOUS
  <2>1. procesos[i] \in PIDs
    BY <1>6
  <2>2. procesos[i] < proximo_pid + 1
    <3>1. procesos[i] = proximo_pid \/ procesos[i] < proximo_pid
      BY <1>12
    <3>2. procesos[i] \in Nat
      BY <2>1, <1>11
    <3> QED BY <3>1, <3>2, <1>11
  <2>3. ASSUME NEW j \in 1 .. Len(procesos), procesos[i] = procesos[j] PROVE i = j
    <3>1. CASE procesos[i] = proximo_pid
      <4>1. ~(proximo_pid < proximo_pid)
        BY <1>11
      <4> QED BY <2>3, <3>1, <4>1, <1>12
    <3>2. CASE procesos[i] # proximo_pid
      <4>1. /\ i \in 1 .. Len(cola_procesos_NEW) /\ procesos[i] = cola_procesos_NEW[i]
            /\ j \in 1 .. Len(cola_procesos_NEW) /\ procesos[j] = cola_procesos_NEW[j]
        BY <2>3, <3>2, <1>12
      <4>2. NEWSinRepetidos
        BY DEF InvNEW
      <4> QED BY <2>3, <4>1, <4>2 DEF NEWSinRepetidos
    <3> QED BY <3>1, <3>2
  <2> QED BY <2>2, <2>3
<1>14. NEWSinRepetidos'
  <2>1. \A i \in 1 .. Len(cola_procesos_NEW') : i + k \in 1 .. Len(procesos)
    BY <1>5, <1>6, <1>9, <1>10
  <2> QED BY SMTT(30), <1>3, <1>9, <1>10, <1>13, <2>1 DEF NEWSinRepetidos
<1>15. Admitidos \subseteq Admitidos' /\ (k = 1 => proximo_pid \in Admitidos')
  <2>1. \A i \in 1 .. Len(cola_procesos_NEW') : i + k \in 1 .. Len(procesos)
    BY <1>5, <1>6, <1>9, <1>10
  <2>2. ASSUME NEW p \in Admitidos PROVE p \in Admitidos'
    <3>1. p \in PIDs /\ p < proximo_pid
      BY DEF Admitidos
    <3>2. p < proximo_pid' /\ p # proximo_pid
      <4>1. p \in Nat
        BY <3>1, <1>11
      <4> QED BY <3>1, <4>1, <1>3, <1>11
    <3>3. \A i \in 1 .. Len(procesos) : procesos[i] # p
      BY <1>12, <3>2 DEF Admitidos
    <3> QED BY <1>10, <2>1, <3>1, <3>2, <3>3 DEF Admitidos
  <2>3. ASSUME k = 1 PROVE proximo_pid \in Admitidos'
    <3>1. Len(cola_procesos_NEW') = 0
      BY <1>9, <1>10, <2>3
    <3> QED BY <1>2, <1>3, <1>11, <3>1 DEF Admitidos
  <2> QED BY <2>2, <2>3
<1> PICK H \in SUBSET Hilos : H = HilosDe(Admitidos)
  BY DEF HilosDe
<1> PICK G \in SUBSET Hilos : G = HilosDe(Admitidos)'
  BY DEF HilosDe
<1>16. H \subseteq G /\ (k = 1 => h \in G)
  BY <1>2, <1>15 DEF HilosDe
<1>17. SoloDe(G)
  BY <1>16, MasGrande DEF InvNEW
<1>18. SubSeq(hilos, 1, k) \in Seq(ONulo(G))
  <2>1. \A i \in 1 .. k : hilos[i] \in G
    BY <1>6, <1>9, <1>16
  <2> QED BY <1>6, <1>9, <2>1, PrefijoDe
<1>19. SoloDe(G)'
  BY <1>3, <1>4, <1>17, <1>18, AgregarDe DEF SoloDe, EsperaDe
<1>20. SoloDe(HilosDe(Admitidos))'
  BY <1>19 DEF SoloDe, EsperaDe
<1> QED BY <1>1, <1>10, <1>14, <1>20 DEF InvNEW

\* The end of a process keeps the invariant: those admitted leave NEW as they enter READY.
LEMMA FinalizarProcesoInv ==
  ASSUME InvNEW, MismoLargo, cpu = "ejecuta", finalizar_proceso
  PROVE  InvNEW'
<1> DEFINE pid == hilo_EXEC[1]
           c == ReadySinProceso(pid)
           v == NivelesSinProceso(pid)
<1>1. TypeOK' /\ Tipos /\ pid \in PIDs
  BY FinalizarProcesoTipo, Partes, EjecutaHilo DEF InvNEW, Tipos
<1> PICK H \in SUBSET Hilos : H = HilosDe(Admitidos)
  BY DEF HilosDe
<1>2. CASE Cae
  <2>1. SoloDe(H)'
    BY <1>2, CaeSolo DEF InvNEW
  <2>2. HilosDe(Admitidos)' = H
    BY <1>2 DEF HilosDe, Admitidos, Cae, colas, tcbs
  <2>3. SoloDe(HilosDe(Admitidos))'
    BY <2>1, <2>2 DEF SoloDe, EsperaDe
  <2>4. ColasNEWAlineadas' /\ NEWSinRepetidos'
    BY <1>2 DEF InvNEW, ColasNEWAlineadas, NEWSinRepetidos, Cae, colas, tcbs
  <2> QED BY <1>1, <2>3, <2>4 DEF InvNEW
<1>3. CASE /\ mutexs' = [mutexs EXCEPT ![pid] = SinMutexs]
           /\ \E k \in 0 .. Len(cola_procesos_NEW) :
                LET hs == SubSeq(cola_hilos_NEW, 1, k)
                IN  /\ Admite(cola_procesos_NEW, cola_hilos_NEW, k)
                    /\ elegir_hilo(AgregarReady(c, hs), AgregarNiveles(v, hs, prioridad))
           /\ UNCHANGED tcbs
  <2> DEFINE ps == cola_procesos_NEW
             hs(k) == SubSeq(cola_hilos_NEW, 1, k)
  <2>1. PICK k \in 0 .. Len(ps) :
          /\ Admite(ps, cola_hilos_NEW, k)
          /\ elegir_hilo(AgregarReady(c, hs(k)), AgregarNiveles(v, hs(k), prioridad))
    BY <1>3
  <2>2. ps \in Seq(PIDs) /\ cola_hilos_NEW \in Seq(Hilos) /\ Len(ps) \in Nat
        /\ Len(cola_hilos_NEW) = Len(ps)
    BY <1>1 DEF Tipos, TipoNEW, MismoLargo
  <2>3. \A i \in 1 .. Len(ps) : cola_hilos_NEW[i] = <<ps[i], 0>>
    BY <2>2 DEF InvNEW, ColasNEWAlineadas
  <2>4. /\ ColasNEWAlineadas'
        /\ Len(ps') = Len(ps) - k
        /\ \A i \in 1 .. Len(ps') : ps'[i] = ps[i + k]
    <3> HIDE DEF ps
    <3> QED BY <2>1, <2>2, <2>3, SufijoAlineado DEF ps
  <2>5. \A i \in 1 .. Len(ps') : i + k \in 1 .. Len(ps)
    BY <2>2, <2>4
  <2>6. UNCHANGED proximo_pid
    BY <1>3 DEF tcbs
  <2>7. NEWSinRepetidos'
    <3> SUFFICES ASSUME NEW i \in 1 .. Len(ps')
                 PROVE  /\ ps'[i] < proximo_pid'
                        /\ \A j \in 1 .. Len(ps') : ps'[i] = ps'[j] => i = j
      BY DEF NEWSinRepetidos
    <3>1. NEWSinRepetidos
      BY DEF InvNEW
    <3>2. ps'[i] = ps[i + k] /\ i + k \in 1 .. Len(ps) /\ ps[i + k] < proximo_pid
      BY <2>4, <2>5, <3>1 DEF NEWSinRepetidos
    <3>3. ASSUME NEW j \in 1 .. Len(ps'), ps'[i] = ps'[j] PROVE i = j
      <4>1. ps'[j] = ps[j + k] /\ j + k \in 1 .. Len(ps)
        BY <2>4, <2>5
      <4>2. i + k = j + k
        BY <3>1, <3>2, <3>3, <4>1 DEF NEWSinRepetidos
      <4>3. i \in Int /\ j \in Int /\ k \in Int
        OBVIOUS
      <4> QED BY <4>2, <4>3
    <3> QED BY <2>6, <3>2, <3>3
  <2>8. Admitidos \subseteq Admitidos'
    BY <2>4, <2>5, <2>6 DEF Admitidos
  <2> PICK G \in SUBSET Hilos : G = HilosDe(Admitidos)'
    BY DEF HilosDe
  <2>9. SoloDe(G)
    <3>1. H \subseteq G
      BY <2>8 DEF HilosDe
    <3> QED BY <3>1, MasGrande DEF InvNEW
  <2>10. \A i \in 1 .. k : cola_hilos_NEW[i] \in G
    <3> SUFFICES ASSUME NEW i \in 1 .. k PROVE cola_hilos_NEW[i] \in G
      OBVIOUS
    <3>1. i \in 1 .. Len(ps) /\ i \in Int /\ k \in Int
      BY <2>2
    <3>2. ps[i] \in PIDs /\ ps[i] < proximo_pid
      BY <2>2, <3>1 DEF InvNEW, NEWSinRepetidos
    <3>3. \A j \in 1 .. Len(ps') : ps'[j] # ps[i]
      <4> SUFFICES ASSUME NEW j \in 1 .. Len(ps'), ps'[j] = ps[i] PROVE FALSE
        OBVIOUS
      <4>1. j + k \in 1 .. Len(ps) /\ ps[j + k] = ps[i]
        BY <2>4, <2>5
      <4>2. j + k = i
        BY <3>1, <4>1 DEF InvNEW, NEWSinRepetidos
      <4>3. j \in Int /\ j >= 1 /\ i <= k
        OBVIOUS
      <4> QED BY <3>1, <4>2, <4>3
    <3>4. ps[i] \in Admitidos'
      BY <2>6, <3>2, <3>3 DEF Admitidos
    <3>5. cola_hilos_NEW[i] = <<ps[i], 0>> /\ cola_hilos_NEW[i] \in Hilos
      BY <2>2, <2>3, <3>1
    <3> QED BY <3>4, <3>5 DEF HilosDe
  <2>11. hs(k) \in Seq(ONulo(G))
    BY <2>2, <2>10, PrefijoDe
  <2>12. c \in Seq(ONulo(DeReady(G))) /\ v \in NivelesDe(DeNivel(G))
    BY <1>1, <2>9, SinProcesoDe DEF Tipos, SoloDe
  <2>13. cola_hilos_READY' \in Seq(ONulo(DeReady(G)))
         /\ colas_multi_level' \in NivelesDe(DeNivel(G))
         /\ hilo_EXEC' \in ONulo(G)
    <3> HIDE DEF c, v, hs
    <3>1. /\ AgregarReady(c, hs(k)) \in Seq(ONulo(DeReady(G)))
          /\ AgregarNiveles(v, hs(k), prioridad) \in NivelesDe(DeNivel(G))
      BY <2>11, <2>12, AgregarDe
    <3> QED BY <1>1, <2>1, <3>1, ElegirDe DEF Tipos
  <2>14. EsperaDe(G)'
    <3> SUFFICES ASSUME NEW p \in PIDs, NEW n \in Nombres, mutexs'[p][n] # Nadie
                 PROVE  mutexs'[p][n].espera \in Seq(DelProceso(G, p))
      BY DEF EsperaDe
    <3>1. p # pid
      BY <1>1, <1>3 DEF Tipos, TipoMutexs, SinMutexs
    <3>2. mutexs'[p][n] = mutexs[p][n]
      BY <1>1, <1>3, <3>1 DEF Tipos, TipoMutexs
    <3> QED BY <2>9, <3>2 DEF SoloDe, EsperaDe
  <2>15. SoloDe(HilosDe(Admitidos))'
    BY <2>13, <2>14 DEF SoloDe, EsperaDe
  <2> QED BY <1>1, <2>4, <2>7, <2>15 DEF InvNEW
<1> QED BY <1>2, <1>3 DEF finalizar_proceso

-----------------------------------------------------------------------------
(* The theorem about NEW *)

\* The initial states satisfy the invariant.
LEMMA InitInv == Init => InvNEW /\ MismoLargo
<1> SUFFICES ASSUME Init PROVE InvNEW /\ MismoLargo
  OBVIOUS
<1> USE DEF Init
<1>1. TypeOK /\ MismoLargo
  BY InitTipo
<1>2. 1 \in PIDs /\ 0 \in TIDs /\ <<1, 0>> \in Hilos
  BY ConstantesDelKernel DEF PIDs, TIDs, Hilos
<1>3. ColasNEWAlineadas
  <2> DEFINE h == <<1, 0>>
  <2>1. \/ cola_procesos_NEW = <<>> /\ cola_hilos_NEW = <<>>
        \/ cola_procesos_NEW = <<1>> /\ cola_hilos_NEW = <<h>>
    OBVIOUS
  <2>2. h = <<1, 0>>
    OBVIOUS
  <2> HIDE DEF h, Init
  <2> QED BY <2>1, <2>2 DEF ColasNEWAlineadas
<1>4. NEWSinRepetidos
  BY DEF NEWSinRepetidos
<1>5. hilo_EXEC # Nadie => <<1, 0>> \in HilosDe(Admitidos)
  BY <1>2 DEF HilosDe, Admitidos
<1>6. SoloDe(HilosDe(Admitidos))
  BY <1>5 DEF SoloDe, EsperaDe, ONulo, NivelesDe, SinMutexs, DeReady, DeNivel
<1> QED BY <1>1, <1>3, <1>4, <1>6 DEF InvNEW

\* The handlers that leave NEW alone.
LEMMA SinTocarNEW ==
  ASSUME InvNEW, TypeOK', UNCHANGED <<colas, proximo_pid>>,
         \A H \in SUBSET Hilos : H = HilosDe(Admitidos) => SoloDe(H)'
  PROVE  InvNEW'
<1> PICK H \in SUBSET Hilos : H = HilosDe(Admitidos)
  BY DEF HilosDe
<1>1. SoloDe(H)'
  OBVIOUS
<1>2. HilosDe(Admitidos)' = H
  BY DEF HilosDe, Admitidos, colas
<1>3. SoloDe(HilosDe(Admitidos))'
  BY <1>1, <1>2 DEF SoloDe, EsperaDe
<1>4. ColasNEWAlineadas' /\ NEWSinRepetidos'
  BY DEF InvNEW, ColasNEWAlineadas, NEWSinRepetidos, colas
<1> QED BY <1>3, <1>4 DEF InvNEW

\* Every step keeps the invariant.
LEMMA NextInv ==
  ASSUME InvNEW, MismoLargo, [Next]_vars
  PROVE  InvNEW' /\ MismoLargo'
<1> USE DEF Peticion
<1>1. TypeOK /\ TypeOK' /\ MismoLargo'
  BY NextTipo DEF InvNEW
<1> DEFINE A == HilosDe(Admitidos)
<1>2. A \in SUBSET Hilos /\ SoloDe(A)
  BY DEF HilosDe, InvNEW
<1>3. ASSUME cpu = "ejecuta"
      PROVE  /\ hilo_EXEC \in Hilos /\ hilo_EXEC[2] \in TIDs
             /\ \A H \in SUBSET Hilos : H = A => SoloDe(H) /\ Propios(H)
  <2>1. hilo_EXEC \in Hilos /\ hilo_EXEC[1] \in PIDs /\ hilo_EXEC[2] \in TIDs
    BY <1>1, <1>3, EjecutaHilo, Partes DEF Tipos
  <2>2. hilo_EXEC[1] \in Admitidos
    BY <1>2, <2>1, ConstantesDelKernel DEF SoloDe, ONulo, HilosDe
  <2>3. \A t \in TIDs : <<hilo_EXEC[1], t>> \in A
    BY <2>1, <2>2 DEF HilosDe, Hilos
  <2> QED BY <1>2, <2>1, <2>3 DEF Propios
<1> HIDE DEF A
<1>4. CASE ProcessCreate
  BY <1>1, <1>4, CrearProcesoInv DEF ProcessCreate
<1>5. CASE ThreadCreate
  BY <1>1, <1>5, CrearHiloInv DEF ThreadCreate
<1>6. CASE ProcessExit \/ SegmentationFault
  BY <1>1, <1>6, FinalizarProcesoInv DEF ProcessExit, SegmentationFault
<1>7. ASSUME \/ ThreadJoin \/ ThreadCancel \/ ThreadExit
             \/ MutexCreate \/ MutexLock \/ MutexUnlock \/ FinQuantum
      PROVE  UNCHANGED <<colas, proximo_pid>>
  BY <1>7
  DEF ThreadJoin, ThreadCancel, ThreadExit, MutexCreate, MutexLock, MutexUnlock, FinQuantum,
      bloquear_hilo_por_thread_join, finalizar_hilo, crear_mutex, bloquear_mutex,
      desbloquear_mutex, RecursoInexistente, cambiar_hilo_exec_fin_Q, Cae, tcbs
<1>8. CASE ThreadJoin
  <2>1. \A H \in SUBSET Hilos : H = A => SoloDe(H)'
    BY <1>1, <1>3, <1>8, JoinSolo DEF ThreadJoin
  <2> QED BY <1>1, <1>7, <1>8, <2>1, SinTocarNEW DEF A
<1>9. CASE ThreadCancel \/ ThreadExit
  <2>1. PICK tid \in TIDs : cpu = "ejecuta" /\ finalizar_hilo(tid)
    BY <1>3, <1>9 DEF ThreadCancel, ThreadExit
  <2>2. \A H \in SUBSET Hilos : H = A => SoloDe(H)'
    BY <1>1, <1>3, <2>1, FinalizarHiloSolo
  <2> QED BY <1>1, <1>7, <1>9, <2>2, SinTocarNEW DEF A
<1>10. CASE MutexCreate
  <2>1. \A H \in SUBSET Hilos : H = A => SoloDe(H)'
    BY <1>1, <1>3, <1>10, CrearMutexSolo DEF MutexCreate
  <2> QED BY <1>1, <1>7, <1>10, <2>1, SinTocarNEW DEF A
<1>11. CASE MutexLock
  <2>1. \A H \in SUBSET Hilos : H = A => SoloDe(H)'
    BY <1>1, <1>3, <1>11, BloquearMutexSolo DEF MutexLock
  <2> QED BY <1>1, <1>7, <1>11, <2>1, SinTocarNEW DEF A
<1>12. CASE MutexUnlock
  <2>1. \A H \in SUBSET Hilos : H = A => SoloDe(H)'
    BY <1>1, <1>3, <1>12, DesbloquearMutexSolo DEF MutexUnlock
  <2> QED BY <1>1, <1>7, <1>12, <2>1, SinTocarNEW DEF A
<1>13. CASE FinQuantum
  <2>1. \A H \in SUBSET Hilos : H = A => SoloDe(H)'
    BY <1>1, <1>3, <1>13, FinQuantumSolo DEF FinQuantum
  <2> QED BY <1>1, <1>7, <1>13, <2>1, SinTocarNEW DEF A
<1>14. CASE UNCHANGED vars
  <2>1. \A H \in SUBSET Hilos : H = A => SoloDe(H)'
    BY <1>2, <1>14 DEF SoloDe, EsperaDe, vars, listos
  <2>2. UNCHANGED <<colas, proximo_pid>>
    BY <1>14 DEF vars, tcbs
  <2> QED BY <1>1, <2>1, <2>2, SinTocarNEW DEF A
<1> QED BY <1>1, <1>4, <1>5, <1>6, <1>8, <1>9, <1>10, <1>11, <1>12, <1>13, <1>14 DEF Next

\* The i-th thread of NEW is always the thread 0 of the i-th process, so memory
\* is never sent the PID of one process with the script of another one.
THEOREM NEWAlineadas == Spec => []ColasNEWAlineadas
<1>1. Init => InvNEW /\ MismoLargo
  BY InitInv
<1>2. InvNEW /\ MismoLargo /\ [Next]_vars => (InvNEW /\ MismoLargo)'
  BY NextInv
<1>3. InvNEW => ColasNEWAlineadas
  BY DEF InvNEW
<1> QED BY <1>1, <1>2, <1>3, PTL DEF Spec

-----------------------------------------------------------------------------
(* No thread outlives its process *)

Listables == {h \in Hilos : h[1] \in cola_procesos_READY /\ h[2] < prox_tid[h[1]]}

\* A process that runs was created, and every process created has a thread.
ReadyCreados == \A p \in cola_procesos_READY : p < proximo_pid
ConHilo0     == \A p \in PIDs : p < proximo_pid => prox_tid[p] >= 1

InvVivos ==
  /\ SoloDe(Listables)
  /\ cola_hilos_BLOCK \subseteq Listables
  /\ ReadyCreados /\ ConHilo0

\* The blocked threads, in BLOCK or waiting for a mutex, are alive.
LEMMA BloqueadosListables ==
  ASSUME InvVivos, NEW h \in Hilos, EnBlock(h)
  PROVE  h \in Listables
<1>1. h[1] \in PIDs
  BY DEF Hilos
<1>2. ASSUME NEW n \in Creados(h[1]), h \in ToSet(mutexs[h[1]][n].espera)
      PROVE  h \in Listables
  <2>1. mutexs[h[1]][n].espera \in Seq(DelProceso(Listables, h[1]))
    BY <1>1, <1>2 DEF InvVivos, SoloDe, EsperaDe, Creados
  <2>2. h \in DelProceso(Listables, h[1])
    BY <1>2, <2>1 DEF ToSet
  <2> QED BY <2>2 DEF DelProceso
<1> QED BY <1>2 DEF InvVivos, EnBlock, EnEspera

\* The threads queued to run are alive.
LEMMA ListosListables ==
  ASSUME InvVivos, NEW h \in Hilos, EnReady(h)
  PROVE  h \in Listables
<1>1. CASE ALGORITMO = "CMN"
  <2>1. PICK l \in Prioridades : h \in ToSet(colas_multi_level[l])
    BY <1>1 DEF EnReady, EnNiveles
  <2>2. colas_multi_level[l] \in Seq(Listables)
    BY <1>1 DEF InvVivos, SoloDe, NivelesDe, DeNivel
  <2> QED BY <2>1, <2>2 DEF ToSet
<1>2. CASE ALGORITMO # "CMN"
  <2>1. h \in ToSet(cola_hilos_READY)
    BY <1>2 DEF EnReady
  <2>2. cola_hilos_READY \in Seq(ONulo(Listables))
    BY <1>2 DEF InvVivos, SoloDe, DeReady
  <2>3. h \in ONulo(Listables)
    BY <2>1, <2>2 DEF ToSet
  <2> QED BY <2>3, ConstantesDelKernel DEF ONulo
<1> QED BY <1>1, <1>2

\* The thread that runs is alive.
LEMMA EjecutaListable ==
  ASSUME InvVivos, hilo_EXEC \in Hilos
  PROVE  hilo_EXEC \in Listables
BY ConstantesDelKernel DEF InvVivos, SoloDe, ONulo

\* A step after which the threads of H, all of them alive, are the ones in the queues.
LEMMA SigueVivos ==
  ASSUME NEW H \in SUBSET Hilos, H \subseteq Listables', SoloDe(H)', cola_hilos_BLOCK' \subseteq H,
         ReadyCreados', ConHilo0'
  PROVE  InvVivos'
<1> PICK G \in SUBSET Hilos : G = Listables'
  BY DEF Listables
<1>1. SoloDe(G)'
  <2>1. /\ ONulo(H) \subseteq ONulo(G)
        /\ ONulo(DeReady(H)) \subseteq ONulo(DeReady(G))
        /\ DeNivel(H) \subseteq DeNivel(G)
        /\ \A p \in PIDs : DelProceso(H, p) \subseteq DelProceso(G, p)
    BY DEF ONulo, DeReady, DeNivel, DelProceso
  <2>2. /\ Seq(ONulo(DeReady(H))) \subseteq Seq(ONulo(DeReady(G)))
        /\ Seq(DeNivel(H)) \subseteq Seq(DeNivel(G))
        /\ \A p \in PIDs : Seq(DelProceso(H, p)) \subseteq Seq(DelProceso(G, p))
    BY <2>1, SeqMonotonic
  <2>3. NivelesDe(DeNivel(H)) \subseteq NivelesDe(DeNivel(G))
    BY <2>2 DEF NivelesDe
  <2> QED BY <2>1, <2>2, <2>3 DEF SoloDe, EsperaDe
<1>2. SoloDe(Listables)'
  BY <1>1 DEF SoloDe, EsperaDe
<1> QED BY <1>2 DEF InvVivos

\* The handlers that create and end no process or thread.
LEMMA SinTocarVivos ==
  ASSUME InvVivos, UNCHANGED <<cola_procesos_READY, tcbs>>,
         \A H \in SUBSET Hilos : H = Listables => SoloDe(H)' /\ cola_hilos_BLOCK' \subseteq H
  PROVE  InvVivos'
<1> PICK H \in SUBSET Hilos : H = Listables
  BY DEF Listables
<1>1. Listables' = H
  BY DEF Listables, tcbs
<1>2. ReadyCreados' /\ ConHilo0'
  BY DEF InvVivos, ReadyCreados, ConHilo0, tcbs
<1> QED BY <1>1, <1>2, SigueVivos

-----------------------------------------------------------------------------
(* The steps that create and end *)

\* THREAD_CREATE queues a thread of the process that runs, with the next TID.
LEMMA CrearHiloVivos ==
  ASSUME InvNEW, InvVivos, cpu = "ejecuta", NEW prio \in Prioridades, crear_hilo(prio)
  PROVE  InvVivos'
<1> DEFINE pid == hilo_EXEC[1]
<1>1. Tipos /\ hilo_EXEC \in Hilos /\ pid \in PIDs
  BY Partes, EjecutaHilo DEF InvNEW, Tipos
<1>2. /\ UNCHANGED <<cola_procesos_READY, cola_hilos_BLOCK, mutexs, hilo_EXEC, proximo_pid>>
      /\ prox_tid' = [prox_tid EXCEPT ![pid] = @ + 1]
  BY DEF crear_hilo, SigueElMismo
<1>3. prox_tid \in [PIDs -> 0 .. MaxTid + 1] /\ MaxTid \in Nat
  BY <1>1, ConstantesDelKernel DEF Tipos, TipoTCB
<1>4. \A p \in PIDs : prox_tid[p] \in Nat /\ prox_tid'[p] \in Nat /\ prox_tid[p] <= prox_tid'[p]
  BY <1>1, <1>2, <1>3
<1>5. pid \in cola_procesos_READY
  BY <1>1, EjecutaListable DEF Listables
<1> PICK G \in SUBSET Hilos : G = Listables'
  BY DEF Listables
<1>6. Listables \subseteq G
  <2> SUFFICES ASSUME NEW h \in Listables PROVE h \in G
    OBVIOUS
  <2>1. h \in Hilos /\ h[1] \in PIDs /\ h[2] \in Nat
        /\ h[1] \in cola_procesos_READY /\ h[2] < prox_tid[h[1]]
    BY ConstantesDelKernel DEF Listables, Hilos, TIDs
  <2>2. h[2] < prox_tid'[h[1]]
    BY <1>4, <2>1
  <2> QED BY <1>2, <2>1, <2>2 DEF Listables
<1> PICK H \in SUBSET Hilos : H = Listables
  BY DEF Listables
<1>7. SoloDe(G)
  BY <1>6, MasGrande DEF InvVivos
<1>8. PICK h \in Hilos : \E s \in {<<h>>, <<>>} :
        /\ h = <<hilo_EXEC[1], prox_tid[hilo_EXEC[1]]>>
        /\ cola_hilos_READY' = AgregarReady(cola_hilos_READY, s)
        /\ colas_multi_level' = AgregarNiveles(colas_multi_level, s, prioridad')
  BY CrearHiloNEW
<1>9. PICK s \in {<<h>>, <<>>} :
        /\ h = <<pid, prox_tid[pid]>>
        /\ cola_hilos_READY' = AgregarReady(cola_hilos_READY, s)
        /\ colas_multi_level' = AgregarNiveles(colas_multi_level, s, prioridad')
  BY <1>8
<1>10. h \in G
  <2>1. h[1] = pid /\ h[2] = prox_tid[pid]
    BY <1>9
  <2>2. prox_tid'[pid] = prox_tid[pid] + 1
    BY <1>1, <1>2, <1>3
  <2>3. h[2] < prox_tid'[h[1]]
    BY <1>1, <1>4, <2>1, <2>2
  <2> QED BY <1>2, <1>5, <2>1, <2>3 DEF Listables
<1>11. s \in Seq(ONulo(G))
  <2>1. <<h>> \in Seq(ONulo(G)) /\ <<>> \in Seq(ONulo(G))
    BY <1>10 DEF ONulo
  <2>2. s = <<h>> \/ s = <<>>
    BY <1>9
  <2> QED BY <2>1, <2>2
<1>12. SoloDe(G)'
  BY <1>2, <1>7, <1>9, <1>11, AgregarDe DEF SoloDe, EsperaDe
<1>13. cola_hilos_BLOCK' \subseteq G
  BY <1>2, <1>6 DEF InvVivos
<1>14. ReadyCreados' /\ ConHilo0'
  <2>1. ReadyCreados'
    BY <1>2 DEF InvVivos, ReadyCreados
  <2>2. ASSUME NEW p \in PIDs, p < proximo_pid' PROVE prox_tid'[p] >= 1
    BY <1>2, <1>4, <2>2 DEF InvVivos, ConHilo0
  <2> QED BY <2>1, <2>2 DEF ConHilo0
<1> QED BY <1>12, <1>13, <1>14, SigueVivos

\* The processes admitted bring threads 0 that are alive.
LEMMA AdmitidosListables ==
  ASSUME NEW ps \in Seq(PIDs), NEW hs \in Seq(Hilos), NEW k \in 0 .. Len(hs), Len(hs) = Len(ps),
         \A i \in 1 .. Len(ps) : hs[i] = <<ps[i], 0>>,
         NEW H \in SUBSET Hilos,
         \A h \in Hilos : h[1] \in ToSet(SubSeq(ps, 1, k)) /\ h[2] = 0 => h \in H
  PROVE  SubSeq(hs, 1, k) \in Seq(ONulo(H))
<1>1. \A i \in 1 .. k : hs[i] \in H
  <2> SUFFICES ASSUME NEW i \in 1 .. k PROVE hs[i] \in H
    OBVIOUS
  <2> DEFINE q == SubSeq(ps, 1, k)
  <2>1. Len(ps) \in Nat /\ i \in 1 .. Len(ps) /\ k <= Len(ps)
    OBVIOUS
  <2>2. DOMAIN q = 1 .. k /\ q[i] = ps[i]
    <3>1. k \in 0 .. Len(ps)
      BY <2>1
    <3>2. Len(q) = k /\ q \in Seq(PIDs)
      BY <3>1
    <3>3. q[i] = ps[i]
      BY <2>1, <3>1
    <3> HIDE DEF q
    <3> QED BY <3>2, <3>3
  <2> HIDE DEF q
  <2>3. ps[i] \in ToSet(q)
    BY <2>2 DEF ToSet
  <2>4. hs[i] \in Hilos /\ hs[i] = <<ps[i], 0>>
    BY <2>1
  <2> QED BY <2>3, <2>4 DEF q
<1> QED BY <1>1, PrefijoDe

\* PROCESS_CREATE: the new PID is in no queue yet.
LEMMA CrearProcesoVivos ==
  ASSUME InvNEW, MismoLargo, InvVivos, cpu = "ejecuta", NEW prio \in Prioridades,
         crear_proceso(prio)
  PROVE  InvVivos'
<1> DEFINE p0 == proximo_pid
           h0 == <<p0, 0>>
           ps == Append(cola_procesos_NEW, p0)
           hs == Append(cola_hilos_NEW, h0)
<1>1. Tipos /\ p0 \in PIDs /\ h0 \in Hilos
  BY Partes, ConstantesDelKernel DEF InvNEW, crear_proceso, Hilos, TIDs
<1>2. PICK k \in IF Len(ps) = 1 THEN {0, 1} ELSE {0} :
        /\ proximo_pid' = p0 + 1
        /\ prox_tid' = [prox_tid EXCEPT ![p0] = 1]
        /\ cola_procesos_READY' = cola_procesos_READY \cup ToSet(SubSeq(ps, 1, k))
        /\ cola_hilos_READY' = AgregarReady(cola_hilos_READY, SubSeq(hs, 1, k))
        /\ colas_multi_level' = AgregarNiveles(colas_multi_level, SubSeq(hs, 1, k), prioridad')
  BY DEF crear_proceso
<1>3. UNCHANGED <<mutexs, hilo_EXEC, cola_hilos_BLOCK>>
  BY DEF crear_proceso, SigueElMismo
<1>4. cola_procesos_NEW \in Seq(PIDs) /\ cola_hilos_NEW \in Seq(Hilos)
      /\ Len(cola_procesos_NEW) \in Nat /\ Len(cola_hilos_NEW) = Len(cola_procesos_NEW)
  BY <1>1 DEF Tipos, TipoNEW, MismoLargo
<1>5. /\ ps \in Seq(PIDs) /\ hs \in Seq(Hilos)
      /\ Len(ps) = Len(cola_procesos_NEW) + 1 /\ Len(hs) = Len(ps)
      /\ ps[Len(ps)] = p0 /\ hs[Len(ps)] = h0
      /\ \A i \in 1 .. Len(cola_procesos_NEW) :
           ps[i] = cola_procesos_NEW[i] /\ hs[i] = cola_hilos_NEW[i]
  BY <1>1, <1>4
<1>6. \A i \in 1 .. Len(cola_procesos_NEW) : cola_hilos_NEW[i] = <<cola_procesos_NEW[i], 0>>
  BY <1>4 DEF InvNEW, ColasNEWAlineadas
<1>7. \A i \in 1 .. Len(ps) : hs[i] = <<ps[i], 0>>
  BY <1>4, <1>5, <1>6
<1>8. k \in 0 .. Len(hs) /\ (k = 0 \/ (k = 1 /\ Len(ps) = 1))
  BY <1>2, <1>4, <1>5
<1> DEFINE q == SubSeq(ps, 1, k)
<1>9. ToSet(q) \subseteq {p0}
  <2>1. \A i \in 1 .. k : ps[i] = p0
    BY <1>5, <1>8
  <2>2. Len(q) = k /\ \A i \in 1 .. k : q[i] = ps[i]
    BY <1>5, <1>8
  <2>3. DOMAIN q = 1 .. k
    BY <1>5, <1>8
  <2> HIDE DEF q, ps
  <2> QED BY <2>1, <2>2, <2>3 DEF ToSet
<1> HIDE DEF ps, hs, q
<1>10. /\ \A p \in PIDs : p \in Nat /\ prox_tid[p] \in Nat
       /\ \A p \in PIDs : prox_tid'[p] = IF p = p0 THEN 1 ELSE prox_tid[p]
       /\ p0 \in Nat
  BY <1>1, <1>2, ConstantesDelKernel DEF Tipos, TipoTCB, PIDs
<1>11. \A p \in cola_procesos_READY : p # p0
  BY <1>10 DEF InvVivos, ReadyCreados
<1> PICK G \in SUBSET Hilos : G = Listables'
  BY DEF Listables
<1>12. Listables \subseteq G
  <2> SUFFICES ASSUME NEW h \in Listables PROVE h \in G
    OBVIOUS
  <2>1. h \in Hilos /\ h[1] \in PIDs /\ h[1] \in cola_procesos_READY /\ h[2] < prox_tid[h[1]]
    BY DEF Listables, Hilos
  <2>2. prox_tid'[h[1]] = prox_tid[h[1]] /\ h[1] \in cola_procesos_READY'
    BY <1>2, <1>10, <1>11, <2>1 DEF q
  <2> QED BY <2>1, <2>2 DEF Listables
<1>13. SoloDe(G)
  <2> PICK H \in SUBSET Hilos : H = Listables
    BY DEF Listables
  <2> QED BY <1>12, MasGrande DEF InvVivos
<1>14. \A h \in Hilos : h[1] \in ToSet(q) /\ h[2] = 0 => h \in G
  <2> SUFFICES ASSUME NEW h \in Hilos, h[1] \in ToSet(q), h[2] = 0 PROVE h \in G
    OBVIOUS
  <2>1. h[1] = p0 /\ h[1] \in cola_procesos_READY'
    BY <1>2, <1>9 DEF q
  <2>2. h[2] < prox_tid'[h[1]]
    BY <1>1, <1>10, <2>1
  <2> QED BY <2>1, <2>2 DEF Listables
<1>15. SubSeq(hs, 1, k) \in Seq(ONulo(G))
  BY <1>5, <1>7, <1>8, <1>14, AdmitidosListables DEF q
<1>16. SoloDe(G)'
  BY <1>2, <1>3, <1>13, <1>15, AgregarDe DEF SoloDe, EsperaDe
<1>17. cola_hilos_BLOCK' \subseteq G
  BY <1>3, <1>12 DEF InvVivos
<1>18. ReadyCreados'
  <2> SUFFICES ASSUME NEW p \in cola_procesos_READY' PROVE p < proximo_pid'
    BY DEF ReadyCreados
  <2>1. CASE p \in cola_procesos_READY
    <3>1. p \in PIDs /\ p < p0
      BY <1>1, <2>1 DEF InvVivos, ReadyCreados, Tipos, TipoNEW
    <3> QED BY <1>2, <1>10, <3>1
  <2>2. CASE p = p0
    BY <1>2, <1>10, <2>2
  <2> QED BY <1>2, <1>9, <2>1, <2>2 DEF q
<1>19. ConHilo0'
  <2> SUFFICES ASSUME NEW p \in PIDs, p < proximo_pid' PROVE prox_tid'[p] >= 1
    BY DEF ConHilo0
  <2>1. p = p0 \/ p < p0
    BY <1>2, <1>10
  <2> QED BY <1>10, <2>1 DEF InvVivos, ConHilo0
<1> QED BY <1>16, <1>17, <1>18, <1>19, SigueVivos

\* The end of a process can find every thread that its algorithm may elect.
LEMMA ListosEncontrables ==
  ASSUME InvVivos, NEW E \in SUBSET Hilos, E = {h \in Listables : Encontrable(h)}
  PROVE  /\ cola_hilos_READY \in Seq(ONulo(DeReady(E)))
         /\ colas_multi_level \in NivelesDe(DeNivel(E))
<1>1. CASE ALGORITMO = "CMN"
  <2>1. cola_hilos_READY \in Seq(ONulo(DeReady(E)))
    BY <1>1 DEF InvVivos, SoloDe, DeReady
  <2>2. ASSUME NEW l \in Prioridades PROVE colas_multi_level[l] \in Seq(E)
    <3>1. colas_multi_level[l] \in Seq(Listables)
      BY <1>1 DEF InvVivos, SoloDe, NivelesDe, DeNivel
    <3>2. ASSUME NEW i \in 1 .. Len(colas_multi_level[l]) PROVE colas_multi_level[l][i] \in E
      <4>1. colas_multi_level[l][i] \in Listables
        BY <3>1
      <4>2. colas_multi_level[l][i] \in ToSet(colas_multi_level[l])
        BY <3>1 DEF ToSet
      <4> QED BY <1>1, <4>1, <4>2 DEF Encontrable, EnReady, EnNiveles
    <3> QED BY <3>1, <3>2, SeqDe
  <2>3. colas_multi_level \in NivelesDe(E)
    BY <2>2 DEF InvVivos, SoloDe, NivelesDe
  <2> QED BY <1>1, <2>1, <2>3 DEF DeNivel
<1>2. CASE ALGORITMO # "CMN"
  <2>1. colas_multi_level \in NivelesDe(DeNivel(E))
    BY <1>2 DEF InvVivos, SoloDe, DeNivel
  <2>2. cola_hilos_READY \in Seq(ONulo(Listables))
    BY <1>2 DEF InvVivos, SoloDe, DeReady
  <2>3. ASSUME NEW i \in 1 .. Len(cola_hilos_READY) PROVE cola_hilos_READY[i] \in ONulo(E)
    <3>1. cola_hilos_READY[i] \in ONulo(Listables)
      BY <2>2
    <3>2. cola_hilos_READY[i] \in ToSet(cola_hilos_READY)
      BY <2>2 DEF ToSet
    <3> QED BY <1>2, <3>1, <3>2 DEF Encontrable, EnReady, ONulo
  <2>4. cola_hilos_READY \in Seq(ONulo(E))
    BY <2>2, <2>3, SeqDe
  <2> QED BY <1>2, <2>1, <2>4 DEF DeReady
<1> QED BY <1>1, <1>2

\* PROCESS_EXIT and the segmentation fault: no thread of the process is left in a
\* queue, and those admitted meanwhile are alive.
LEMMA FinalizarProcesoVivos ==
  ASSUME InvNEW, MismoLargo, InvVivos, cpu = "ejecuta", finalizar_proceso
  PROVE  InvVivos'
<1> DEFINE pid == hilo_EXEC[1]
           c == ReadySinProceso(pid)
           v == NivelesSinProceso(pid)
<1>1. Tipos /\ pid \in PIDs
  BY Partes, EjecutaHilo DEF InvNEW, Tipos
<1>2. CASE Cae
  <2>1. \A H \in SUBSET Hilos : H = Listables => SoloDe(H)' /\ cola_hilos_BLOCK' \subseteq H
    BY <1>2, CaeSolo DEF InvVivos, Cae
  <2>2. UNCHANGED <<cola_procesos_READY, tcbs>>
    BY <1>2 DEF Cae, colas
  <2> QED BY <2>1, <2>2, SinTocarVivos
<1>3. CASE /\ cola_hilos_BLOCK' = cola_hilos_BLOCK \ Terminan(pid)
           /\ mutexs' = [mutexs EXCEPT ![pid] = SinMutexs]
           /\ \E k \in 0 .. Len(cola_procesos_NEW) :
                LET hs == SubSeq(cola_hilos_NEW, 1, k)
                IN  /\ cola_procesos_READY' =
                         (cola_procesos_READY \ {pid})
                           \cup ToSet(SubSeq(cola_procesos_NEW, 1, k))
                    /\ elegir_hilo(AgregarReady(c, hs), AgregarNiveles(v, hs, prioridad))
           /\ UNCHANGED tcbs
  <2> DEFINE q(k) == SubSeq(cola_procesos_NEW, 1, k)
             hs(k) == SubSeq(cola_hilos_NEW, 1, k)
  <2>1. PICK k \in 0 .. Len(cola_procesos_NEW) :
          /\ cola_procesos_READY' = (cola_procesos_READY \ {pid}) \cup ToSet(q(k))
          /\ elegir_hilo(AgregarReady(c, hs(k)), AgregarNiveles(v, hs(k), prioridad))
    BY <1>3
  <2>2. /\ cola_procesos_NEW \in Seq(PIDs) /\ cola_hilos_NEW \in Seq(Hilos)
        /\ Len(cola_procesos_NEW) \in Nat /\ Len(cola_hilos_NEW) = Len(cola_procesos_NEW)
        /\ \A i \in 1 .. Len(cola_procesos_NEW) : cola_hilos_NEW[i] = <<cola_procesos_NEW[i], 0>>
    BY <1>1 DEF Tipos, TipoNEW, MismoLargo, InvNEW, ColasNEWAlineadas
  <2>3. UNCHANGED <<proximo_pid, prox_tid>>
    BY <1>3 DEF tcbs
  <2>4. \A p \in ToSet(q(k)) : p \in PIDs /\ p < proximo_pid
    <3>1. \A i \in 1 .. k : cola_procesos_NEW[i] \in PIDs /\ cola_procesos_NEW[i] < proximo_pid
      BY <2>2 DEF InvNEW, NEWSinRepetidos
    <3>2. DOMAIN q(k) = 1 .. k /\ \A i \in 1 .. k : q(k)[i] = cola_procesos_NEW[i]
      BY <2>2
    <3> HIDE DEF q
    <3> QED BY <3>1, <3>2 DEF ToSet
  <2> PICK G \in SUBSET Hilos : G = Listables'
    BY DEF Listables
  <2> PICK E \in SUBSET Hilos : E = {h \in Listables : Encontrable(h)}
    BY DEF Listables
  <2> HIDE DEF q
  <2>5. \A h \in Listables : h[1] # pid => h \in G
    BY <2>1, <2>3 DEF Listables
  <2>6. E \ Terminan(pid) \subseteq G
    <3> SUFFICES ASSUME NEW h \in E, h \notin Terminan(pid) PROVE h \in G
      OBVIOUS
    <3>1. h \in Listables /\ h \in Hilos /\ Encontrable(h) /\ h[2] < prox_tid[h[1]]
      BY DEF Listables
    <3>2. h[1] # pid
      BY <3>1 DEF Terminan
    <3> QED BY <2>5, <3>1, <3>2
  <2>7. c \in Seq(ONulo(DeReady(G))) /\ v \in NivelesDe(DeNivel(G))
    BY <1>1, <2>6, ListosEncontrables, SinProcesoDe DEF Tipos
  <2>8. \A h \in Hilos : h[1] \in ToSet(q(k)) /\ h[2] = 0 => h \in G
    <3> SUFFICES ASSUME NEW h \in Hilos, h[1] \in ToSet(q(k)), h[2] = 0 PROVE h \in G
      OBVIOUS
    <3>1. prox_tid[h[1]] >= 1 /\ prox_tid[h[1]] \in Nat
      BY <1>1, <2>4, ConstantesDelKernel DEF InvVivos, ConHilo0, Tipos, TipoTCB
    <3>2. h[2] < prox_tid'[h[1]]
      BY <2>3, <3>1
    <3> QED BY <2>1, <3>2 DEF Listables
  <2>9. hs(k) \in Seq(ONulo(G))
    BY <2>2, <2>8, AdmitidosListables DEF q
  <2>10. cola_hilos_READY' \in Seq(ONulo(DeReady(G)))
         /\ colas_multi_level' \in NivelesDe(DeNivel(G))
         /\ hilo_EXEC' \in ONulo(G)
    <3> HIDE DEF c, v, hs
    <3>1. /\ AgregarReady(c, hs(k)) \in Seq(ONulo(DeReady(G)))
          /\ AgregarNiveles(v, hs(k), prioridad) \in NivelesDe(DeNivel(G))
      BY <2>7, <2>9, AgregarDe
    <3> QED BY <1>1, <2>1, <3>1, ElegirDe DEF Tipos
  <2>11. EsperaDe(G)'
    <3> SUFFICES ASSUME NEW p \in PIDs, NEW n \in Nombres, mutexs'[p][n] # Nadie
                 PROVE  mutexs'[p][n].espera \in Seq(DelProceso(G, p))
      BY DEF EsperaDe
    <3>1. p # pid
      BY <1>1, <1>3 DEF Tipos, TipoMutexs, SinMutexs
    <3>2. mutexs'[p][n] = mutexs[p][n]
      BY <1>1, <1>3, <3>1 DEF Tipos, TipoMutexs
    <3>3. DelProceso(Listables, p) \subseteq DelProceso(G, p)
      BY <2>5, <3>1 DEF DelProceso
    <3>4. mutexs[p][n].espera \in Seq(DelProceso(Listables, p))
      BY <3>2 DEF InvVivos, SoloDe, EsperaDe
    <3> QED BY <3>2, <3>3, <3>4, SeqMonotonic
  <2>12. cola_hilos_BLOCK' \subseteq G
    <3> SUFFICES ASSUME NEW h \in cola_hilos_BLOCK, h \notin Terminan(pid) PROVE h \in G
      BY <1>3
    <3> QED BY <2>6 DEF InvVivos, Encontrable, EnBlock
  <2>13. SoloDe(G)'
    BY <2>10, <2>11 DEF SoloDe
  <2>14. ReadyCreados' /\ ConHilo0'
    BY <2>1, <2>3, <2>4 DEF InvVivos, ReadyCreados, ConHilo0
  <2> QED BY <2>12, <2>13, <2>14, SigueVivos
<1> QED BY <1>2, <1>3 DEF finalizar_proceso

-----------------------------------------------------------------------------
(* The theorem *)

\* The first process is admitted, or waits in NEW with its thread.
LEMMA InitVivos == Init => InvVivos
<1> SUFFICES ASSUME Init PROVE InvVivos
  OBVIOUS
<1> USE DEF Init
<1>1. 1 \in PIDs /\ <<1, 0>> \in Hilos /\ \A p \in PIDs : p < 2 => p = 1
  BY ConstantesDelKernel DEF PIDs, TIDs, Hilos
<1>2. hilo_EXEC # Nadie => <<1, 0>> \in Listables
  BY <1>1 DEF Listables
<1>3. SoloDe(Listables)
  BY <1>2 DEF SoloDe, EsperaDe, ONulo, NivelesDe, SinMutexs, DeReady, DeNivel
<1>4. ReadyCreados /\ ConHilo0
  BY <1>1 DEF ReadyCreados, ConHilo0
<1> QED BY <1>3, <1>4 DEF InvVivos

\* Every step keeps the threads in the queues alive.
LEMMA NextVivos ==
  ASSUME InvNEW, MismoLargo, InvVivos, [Next]_vars
  PROVE  InvVivos'
<1> USE DEF Peticion
<1> DEFINE L == Listables
<1>1. TypeOK /\ L \in SUBSET Hilos /\ SoloDe(L) /\ cola_hilos_BLOCK \subseteq L
  BY DEF InvNEW, InvVivos, Listables
<1>2. ASSUME cpu = "ejecuta"
      PROVE  hilo_EXEC \in L /\ hilo_EXEC[2] \in TIDs /\ Propios(L)
  <2>1. hilo_EXEC \in Hilos /\ hilo_EXEC[1] \in PIDs /\ hilo_EXEC[2] \in TIDs
    BY <1>1, <1>2, EjecutaHilo, Partes DEF Tipos
  <2>2. Propios(L)
    BY <2>1, BloqueadosListables DEF Propios, Hilos
  <2> QED BY <2>1, <2>2, EjecutaListable
<1> HIDE DEF L
<1> DEFINE Quietos == UNCHANGED <<cola_procesos_READY, tcbs>>
           EnL == \A H \in SUBSET Hilos : H = L => SoloDe(H)' /\ cola_hilos_BLOCK' \subseteq H
<1>3. Quietos /\ EnL => InvVivos'
  BY SinTocarVivos DEF L
<1>4. CASE ProcessCreate
  BY <1>4, CrearProcesoVivos DEF ProcessCreate
<1>5. CASE ThreadCreate
  BY <1>5, CrearHiloVivos DEF ThreadCreate
<1>6. CASE ProcessExit \/ SegmentationFault
  BY <1>6, FinalizarProcesoVivos DEF ProcessExit, SegmentationFault
<1>7. ASSUME \/ ThreadJoin \/ ThreadCancel \/ ThreadExit
             \/ MutexCreate \/ MutexLock \/ MutexUnlock \/ FinQuantum
      PROVE  Quietos /\ cola_hilos_BLOCK' \subseteq cola_hilos_BLOCK \cup {hilo_EXEC}
             /\ cpu = "ejecuta"
  BY <1>7
  DEF ThreadJoin, ThreadCancel, ThreadExit, MutexCreate, MutexLock, MutexUnlock, FinQuantum,
      bloquear_hilo_por_thread_join, finalizar_hilo, crear_mutex, bloquear_mutex,
      desbloquear_mutex, RecursoInexistente, cambiar_hilo_exec_fin_Q, Cae, colas
<1>8. ASSUME \/ ThreadJoin \/ ThreadCancel \/ ThreadExit
             \/ MutexCreate \/ MutexLock \/ MutexUnlock \/ FinQuantum,
             \A H \in SUBSET Hilos : H = L => SoloDe(H)'
      PROVE  InvVivos'
  BY <1>1, <1>2, <1>3, <1>7, <1>8
<1> HIDE DEF Quietos, EnL
<1>9. CASE ThreadJoin
  BY <1>1, <1>2, <1>7, <1>8, <1>9, JoinSolo DEF ThreadJoin
<1>10. CASE ThreadCancel \/ ThreadExit
  <2>1. PICK tid \in TIDs : cpu = "ejecuta" /\ finalizar_hilo(tid)
    BY <1>2, <1>7, <1>10 DEF ThreadCancel, ThreadExit
  <2>2. \A H \in SUBSET Hilos : H = L => SoloDe(H)'
    BY <1>1, <1>2, <2>1, FinalizarHiloSolo
  <2> QED BY <1>8, <1>10, <2>2
<1>11. CASE MutexCreate
  BY <1>1, <1>8, <1>11, CrearMutexSolo DEF MutexCreate
<1>12. CASE MutexLock
  BY <1>1, <1>8, <1>12, BloquearMutexSolo DEF MutexLock
<1>13. CASE MutexUnlock
  BY <1>1, <1>8, <1>13, DesbloquearMutexSolo DEF MutexUnlock
<1>14. CASE FinQuantum
  BY <1>1, <1>8, <1>14, FinQuantumSolo DEF FinQuantum
<1>15. CASE UNCHANGED vars
  <2>1. EnL
    BY <1>1, <1>15 DEF EnL, SoloDe, EsperaDe, vars, listos
  <2>2. Quietos
    BY <1>15 DEF Quietos, vars, colas
  <2> QED BY <1>3, <2>1, <2>2
<1> QED BY <1>4, <1>5, <1>6, <1>9, <1>10, <1>11, <1>12, <1>13, <1>14, <1>15 DEF Next

\* The thread that runs and the ones that may come to run belong to a process that
\* was admitted and has not ended, under the three algorithms and whatever the scripts do.
THEOREM SinHuerfanosSiempre == Spec => []SinHuerfanos
<1>1. Init => InvNEW /\ MismoLargo /\ InvVivos
  BY InitInv, InitVivos
<1>2. InvNEW /\ MismoLargo /\ InvVivos /\ [Next]_vars => (InvNEW /\ MismoLargo /\ InvVivos)'
  BY NextInv, NextVivos
<1>3. InvVivos => SinHuerfanos
  <2> SUFFICES ASSUME InvVivos, NEW h \in Hilos, h = hilo_EXEC \/ EnReady(h) \/ EnBlock(h)
               PROVE  h[1] \in cola_procesos_READY
    BY DEF SinHuerfanos
  <2>1. h \in Listables
    BY BloqueadosListables, ListosListables, EjecutaListable
  <2> QED BY <2>1 DEF Listables
<1> QED BY <1>1, <1>2, <1>3, PTL DEF Spec
=============================================================================
