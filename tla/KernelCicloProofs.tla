------------------------- MODULE KernelCicloProofs --------------------------
(***************************************************************************)
(* The mutexes of the kernel, the threads that are ready, and the life     *)
(* cycle of CicloDeVida that the handlers implement.                       *)
(*                                                                         *)
(* A mutex changes in few ways (CambiaMutex), and each keeps what its      *)
(* counter says as long as its waiters are who InvLugares says they are.   *)
(* For the CPU the invariant is that nobody is ready while nobody runs     *)
(* (Ocupada). Both are inductive only on top of                            *)
(* InvLugares. The life cycle follows from it as well: the state of a      *)
(* thread is the one of the nine places where it is. And so does the order *)
(* of the ready queues: who joins one is in another place, so it goes      *)
(* behind whoever waits (Respetan).                                        *)
(***************************************************************************)
EXTENDS KernelLugaresProofs

-----------------------------------------------------------------------------
(* What a step does to one mutex *)

\* From the mutex m to the mutex r: nothing, the end of its process, and the four requests; a
\* cancellation takes a waiter out of the queue.
CambiaMutex(m, r) ==
  \/ r = m
  \/ r = Nadie
  \/ m = Nadie /\ \E b \in Basura : r = Recurso(1, b, <<>>)
  \/ m # Nadie /\ m.valor = 1 /\ hilo_EXEC \in Hilos /\ r = Tomar(m, hilo_EXEC)
  \/ m # Nadie /\ m.valor # 1 /\ hilo_EXEC \in Hilos /\ r = Esperar(m, hilo_EXEC)
  \/ /\ m # Nadie /\ hilo_EXEC \in Hilos /\ m.propietario = hilo_EXEC
     /\ Disciplina => m.valor < 1
     /\ r = Soltar(m)
  \/ /\ m # Nadie /\ "THREAD_CANCEL" \in Llamadas
     /\ \E h \in Hilos : r = Recurso(m.valor, m.propietario, RemoveFirst(m.espera, h))

\* One mutex is written, the others stay.
LEMMA UnMutex ==
  ASSUME TipoMutexs, NEW pid \in PIDs, NEW k \in Nombres, NEW x,
         mutexs' = [mutexs EXCEPT ![pid][k] = x],
         NEW p \in PIDs, NEW n \in Nombres
  PROVE  \/ mutexs'[p][n] = mutexs[p][n]
         \/ p = pid /\ n = k /\ mutexs'[p][n] = x
BY DEF TipoMutexs

\* A thread out of the waiters of the mutexes of a process.
LEMMA MutexSinEspera ==
  ASSUME TypeOK, NEW h \in Hilos,
         mutexs' = [mutexs EXCEPT ![h[1]] = SinEspera(@, h)],
         NEW p \in PIDs, NEW n \in Nombres
  PROVE  \/ mutexs'[p][n] = mutexs[p][n]
         \/ /\ p = h[1] /\ mutexs[p][n] # Nadie
            /\ mutexs'[p][n] = Recurso(mutexs[p][n].valor, mutexs[p][n].propietario,
                                       RemoveFirst(mutexs[p][n].espera, h))
<1>1. TipoMutexs /\ h[1] \in PIDs
  BY Partes DEF Tipos, Hilos
<1>2. CASE p # h[1]
  BY <1>1, <1>2 DEF TipoMutexs
<1>3. CASE p = h[1]
  <2>1. mutexs'[p] = SinEspera(mutexs[p], h)
    BY <1>1, <1>3 DEF TipoMutexs
  <2>2. CASE mutexs[p][n] = Nadie
    BY <2>1, <2>2 DEF SinEspera
  <2>3. CASE mutexs[p][n] # Nadie
    <3>1. mutexs'[p][n] = [mutexs[p][n] EXCEPT !.espera = RemoveFirst(@, h)]
      BY <2>1, <2>3 DEF SinEspera
    <3> DEFINE m == mutexs[p][n]
    <3>2. m \in Recursos
      BY <1>1, <2>3 DEF TipoMutexs
    <3> HIDE DEF m
    <3>3. [m EXCEPT !.espera = RemoveFirst(@, h)]
            = Recurso(m.valor, m.propietario, RemoveFirst(m.espera, h))
      BY <3>2 DEF Recursos, Recurso
    <3> QED BY <1>3, <2>3, <3>1, <3>3 DEF m
  <2> QED BY <2>2, <2>3
<1> QED BY <1>2, <1>3

\* The thread that runs waits for no mutex, so its end changes none.
LEMMA EjecutaSinEspera ==
  ASSUME TypeOK, InvLugares, cpu = "ejecuta", NEW p \in PIDs, NEW n \in Nombres,
         mutexs[p][n] # Nadie
  PROVE  Recurso(mutexs[p][n].valor, mutexs[p][n].propietario,
                 RemoveFirst(mutexs[p][n].espera, hilo_EXEC)) = mutexs[p][n]
<1>1. TipoMutexs /\ TipoCPU /\ EsperaBien(mutexs) /\ n \in Creados(p)
  BY Partes DEF Tipos, InvLugares, Creados
<1>2. hilo_EXEC \notin Esperan(mutexs)
  BY <1>1, EjecutaLugar
<1> DEFINE m == mutexs[p][n]
<1>3. m \in Recursos /\ ToSet(m.espera) \subseteq Esperan(mutexs)
  BY <1>1, MutexLugar
<1>4. hilo_EXEC \notin ToSet(m.espera)
  BY <1>2, <1>3
<1> HIDE DEF m
<1>5. RemoveFirst(m.espera, hilo_EXEC) = m.espera
  <2>1. ~\E i \in 1 .. Len(m.espera) : m.espera[i] = hilo_EXEC
    <3>1. m.espera \in Seq(Hilos)
      BY <1>3 DEF Recursos
    <3> QED BY <1>4, <3>1 DEF ToSet
  <2> QED BY <2>1 DEF RemoveFirst
<1>6. Recurso(m.valor, m.propietario, m.espera) = m
  BY <1>3 DEF Recurso, Recursos
<1> QED BY <1>5, <1>6 DEF m

\* LOCK and UNLOCK of a name that was not created write no mutex.
LEMMA InexistenteMutex ==
  ASSUME RecursoInexistente
  PROVE  UNCHANGED mutexs
BY DEF RecursoInexistente

\* MUTEX_CREATE.
LEMMA CrearMutexCambia ==
  ASSUME TypeOK, cpu = "ejecuta", NEW k \in Nombres, crear_mutex(k),
         NEW p \in PIDs, NEW n \in Nombres
  PROVE  CambiaMutex(mutexs[p][n], mutexs'[p][n])
<1>1. TipoMutexs /\ hilo_EXEC[1] \in PIDs
  BY Partes, EjecutaHilo DEF Tipos
<1>2. CASE UNCHANGED mutexs
  BY <1>2 DEF CambiaMutex
<1>3. ASSUME k \notin Creados(hilo_EXEC[1]), NEW b \in Basura,
             mutexs' = [mutexs EXCEPT ![hilo_EXEC[1]][k] =
                          [valor |-> 1, propietario |-> b, espera |-> <<>>]]
      PROVE  CambiaMutex(mutexs[p][n], mutexs'[p][n])
  <2>1. mutexs[hilo_EXEC[1]][k] = Nadie
    BY <1>3 DEF Creados
  <2>2. mutexs' = [mutexs EXCEPT ![hilo_EXEC[1]][k] = Recurso(1, b, <<>>)]
    BY <1>3 DEF Recurso
  <2>3. \/ mutexs'[p][n] = mutexs[p][n]
        \/ mutexs[p][n] = Nadie /\ mutexs'[p][n] = Recurso(1, b, <<>>)
    BY <1>1, <2>1, <2>2, UnMutex
  <2> QED BY <1>3, <2>3 DEF CambiaMutex
<1> QED BY <1>2, <1>3 DEF crear_mutex

\* MUTEX_LOCK.
LEMMA BloquearMutexCambia ==
  ASSUME TypeOK, cpu = "ejecuta", NEW k \in Nombres, bloquear_mutex(k),
         NEW p \in PIDs, NEW n \in Nombres
  PROVE  CambiaMutex(mutexs[p][n], mutexs'[p][n])
<1> DEFINE pid == hilo_EXEC[1]
           m == mutexs[pid][k]
<1>1. TipoMutexs /\ hilo_EXEC \in Hilos /\ pid \in PIDs
  BY Partes, EjecutaHilo DEF Tipos
<1>2. CASE UNCHANGED mutexs
  BY <1>2 DEF CambiaMutex
<1>3. CASE /\ k \in Creados(pid) /\ m.valor = 1
           /\ mutexs' = [mutexs EXCEPT ![pid][k] = Tomar(@, hilo_EXEC)]
  <2>1. m # Nadie
    BY <1>3 DEF Creados
  <2>2. mutexs' = [mutexs EXCEPT ![pid][k] = Tomar(m, hilo_EXEC)]
    BY <1>1, <1>3 DEF TipoMutexs
  <2>3. \/ mutexs'[p][n] = mutexs[p][n]
        \/ mutexs[p][n] = m /\ mutexs'[p][n] = Tomar(m, hilo_EXEC)
    <3> HIDE DEF m
    <3>1. \/ mutexs'[p][n] = mutexs[p][n]
          \/ p = pid /\ n = k /\ mutexs'[p][n] = Tomar(m, hilo_EXEC)
      BY <1>1, <2>2, UnMutex
    <3> QED BY <3>1 DEF m
  <2> HIDE DEF m
  <2> QED BY <1>1, <1>3, <2>1, <2>3 DEF CambiaMutex
<1>4. CASE /\ k \in Creados(pid) /\ m.valor # 1
           /\ mutexs' = [mutexs EXCEPT ![pid][k] = Esperar(@, hilo_EXEC)]
  <2>1. m # Nadie
    BY <1>4 DEF Creados
  <2>2. mutexs' = [mutexs EXCEPT ![pid][k] = Esperar(m, hilo_EXEC)]
    BY <1>1, <1>4 DEF TipoMutexs
  <2>3. \/ mutexs'[p][n] = mutexs[p][n]
        \/ mutexs[p][n] = m /\ mutexs'[p][n] = Esperar(m, hilo_EXEC)
    <3> HIDE DEF m
    <3>1. \/ mutexs'[p][n] = mutexs[p][n]
          \/ p = pid /\ n = k /\ mutexs'[p][n] = Esperar(m, hilo_EXEC)
      BY <1>1, <2>2, UnMutex
    <3> QED BY <3>1 DEF m
  <2> HIDE DEF m
  <2> QED BY <1>1, <1>4, <2>1, <2>3 DEF CambiaMutex
<1> QED BY <1>2, <1>3, <1>4, InexistenteMutex DEF bloquear_mutex

\* MUTEX_UNLOCK.
LEMMA DesbloquearMutexCambia ==
  ASSUME TypeOK, cpu = "ejecuta", NEW k \in Nombres, Disciplina => Tomado(k),
         desbloquear_mutex(k), NEW p \in PIDs, NEW n \in Nombres
  PROVE  CambiaMutex(mutexs[p][n], mutexs'[p][n])
<1> DEFINE pid == hilo_EXEC[1]
           m == mutexs[pid][k]
<1>1. TipoMutexs /\ hilo_EXEC \in Hilos /\ pid \in PIDs
  BY Partes, EjecutaHilo DEF Tipos
<1>2. CASE UNCHANGED mutexs
  BY <1>2 DEF CambiaMutex
<1>3. CASE /\ k \in Creados(pid) /\ m.propietario = hilo_EXEC
           /\ mutexs' = [mutexs EXCEPT ![pid][k] = Soltar(@)]
  <2>1. m # Nadie /\ (Disciplina => m.valor < 1)
    BY <1>3 DEF Creados, Tomado
  <2>2. mutexs' = [mutexs EXCEPT ![pid][k] = Soltar(m)]
    BY <1>1, <1>3 DEF TipoMutexs
  <2>3. \/ mutexs'[p][n] = mutexs[p][n]
        \/ mutexs[p][n] = m /\ mutexs'[p][n] = Soltar(m)
    <3> HIDE DEF m
    <3>1. \/ mutexs'[p][n] = mutexs[p][n]
          \/ p = pid /\ n = k /\ mutexs'[p][n] = Soltar(m)
      BY <1>1, <2>2, UnMutex
    <3> QED BY <3>1 DEF m
  <2> HIDE DEF m
  <2> QED BY <1>1, <1>3, <2>1, <2>3 DEF CambiaMutex
<1>4. \/ UNCHANGED mutexs
      \/ /\ k \in Creados(pid) /\ m.propietario = hilo_EXEC
         /\ mutexs' = [mutexs EXCEPT ![pid][k] = Soltar(@)]
  BY InexistenteMutex DEF desbloquear_mutex
<1> QED BY <1>2, <1>3, <1>4

\* THREAD_EXIT and THREAD_CANCEL.
LEMMA FinalizarHiloCambia ==
  ASSUME TypeOK, InvLugares, cpu = "ejecuta", NEW tid \in TIDs, finalizar_hilo(tid),
         tid = hilo_EXEC[2] \/ "THREAD_CANCEL" \in Llamadas,
         NEW p \in PIDs, NEW n \in Nombres
  PROVE  CambiaMutex(mutexs[p][n], mutexs'[p][n])
<1> DEFINE h == <<hilo_EXEC[1], tid>>
<1>1. TipoMutexs /\ hilo_EXEC \in Hilos /\ h \in Hilos /\ h[1] = hilo_EXEC[1]
      /\ (tid = hilo_EXEC[2] => h = hilo_EXEC)
  BY Partes, EjecutaHilo DEF Tipos, Hilos
<1>2. CASE UNCHANGED mutexs
  BY <1>2 DEF CambiaMutex
<1>3. CASE mutexs' = [mutexs EXCEPT ![h[1]] = SinEspera(@, h)]
  <2>1. \/ mutexs'[p][n] = mutexs[p][n]
        \/ /\ mutexs[p][n] # Nadie
           /\ mutexs'[p][n] = Recurso(mutexs[p][n].valor, mutexs[p][n].propietario,
                                      RemoveFirst(mutexs[p][n].espera, h))
    <3> HIDE DEF h
    <3> QED BY ZenonT(30), <1>1, <1>3, MutexSinEspera
  <2>2. CASE tid = hilo_EXEC[2]
    <3>1. h = hilo_EXEC
      BY <1>1, <2>2
    <3>2. mutexs'[p][n] = mutexs[p][n]
      BY <2>1, <3>1, EjecutaSinEspera
    <3> QED BY <3>2 DEF CambiaMutex
  <2>3. CASE "THREAD_CANCEL" \in Llamadas
    <3> HIDE DEF h
    <3> QED BY <1>1, <2>1, <2>3 DEF CambiaMutex
  <2> QED BY <2>2, <2>3
<1>4. UNCHANGED mutexs \/ mutexs' = [mutexs EXCEPT ![h[1]] = SinEspera(@, h)]
  BY DEF finalizar_hilo, Cae
<1> QED BY <1>2, <1>3, <1>4

\* PROCESS_EXIT.
LEMMA FinalizarProcesoCambia ==
  ASSUME TypeOK, cpu = "ejecuta", finalizar_proceso, NEW p \in PIDs, NEW n \in Nombres
  PROVE  CambiaMutex(mutexs[p][n], mutexs'[p][n])
<1>1. TipoMutexs
  BY Partes DEF Tipos
<1>2. UNCHANGED mutexs \/ mutexs' = [mutexs EXCEPT ![hilo_EXEC[1]] = SinMutexs]
  BY DEF finalizar_proceso, Cae
<1>3. mutexs'[p][n] = mutexs[p][n] \/ mutexs'[p][n] = Nadie
  BY <1>1, <1>2 DEF TipoMutexs, SinMutexs
<1> QED BY <1>3 DEF CambiaMutex

\* Every step.
LEMMA PasoMutex ==
  ASSUME TypeOK, InvLugares, [Next]_vars, NEW p \in PIDs, NEW n \in Nombres
  PROVE  CambiaMutex(mutexs[p][n], mutexs'[p][n])
<1>0. ASSUME UNCHANGED mutexs PROVE CambiaMutex(mutexs[p][n], mutexs'[p][n])
  BY <1>0 DEF CambiaMutex
<1>1. CASE ProcessCreate
  BY <1>0, <1>1 DEF ProcessCreate, crear_proceso
<1>2. CASE ThreadCreate
  BY <1>0, <1>2 DEF ThreadCreate, crear_hilo
<1>3. CASE ThreadJoin
  BY <1>0, <1>3 DEF ThreadJoin, bloquear_hilo_por_thread_join, Cae
<1>4. CASE ThreadCancel
  <2>1. PICK tid \in TIDs : finalizar_hilo(tid)
    BY <1>4 DEF ThreadCancel
  <2>2. cpu = "ejecuta" /\ "THREAD_CANCEL" \in Llamadas
    BY <1>4 DEF ThreadCancel, Peticion
  <2> QED BY <2>1, <2>2, FinalizarHiloCambia
<1>5. CASE ThreadExit
  <2>1. cpu = "ejecuta" /\ finalizar_hilo(hilo_EXEC[2])
    BY <1>5 DEF ThreadExit, Peticion
  <2>2. hilo_EXEC[2] \in TIDs
    BY <2>1, Partes, EjecutaHilo DEF Tipos
  <2> QED BY <2>1, <2>2, FinalizarHiloCambia
<1>6. CASE ProcessExit \/ SegmentationFault
  BY <1>6, FinalizarProcesoCambia DEF ProcessExit, SegmentationFault, Peticion
<1>7. CASE MutexCreate
  BY <1>7, CrearMutexCambia DEF MutexCreate, Peticion
<1>8. CASE MutexLock
  BY <1>8, BloquearMutexCambia DEF MutexLock, Peticion
<1>9. CASE MutexUnlock
  BY <1>9, DesbloquearMutexCambia DEF MutexUnlock, Peticion
<1>10. CASE FinQuantum
  BY <1>0, <1>10 DEF FinQuantum, cambiar_hilo_exec_fin_Q
<1>11. CASE UNCHANGED vars
  BY <1>0, <1>11 DEF vars
<1> QED BY <1>1, <1>2, <1>3, <1>4, <1>5, <1>6, <1>7, <1>8, <1>9, <1>10, <1>11 DEF Next

-----------------------------------------------------------------------------
(* The counter *)

\* valor counts the owner and the waiters, and there are waiters only if there is an owner.
Cuadra(m) ==
  /\ m.valor = 1 - Len(m.espera) - (IF m.propietario = Nadie THEN 0 ELSE 1)
  /\ m.espera # <<>> => m.propietario # Nadie

\* valor leaves no room for a LOCK to take the mutex while there are waiters: a cancelled
\* waiter leaves its unit taken, and no one gives back a unit it did not take.
Cupo(m) ==
  /\ m.valor + Len(m.espera) <= 1
  /\ ~Disciplina /\ m.propietario # Nadie => m.valor + Len(m.espera) <= 0

\* The fields of a mutex, and those LOCK and UNLOCK leave.
LEMMA CamposMutex ==
  ASSUME NEW m \in Recursos, NEW h \in Hilos
  PROVE  /\ m.valor \in Int /\ m.propietario \in ONulo(Hilos) /\ m.espera \in Seq(Hilos)
         /\ Len(m.espera) \in Nat /\ (Len(m.espera) = 0 <=> m.espera = <<>>)
         /\ Tomar(m, h).valor = m.valor - 1 /\ Tomar(m, h).propietario = h
         /\ Tomar(m, h).espera = m.espera
         /\ Esperar(m, h).valor = m.valor - 1 /\ Esperar(m, h).propietario = m.propietario
         /\ Len(Esperar(m, h).espera) = Len(m.espera) + 1
         /\ Soltar(m).valor = m.valor + 1
         /\ m.espera = <<>> => Soltar(m).propietario = Nadie /\ Soltar(m).espera = <<>>
         /\ m.espera # <<>> =>
              /\ Soltar(m).propietario = Head(m.espera) /\ Head(m.espera) \in Hilos
              /\ Soltar(m).espera = Tail(m.espera)
              /\ Len(Soltar(m).espera) = Len(m.espera) - 1
<1>1. m.valor \in Int /\ m.propietario \in ONulo(Hilos) /\ m.espera \in Seq(Hilos)
  BY DEF Recursos, ONulo
<1>2. Len(m.espera) \in Nat /\ (Len(m.espera) = 0 <=> m.espera = <<>>)
  BY <1>1
<1>3. /\ Tomar(m, h).valor = m.valor - 1 /\ Tomar(m, h).propietario = h
      /\ Tomar(m, h).espera = m.espera
  BY DEF Tomar, Recurso
<1>4. /\ Esperar(m, h).valor = m.valor - 1 /\ Esperar(m, h).propietario = m.propietario
      /\ Esperar(m, h).espera = Append(m.espera, h)
  BY DEF Esperar, Recurso
<1>5. Len(Append(m.espera, h)) = Len(m.espera) + 1
  BY <1>1
<1>6. Soltar(m).valor = m.valor + 1
  BY DEF Soltar, Recurso
<1>7. m.espera = <<>> => Soltar(m).propietario = Nadie /\ Soltar(m).espera = <<>>
  BY DEF Soltar, Recurso
<1>8. m.espera # <<>> =>
        Soltar(m).propietario = Head(m.espera) /\ Soltar(m).espera = Tail(m.espera)
  BY DEF Soltar, Recurso
<1>9. m.espera # <<>> => Head(m.espera) \in Hilos /\ Len(Tail(m.espera)) = Len(m.espera) - 1
  BY <1>1
<1>10. Len(Esperar(m, h).espera) = Len(m.espera) + 1
  BY <1>4, <1>5
<1>11. m.espera # <<>> => Len(Soltar(m).espera) = Len(m.espera) - 1
  BY <1>8, <1>9
<1> QED BY <1>1, <1>2, <1>3, <1>4, <1>6, <1>7, <1>8, <1>9, <1>10, <1>11

\* No cancellation, no garbage: each request keeps the count.
LEMMA CuadraCambia ==
  ASSUME NEW m \in Recursos \cup {Nadie}, NEW r \in Recursos \cup {Nadie}, CambiaMutex(m, r),
         m # Nadie => Cuadra(m), r # Nadie,
         Basura = {Nadie}, "THREAD_CANCEL" \notin Llamadas
  PROVE  Cuadra(r)
<1>1. CASE r = m
  BY <1>1
<1>2. CASE m = Nadie /\ \E b \in Basura : r = Recurso(1, b, <<>>)
  <2>1. r.valor = 1 /\ r.propietario = Nadie /\ r.espera = <<>>
    BY <1>2 DEF Recurso
  <2> QED BY <2>1 DEF Cuadra
<1> DEFINE k == Len(m.espera)
           h == hilo_EXEC
<1>3. CASE m # Nadie /\ m.valor = 1 /\ h \in Hilos /\ r = Tomar(m, h)
  <2>1. m \in Recursos /\ h \in Hilos /\ h # Nadie
    BY <1>3, ConstantesDelKernel
  <2>2. /\ k \in Nat /\ m.valor \in Int /\ (k = 0 <=> m.espera = <<>>)
        /\ r.valor = m.valor - 1 /\ r.propietario = h /\ r.espera = m.espera
    BY <1>3, <2>1, CamposMutex
  <2>3. m.valor = 1 - k - (IF m.propietario = Nadie THEN 0 ELSE 1)
    BY <1>3 DEF Cuadra
  <2>4. Len(r.espera) = k
    BY <2>2
  <2> HIDE DEF k, h
  <2>5. k = 0
    BY <1>3, <2>2, <2>3
  <2> QED BY <1>3, <2>1, <2>2, <2>4, <2>5 DEF Cuadra
<1>4. CASE m # Nadie /\ m.valor # 1 /\ h \in Hilos /\ r = Esperar(m, h)
  <2>1. m \in Recursos /\ h \in Hilos
    BY <1>4
  <2>2. /\ k \in Nat /\ m.valor \in Int /\ (k = 0 <=> m.espera = <<>>)
        /\ r.valor = m.valor - 1 /\ r.propietario = m.propietario /\ Len(r.espera) = k + 1
    BY <1>4, <2>1, CamposMutex
  <2>3. /\ m.valor = 1 - k - (IF m.propietario = Nadie THEN 0 ELSE 1)
        /\ m.espera # <<>> => m.propietario # Nadie
    BY <1>4 DEF Cuadra
  <2> HIDE DEF k, h
  <2>4. m.propietario # Nadie
    BY <1>4, <2>2, <2>3
  <2> QED BY <2>2, <2>3, <2>4 DEF Cuadra
<1>5. CASE m # Nadie /\ h \in Hilos /\ m.propietario = h /\ r = Soltar(m)
  <2>1. m \in Recursos /\ h \in Hilos /\ h # Nadie
    BY <1>5, ConstantesDelKernel
  <2>2. /\ k \in Nat /\ m.valor \in Int /\ (k = 0 <=> m.espera = <<>>) /\ r.valor = m.valor + 1
        /\ m.espera = <<>> => r.propietario = Nadie /\ r.espera = <<>>
        /\ m.espera # <<>> =>
             /\ r.propietario = Head(m.espera) /\ Head(m.espera) \in Hilos
             /\ Len(r.espera) = k - 1
    BY <1>5, <2>1, CamposMutex
  <2>3. m.valor = 1 - k - 1
    BY <1>5, <2>1 DEF Cuadra
  <2> HIDE DEF k, h
  <2>4. CASE m.espera = <<>>
    <3>1. r.valor = 1 /\ r.propietario = Nadie /\ r.espera = <<>>
      BY <2>2, <2>3, <2>4
    <3> QED BY <3>1 DEF Cuadra
  <2>5. CASE m.espera # <<>>
    <3>1. r.propietario # Nadie
      BY <2>2, <2>5, ConstantesDelKernel
    <3>2. r.valor = 1 - Len(r.espera) - 1
      BY <2>2, <2>3, <2>5
    <3> QED BY <3>1, <3>2 DEF Cuadra
  <2> QED BY <2>4, <2>5
<1> QED BY <1>1, <1>2, <1>3, <1>4, <1>5 DEF CambiaMutex

\* A LOCK takes the mutex only if nobody waits for it.
LEMMA CupoCambia ==
  ASSUME NEW m \in Recursos \cup {Nadie}, NEW r \in Recursos \cup {Nadie}, CambiaMutex(m, r),
         m # Nadie => Cupo(m), r # Nadie,
         Disciplina \/ Basura = {Nadie}
  PROVE  Cupo(r)
<1>0. Disciplina \in BOOLEAN
  BY ConstantesDelKernel
<1>1. CASE r = m
  BY <1>1
<1>2. CASE m = Nadie /\ \E b \in Basura : r = Recurso(1, b, <<>>)
  <2>1. r.valor = 1 /\ r.espera = <<>> /\ (~Disciplina => r.propietario = Nadie)
    BY <1>2 DEF Recurso
  <2> QED BY <2>1 DEF Cupo
<1> DEFINE k == Len(m.espera)
           h == hilo_EXEC
<1>3. CASE m # Nadie /\ m.valor = 1 /\ h \in Hilos /\ r = Tomar(m, h)
  <2>1. m \in Recursos /\ h \in Hilos
    BY <1>3
  <2>2. /\ k \in Nat /\ m.valor \in Int
        /\ r.valor = m.valor - 1 /\ Len(r.espera) = k
    BY <1>3, <2>1, CamposMutex
  <2>3. m.valor + k <= 1
    BY <1>3 DEF Cupo
  <2> HIDE DEF k, h
  <2>4. r.valor + Len(r.espera) <= 0 /\ r.valor + Len(r.espera) <= 1
    BY <1>3, <2>2, <2>3
  <2> QED BY <2>4 DEF Cupo
<1>4. CASE m # Nadie /\ m.valor # 1 /\ h \in Hilos /\ r = Esperar(m, h)
  <2>1. m \in Recursos /\ h \in Hilos
    BY <1>4
  <2>2. /\ k \in Nat /\ m.valor \in Int
        /\ r.valor = m.valor - 1 /\ r.propietario = m.propietario /\ Len(r.espera) = k + 1
    BY <1>4, <2>1, CamposMutex
  <2>3. m.valor + k <= 1 /\ (~Disciplina /\ m.propietario # Nadie => m.valor + k <= 0)
    BY <1>4 DEF Cupo
  <2> HIDE DEF k, h
  <2>4. r.valor + Len(r.espera) = m.valor + k
    BY <2>2
  <2> QED BY <2>2, <2>3, <2>4 DEF Cupo
<1>5. CASE /\ m # Nadie /\ h \in Hilos /\ m.propietario = h
           /\ Disciplina => m.valor < 1
           /\ r = Soltar(m)
  <2>1. m \in Recursos /\ h \in Hilos /\ h # Nadie
    BY <1>5, ConstantesDelKernel
  <2>2. /\ k \in Nat /\ m.valor \in Int /\ (k = 0 <=> m.espera = <<>>) /\ r.valor = m.valor + 1
        /\ m.espera = <<>> => r.propietario = Nadie /\ r.espera = <<>>
        /\ m.espera # <<>> => Len(r.espera) = k - 1
    BY <1>5, <2>1, CamposMutex
  <2>3. m.valor + k <= 1 /\ (~Disciplina => m.valor + k <= 0)
    BY <1>5, <2>1 DEF Cupo
  <2> HIDE DEF k, h
  <2>4. CASE m.espera = <<>>
    <3>1. r.valor + Len(r.espera) = m.valor + 1 /\ k = 0
      BY <2>2, <2>4
    <3>2. m.valor <= 0
      <4>1. CASE Disciplina
        BY <1>5, <2>2, <4>1
      <4>2. CASE ~Disciplina
        BY <2>2, <2>3, <3>1, <4>2
      <4> QED BY <4>1, <4>2
    <3>3. r.valor + Len(r.espera) <= 1
      BY <2>2, <3>1, <3>2
    <3> QED BY <2>2, <2>4, <3>3 DEF Cupo
  <2>5. CASE m.espera # <<>>
    <3>1. r.valor + Len(r.espera) = m.valor + k
      BY <2>2, <2>5
    <3> QED BY <2>3, <3>1 DEF Cupo
  <2> QED BY <2>4, <2>5
<1>6. ASSUME m # Nadie, NEW g \in Hilos,
             r = Recurso(m.valor, m.propietario, RemoveFirst(m.espera, g))
      PROVE  Cupo(r)
  <2>1. m \in Recursos /\ m.valor \in Int /\ m.espera \in Seq(Hilos) /\ k \in Nat
    BY <1>6, CamposMutex
  <2>2. r.valor = m.valor /\ r.propietario = m.propietario /\ r.espera = RemoveFirst(m.espera, g)
    BY <1>6 DEF Recurso
  <2>3. Len(r.espera) \in Nat /\ Len(r.espera) <= k
    BY <2>1, <2>2, RemoveFirstLargo
  <2>4. m.valor + k <= 1 /\ (~Disciplina /\ m.propietario # Nadie => m.valor + k <= 0)
    BY <1>6 DEF Cupo
  <2> HIDE DEF k, h
  <2>5. r.valor + Len(r.espera) <= m.valor + k /\ r.valor + Len(r.espera) \in Int /\ m.valor + k \in Int
    BY <2>1, <2>2, <2>3
  <2>6. \A x, y \in Int : x <= y => (y <= 1 => x <= 1) /\ (y <= 0 => x <= 0)
    OBVIOUS
  <2> QED BY <2>2, <2>4, <2>5, <2>6 DEF Cupo
<1> QED BY <1>1, <1>2, <1>3, <1>4, <1>5, <1>6 DEF CambiaMutex

\* Every mutex is so.
MutexsCuadran == \A p \in PIDs : \A n \in Creados(p) : Cuadra(mutexs[p][n])
MutexsConCupo == \A p \in PIDs : \A n \in Creados(p) : Cupo(mutexs[p][n])

LEMMA InitMutexs ==
  ASSUME Init
  PROVE  MutexsCuadran /\ MutexsConCupo
BY DEF Init, Creados, SinMutexs, MutexsCuadran, MutexsConCupo

\* The mutexes of a step, and what the types say of them.
LEMMA MutexTipos ==
  ASSUME TypeOK, NEW p \in PIDs, NEW n \in Nombres
  PROVE  mutexs[p][n] \in Recursos \cup {Nadie} /\ (mutexs[p][n] # Nadie <=> n \in Creados(p))
BY Partes DEF Tipos, TipoMutexs, Creados

LEMMA NextCuadra ==
  ASSUME TypeOK, TypeOK', InvLugares, [Next]_vars, MutexsCuadran,
         Basura = {Nadie}, "THREAD_CANCEL" \notin Llamadas
  PROVE  MutexsCuadran'
<1>1. ASSUME NEW p \in PIDs, NEW n \in Nombres, mutexs'[p][n] # Nadie
      PROVE  Cuadra(mutexs'[p][n])
  <2>1. mutexs[p][n] \in Recursos \cup {Nadie} /\ mutexs'[p][n] \in Recursos \cup {Nadie}
    BY Partes DEF Tipos, TipoMutexs
  <2>2. mutexs[p][n] # Nadie => Cuadra(mutexs[p][n])
    BY DEF MutexsCuadran, Creados
  <2>3. CambiaMutex(mutexs[p][n], mutexs'[p][n])
    BY PasoMutex
  <2> QED BY <1>1, <2>1, <2>2, <2>3, CuadraCambia
<1> QED BY <1>1 DEF MutexsCuadran, Creados

LEMMA NextCupo ==
  ASSUME TypeOK, TypeOK', InvLugares, [Next]_vars, MutexsConCupo,
         Disciplina \/ Basura = {Nadie}
  PROVE  MutexsConCupo'
<1>1. ASSUME NEW p \in PIDs, NEW n \in Nombres, mutexs'[p][n] # Nadie
      PROVE  Cupo(mutexs'[p][n])
  <2>1. mutexs[p][n] \in Recursos \cup {Nadie} /\ mutexs'[p][n] \in Recursos \cup {Nadie}
    BY Partes DEF Tipos, TipoMutexs
  <2>2. mutexs[p][n] # Nadie => Cupo(mutexs[p][n])
    BY DEF MutexsConCupo, Creados
  <2>3. CambiaMutex(mutexs[p][n], mutexs'[p][n])
    BY PasoMutex
  <2> QED BY <1>1, <2>1, <2>2, <2>3, CupoCambia
<1> QED BY <1>1 DEF MutexsConCupo, Creados

\* valor counts the owner and the waiters of each mutex, at every step of the hand-over, when
\* the memory of a new mutex comes clean and nobody cancels a waiter: with either, the code
\* leaves the counter wrong.
THEOREM ContabilidadSiempre ==
  ASSUME Basura = {Nadie}, "THREAD_CANCEL" \notin Llamadas
  PROVE  Spec => []ContabilidadMutex
<1> DEFINE Inv == InvNEW /\ MismoLargo /\ InvLugares /\ MutexsCuadran
<1>1. Init => Inv
  BY InitInv, InitLugares, InitMutexs
<1>2. Inv /\ [Next]_vars => Inv'
  <2> SUFFICES ASSUME Inv, [Next]_vars PROVE Inv'
    OBVIOUS
  <2>1. InvNEW' /\ MismoLargo' /\ InvLugares'
    BY NextInv, NextLugares
  <2>2. MutexsCuadran'
    BY <2>1, NextCuadra DEF InvNEW
  <2> QED BY <2>1, <2>2
<1>3. Inv => ContabilidadMutex
  BY DEF MutexsCuadran, Cuadra, ContabilidadMutex
<1> HIDE DEF Inv
<1> QED BY <1>1, <1>2, <1>3, PTL DEF Spec

\* Threads wait for a mutex only while some thread owns it, under the same conditions.
THEOREM EsperaSoloSiTomadoSiempre ==
  ASSUME Basura = {Nadie}, "THREAD_CANCEL" \notin Llamadas
  PROVE  Spec => []EsperaSoloSiTomado
<1> DEFINE Inv == InvNEW /\ MismoLargo /\ InvLugares /\ MutexsCuadran
<1>1. Init => Inv
  BY InitInv, InitLugares, InitMutexs
<1>2. Inv /\ [Next]_vars => Inv'
  <2> SUFFICES ASSUME Inv, [Next]_vars PROVE Inv'
    OBVIOUS
  <2>1. InvNEW' /\ MismoLargo' /\ InvLugares'
    BY NextInv, NextLugares
  <2>2. MutexsCuadran'
    BY <2>1, NextCuadra DEF InvNEW
  <2> QED BY <2>1, <2>2
<1>3. Inv => EsperaSoloSiTomado
  BY DEF MutexsCuadran, Cuadra, EsperaSoloSiTomado
<1> HIDE DEF Inv
<1> QED BY <1>1, <1>2, <1>3, PTL DEF Spec

\* Nobody overtakes the waiters of a mutex, cancellations included: a LOCK finds no unit while
\* there are waiters, and an UNLOCK gives the mutex to the first. The scripts unlock what
\* they hold, or the memory of a new mutex comes clean.
THEOREM SinColarseSiempre ==
  ASSUME Disciplina \/ Basura = {Nadie}
  PROVE  Spec => SinColarse
<1> DEFINE Inv == InvNEW /\ MismoLargo /\ InvLugares /\ MutexsConCupo
           Paso == \A p \in PIDs : \A n \in Creados(p) \cap Creados(p)' :
                     LET m == mutexs[p][n]
                         r == mutexs'[p][n]
                     IN  m.espera # <<>> /\ r.propietario # m.propietario
                           => r.propietario = Head(m.espera) /\ r.espera = Tail(m.espera)
<1>1. Init => Inv
  BY InitInv, InitLugares, InitMutexs
<1>2. Inv /\ [Next]_vars => Inv'
  <2> SUFFICES ASSUME Inv, [Next]_vars PROVE Inv'
    OBVIOUS
  <2>1. InvNEW' /\ MismoLargo' /\ InvLugares'
    BY NextInv, NextLugares
  <2>2. MutexsConCupo'
    BY <2>1, NextCupo DEF InvNEW
  <2> QED BY <2>1, <2>2
<1>3. Inv /\ [Next]_vars => [Paso]_vars
  <2> SUFFICES ASSUME Inv, [Next]_vars, NEW p \in PIDs, NEW n \in Creados(p) \cap Creados(p)',
                      mutexs[p][n].espera # <<>>,
                      mutexs'[p][n].propietario # mutexs[p][n].propietario
               PROVE  /\ mutexs'[p][n].propietario = Head(mutexs[p][n].espera)
                      /\ mutexs'[p][n].espera = Tail(mutexs[p][n].espera)
    OBVIOUS
  <2> DEFINE m == mutexs[p][n]
             r == mutexs'[p][n]
  <2>1. TypeOK /\ InvLugares /\ n \in Nombres /\ m # Nadie /\ r # Nadie
    BY DEF InvNEW, Creados
  <2>2. CambiaMutex(m, r)
    BY <2>1, PasoMutex
  <2>3. m \in Recursos /\ Cupo(m) /\ m.espera # <<>> /\ r.propietario # m.propietario
    BY <2>1, MutexTipos DEF MutexsConCupo
  <2> HIDE DEF m, r
  <2>4. m.valor # 1
    <3>1. m.valor + Len(m.espera) <= 1 /\ m.valor \in Int /\ m.espera \in Seq(Hilos)
      BY <2>3 DEF Cupo, Recursos
    <3>2. Len(m.espera) \in Nat /\ Len(m.espera) # 0
      BY <2>3, <3>1
    <3> QED BY <3>1, <3>2
  <2>5. r # Recurso(m.valor, m.propietario, RemoveFirst(m.espera, hilo_EXEC))
        /\ \A h \in Hilos : r # Recurso(m.valor, m.propietario, RemoveFirst(m.espera, h))
    BY <2>3 DEF Recurso
  <2>6. hilo_EXEC \in Hilos => Esperar(m, hilo_EXEC).propietario = m.propietario
    BY DEF Esperar, Recurso
  <2>7. r = Soltar(m)
    BY <2>1, <2>2, <2>3, <2>4, <2>5, <2>6 DEF CambiaMutex
  <2> QED BY <2>3, <2>7 DEF m, r, Soltar, Recurso
<1> HIDE DEF Inv
<1>4. Spec => [][Paso]_vars
  BY <1>1, <1>2, <1>3, PTL DEF Spec
<1> QED BY <1>4 DEF SinColarse

-----------------------------------------------------------------------------
(* Who elects, and from what *)

\* A choice leaves the CPU idle only when the queue of the algorithm is empty.
LEMMA ElegirOcioso ==
  ASSUME TipoTCB, NEW c \in Seq(ONulo(Hilos)), NEW v \in NivelesDe(Hilos), elegir_hilo(c, v)
  PROVE  \/ ALGORITMO # "CMN" /\ kernel' = "caido"
         \/ hilo_EXEC' # Nadie
         \/ IF ALGORITMO = "CMN" THEN \A l \in Prioridades : colas_multi_level'[l] = <<>>
                                 ELSE cola_hilos_READY' = <<>>
<1>1. CASE SinListos(c, v) /\ cola_hilos_READY' = c /\ colas_multi_level' = v
  BY <1>1 DEF SinListos
<1>2. CASE /\ ALGORITMO # "CMN" /\ c # <<>> /\ ~EligeNulo(c)
           /\ LET i == IF ALGORITMO = "FIFO" THEN 1 ELSE Posicion(c)
              IN  hilo_EXEC' = c[i] /\ cola_hilos_READY' = RemoveAt(c, i)
  <2>1. CASE ALGORITMO = "FIFO"
    <3>1. hilo_EXEC' = c[1] /\ Head(c) # Nadie /\ Head(c) = c[1]
      BY <1>2, <2>1 DEF EligeNulo
    <3> QED BY <3>1
  <2>2. CASE ALGORITMO # "FIFO"
    <3>1. Nadie \notin ToSet(c)
      BY <1>2, <2>2, ConstantesDelKernel DEF EligeNulo
    <3>2. Posicion(c) \in 1 .. Len(c)
      BY <1>2, <2>2, <3>1, PosicionTipo DEF TipoTCB
    <3>3. c[Posicion(c)] \in ToSet(c)
      BY <3>2 DEF ToSet
    <3> QED BY <1>2, <2>2, <3>1, <3>3
  <2> QED BY <2>1, <2>2
<1>3. CASE /\ ALGORITMO = "CMN" /\ ~SinListos(c, v)
           /\ LET l == PrimerNivel(v) IN hilo_EXEC' = Head(v[l])
  <2> DEFINE l == PrimerNivel(v)
  <2>1. l \in Prioridades /\ v[l] # <<>>
    BY <1>3, PrimerNivelTipo DEF SinListos
  <2>2. v[l] \in Seq(Hilos) /\ hilo_EXEC' = Head(v[l])
    BY <1>3, <2>1 DEF NivelesDe
  <2>3. Head(v[l]) \in Hilos
    BY <2>1, <2>2
  <2> QED BY <2>2, <2>3, ConstantesDelKernel
<1>4. EligeNulo(c) => ALGORITMO # "CMN"
  BY DEF EligeNulo
<1> QED BY <1>1, <1>2, <1>3, <1>4 DEF elegir_hilo

\* The thread that runs changes in a choice, and a choice is made on queues of TCBs.
LEMMA PasoElige ==
  ASSUME TypeOK, MismoLargo, InvLugares, Next
  PROVE  \/ UNCHANGED hilo_EXEC
         \/ \E c \in Seq(ONulo(Hilos)) : \E v \in NivelesDe(Hilos) : elegir_hilo(c, v)
<1> USE DEF Peticion
<1>1. Tipos
  BY Partes
<1>2. cola_hilos_READY \in Seq(ONulo(Hilos)) /\ colas_multi_level \in NivelesDe(Hilos)
      /\ prioridad \in [Hilos -> Prioridades] /\ TipoTCB
  BY <1>1 DEF Tipos, TipoListos, TipoTCB
<1>3. CASE ProcessCreate \/ ThreadCreate
  BY <1>3 DEF ProcessCreate, crear_proceso, ThreadCreate, crear_hilo, SigueElMismo
<1>4. CASE ThreadJoin
  BY <1>2, <1>4 DEF ThreadJoin, bloquear_hilo_por_thread_join, SigueElMismo, Cae
<1>5. ASSUME NEW tid \in TIDs, finalizar_hilo(tid), cpu = "ejecuta"
      PROVE  \/ UNCHANGED hilo_EXEC
             \/ \E c \in Seq(ONulo(Hilos)) : \E v \in NivelesDe(Hilos) : elegir_hilo(c, v)
  <2> DEFINE h == <<hilo_EXEC[1], tid>>
             c == AgregarReady(ReadySin(h), Despertados(h))
             v == AgregarNiveles(NivelesSin(h), Despertados(h), prioridad)
  <2>1. h \in Hilos
    BY <1>1, <1>5, EjecutaHilo DEF Tipos, Hilos
  <2>2. UNCHANGED hilo_EXEC \/ elegir_hilo(c, v)
    BY <1>5 DEF finalizar_hilo, SigueElMismo, Cae
  <2> HIDE DEF h
  <2>3. /\ ReadySin(h) \in Seq(ONulo(Hilos)) /\ NivelesSin(h) \in NivelesDe(Hilos)
        /\ Despertados(h) \in Seq(ONulo(Hilos))
    BY <1>1, <2>1, SinListoTipo, DespertadosTipo DEF Tipos
  <2>4. c \in Seq(ONulo(Hilos)) /\ v \in NivelesDe(Hilos)
    BY <1>2, <2>3, AgregarReadyTipo, AgregarNivelesTipo
  <2> HIDE DEF c, v
  <2> QED BY <2>2, <2>4
<1>6. CASE ThreadCancel
  BY <1>5, <1>6 DEF ThreadCancel
<1>7. CASE ThreadExit
  <2>1. hilo_EXEC[2] \in TIDs
    BY <1>1, <1>7, EjecutaHilo DEF ThreadExit, Tipos
  <2> QED BY <1>5, <1>7, <2>1 DEF ThreadExit
<1>8. CASE ProcessExit \/ SegmentationFault
  <2> DEFINE pid == hilo_EXEC[1]
  <2>1. CASE UNCHANGED hilo_EXEC
    BY <2>1
  <2>2. ASSUME NEW k \in 0 .. Len(cola_procesos_NEW),
               elegir_hilo(AgregarReady(ReadySinProceso(pid), SubSeq(cola_hilos_NEW, 1, k)),
                           AgregarNiveles(NivelesSinProceso(pid), SubSeq(cola_hilos_NEW, 1, k), prioridad))
        PROVE  \E c \in Seq(ONulo(Hilos)) : \E v \in NivelesDe(Hilos) : elegir_hilo(c, v)
    <3> DEFINE a == SubSeq(cola_hilos_NEW, 1, k)
               c == AgregarReady(ReadySinProceso(pid), a)
               v == AgregarNiveles(NivelesSinProceso(pid), a, prioridad)
    <3>1. cola_hilos_NEW \in Seq(Hilos) /\ k \in 0 .. Len(cola_hilos_NEW)
      BY <1>1 DEF Tipos, TipoNEW, MismoLargo
    <3>2. a \in Seq(ONulo(Hilos))
      <4>1. a \in Seq(Hilos)
        BY <3>1, SubSeqTipo
      <4> QED BY <4>1, HilosNulos
    <3>3. ReadySinProceso(pid) \in Seq(ONulo(Hilos)) /\ NivelesSinProceso(pid) \in NivelesDe(Hilos)
      BY <1>1, SinProcesoLugar DEF Tipos, InvLugares
    <3> HIDE DEF a, pid
    <3>4. c \in Seq(ONulo(Hilos)) /\ v \in NivelesDe(Hilos)
      BY <1>2, <3>2, <3>3, AgregarReadyTipo, AgregarNivelesTipo
    <3>5. elegir_hilo(c, v)
      BY <2>2 DEF a, pid
    <3> HIDE DEF c, v
    <3> QED BY <3>4, <3>5
  <2>3. finalizar_proceso
    BY <1>8 DEF ProcessExit, SegmentationFault
  <2>4. \/ UNCHANGED hilo_EXEC
        \/ \E k \in 0 .. Len(cola_procesos_NEW) :
             elegir_hilo(AgregarReady(ReadySinProceso(pid), SubSeq(cola_hilos_NEW, 1, k)),
                         AgregarNiveles(NivelesSinProceso(pid), SubSeq(cola_hilos_NEW, 1, k), prioridad))
    BY <2>3 DEF finalizar_proceso, Cae
  <2> QED BY <2>2, <2>4
<1>9. CASE MutexCreate
  BY <1>9 DEF MutexCreate, crear_mutex, SigueElMismo
<1>10. CASE MutexLock
  BY <1>2, <1>10 DEF MutexLock, bloquear_mutex, RecursoInexistente, SigueElMismo
<1>11. CASE MutexUnlock
  BY <1>2, <1>11 DEF MutexUnlock, desbloquear_mutex, RecursoInexistente, SigueElMismo
<1>12. CASE FinQuantum
  <2> DEFINE v == AgregarNivel(colas_multi_level, <<hilo_EXEC>>, prioridad)
  <2>1. hilo_EXEC \in Hilos
    BY <1>1, <1>12, EjecutaHilo DEF FinQuantum, Tipos
  <2>2. <<hilo_EXEC>> \in Seq(ONulo(Hilos))
    BY <2>1 DEF ONulo
  <2>3. v \in NivelesDe(Hilos)
    BY <1>2, <2>2, AgregarNivelTipo
  <2>4. elegir_hilo(cola_hilos_READY, v)
    BY <1>12 DEF FinQuantum, cambiar_hilo_exec_fin_Q
  <2> HIDE DEF v
  <2> QED BY <1>2, <2>3, <2>4
<1> QED BY <1>3, <1>4, <1>6, <1>7, <1>8, <1>9, <1>10, <1>11, <1>12 DEF Next

\* The queue the algorithm does not elect from is empty, but for UNLOCK: it queues the new
\* owner on the levels whatever the algorithm is.
ColaAjenaVacia ==
  IF ALGORITMO = "CMN" THEN cola_hilos_READY = <<>>
                       ELSE \A l \in Prioridades : colas_multi_level[l] = <<>>

\* A choice leaves it as it was.
LEMMA ElegirAjena ==
  ASSUME NEW c, NEW v, elegir_hilo(c, v)
  PROVE  IF ALGORITMO = "CMN" THEN cola_hilos_READY' = c ELSE colas_multi_level' = v
<1>1. CASE cola_hilos_READY' = c /\ colas_multi_level' = v
  BY <1>1
<1>2. CASE ALGORITMO # "CMN" /\ colas_multi_level' = v
  BY <1>2
<1>3. CASE ALGORITMO = "CMN" /\ cola_hilos_READY' = c
  BY <1>3
<1> QED BY <1>1, <1>2, <1>3 DEF elegir_hilo

\* And so does every request.
LEMMA PasoAjena ==
  ASSUME [Next]_vars, ALGORITMO = "CMN" \/ "MUTEX_UNLOCK" \notin Llamadas
  PROVE  IF ALGORITMO = "CMN" THEN UNCHANGED cola_hilos_READY ELSE UNCHANGED colas_multi_level
<1> USE DEF Peticion
<1>1. CASE ProcessCreate
  BY <1>1 DEF ProcessCreate, crear_proceso, AgregarReady, AgregarNiveles
<1>2. CASE ThreadCreate
  BY <1>2 DEF ThreadCreate, crear_hilo, AgregarReady, AgregarNiveles
<1>3. CASE ThreadJoin
  BY <1>3, ElegirAjena DEF ThreadJoin, bloquear_hilo_por_thread_join, listos, Cae
<1>4. ASSUME NEW tid, finalizar_hilo(tid)
      PROVE  IF ALGORITMO = "CMN" THEN UNCHANGED cola_hilos_READY ELSE UNCHANGED colas_multi_level
  <2> DEFINE h == <<hilo_EXEC[1], tid>>
             c == AgregarReady(ReadySin(h), Despertados(h))
             v == AgregarNiveles(NivelesSin(h), Despertados(h), prioridad)
  <2>1. \/ UNCHANGED listos
        \/ elegir_hilo(c, v)
        \/ cola_hilos_READY' = c /\ colas_multi_level' = v
    BY <1>4 DEF finalizar_hilo, Cae
  <2>2. IF ALGORITMO = "CMN" THEN c = cola_hilos_READY ELSE v = colas_multi_level
    BY DEF AgregarReady, AgregarNiveles, ReadySin, NivelesSin
  <2> HIDE DEF c, v
  <2> QED BY <2>1, <2>2, ElegirAjena DEF listos
<1>5. CASE ThreadCancel \/ ThreadExit
  BY <1>4, <1>5 DEF ThreadCancel, ThreadExit
<1>6. CASE ProcessExit \/ SegmentationFault
  <2> DEFINE pid == hilo_EXEC[1]
             c(k) == AgregarReady(ReadySinProceso(pid), SubSeq(cola_hilos_NEW, 1, k))
             v(k) == AgregarNiveles(NivelesSinProceso(pid), SubSeq(cola_hilos_NEW, 1, k), prioridad)
  <2>1. finalizar_proceso
    BY <1>6 DEF ProcessExit, SegmentationFault
  <2>2. UNCHANGED listos \/ \E k \in 0 .. Len(cola_procesos_NEW) : elegir_hilo(c(k), v(k))
    BY <2>1 DEF finalizar_proceso, Cae
  <2>3. \A k : IF ALGORITMO = "CMN" THEN c(k) = cola_hilos_READY ELSE v(k) = colas_multi_level
    BY DEF AgregarReady, AgregarNiveles, ReadySinProceso, NivelesSinProceso
  <2> HIDE DEF c, v
  <2> QED BY <2>2, <2>3, ElegirAjena DEF listos
<1>7. CASE MutexCreate
  BY <1>7 DEF MutexCreate, crear_mutex, listos
<1>8. CASE MutexLock
  BY <1>8, ElegirAjena DEF MutexLock, bloquear_mutex, RecursoInexistente, listos
<1>9. CASE MutexUnlock
  BY <1>9, ElegirAjena DEF MutexUnlock, desbloquear_mutex, RecursoInexistente, listos
<1>10. CASE FinQuantum
  BY <1>10, ElegirAjena DEF FinQuantum, cambiar_hilo_exec_fin_Q
<1>11. CASE UNCHANGED vars
  BY <1>11 DEF vars, listos
<1> QED BY <1>1, <1>2, <1>3, <1>5, <1>6, <1>7, <1>8, <1>9, <1>10, <1>11 DEF Next

-----------------------------------------------------------------------------
(* The CPU does not rest *)

\* The CPU is idle only when the queue of the algorithm is empty, or the choice fell on a NULL.
Ocupada ==
  hilo_EXEC = Nadie =>
    \/ ALGORITMO # "CMN" /\ kernel = "caido"
    \/ IF ALGORITMO = "CMN" THEN \A l \in Prioridades : colas_multi_level[l] = <<>>
                            ELSE cola_hilos_READY = <<>>

LEMMA InitOcupada == Init => Ocupada /\ ColaAjenaVacia
BY DEF Init, Ocupada, ColaAjenaVacia

\* A request comes with a thread that runs, so an idle CPU was left so by a choice.
LEMMA NextOcupada ==
  ASSUME TypeOK, MismoLargo, InvLugares, Ocupada, [Next]_vars
  PROVE  Ocupada'
<1>1. Tipos
  BY Partes
<1>2. CASE UNCHANGED vars
  BY <1>2 DEF vars, listos, Ocupada
<1>3. CASE Next
  <2>1. cpu = "ejecuta"
    BY <1>3 DEF Next, ProcessCreate, ThreadCreate, ThreadJoin, ThreadCancel, ThreadExit,
                ProcessExit, SegmentationFault, MutexCreate, MutexLock, MutexUnlock, FinQuantum, Peticion
  <2>2. hilo_EXEC # Nadie
    BY <1>1, <2>1, EjecutaHilo, ConstantesDelKernel DEF Tipos
  <2>3. CASE UNCHANGED hilo_EXEC
    BY <2>2, <2>3 DEF Ocupada
  <2>4. ASSUME NEW c \in Seq(ONulo(Hilos)), NEW v \in NivelesDe(Hilos), elegir_hilo(c, v)
        PROVE  Ocupada'
    <3>1. \/ ALGORITMO # "CMN" /\ kernel' = "caido"
          \/ hilo_EXEC' # Nadie
          \/ IF ALGORITMO = "CMN" THEN \A l \in Prioridades : colas_multi_level'[l] = <<>>
                                  ELSE cola_hilos_READY' = <<>>
      BY <1>1, <2>4, ElegirOcioso DEF Tipos
    <3> QED BY <3>1 DEF Ocupada
  <2> QED BY <1>3, <2>3, <2>4, PasoElige
<1> QED BY <1>2, <1>3

\* With both, no thread is ready in any queue.
LEMMA OcupadaTrabajo ==
  ASSUME Ocupada, ColaAjenaVacia
  PROVE  TrabajoConservado
<1>1. ToSet(<<>>) = {}
  BY NingunHilo
<1> QED BY <1>1 DEF Ocupada, ColaAjenaVacia, TrabajoConservado, EnReady, EnNiveles

\* The CPU is idle only when no thread is ready in any queue. With FIFO and PRIORIDADES it
\* takes that the scripts unlock nothing: the thread that an UNLOCK wakes goes to a level, and
\* those algorithms elect from READY.
THEOREM TrabajoSiempre ==
  ASSUME ALGORITMO = "CMN" \/ "MUTEX_UNLOCK" \notin Llamadas
  PROVE  Spec => []TrabajoConservado
<1> DEFINE Inv == InvNEW /\ MismoLargo /\ InvLugares /\ Ocupada /\ ColaAjenaVacia
<1>1. Init => Inv
  BY InitInv, InitLugares, InitOcupada
<1>2. Inv /\ [Next]_vars => Inv'
  <2> SUFFICES ASSUME Inv, [Next]_vars PROVE Inv'
    OBVIOUS
  <2>1. InvNEW' /\ MismoLargo' /\ InvLugares'
    BY NextInv, NextLugares
  <2>2. Ocupada'
    BY NextOcupada DEF InvNEW
  <2>3. ColaAjenaVacia'
    BY PasoAjena DEF ColaAjenaVacia
  <2> QED BY <2>1, <2>2, <2>3
<1>3. Inv => TrabajoConservado
  BY OcupadaTrabajo
<1> HIDE DEF Inv
<1> QED BY <1>1, <1>2, <1>3, PTL DEF Spec

-----------------------------------------------------------------------------
(* Joins wait for the living *)

\* A thread of a place of EnCurso is one the kernel finds.
LEMMA EnCursoEncontrable ==
  ASSUME ColaAjenaVacia, NEW h \in EnCurso
  PROVE  Encontrable(h)
<1>1. ToSet(<<>>) = {}
  BY NingunHilo
<1>2. CASE h \in DeHilo(hilo_EXEC)
  BY <1>2 DEF DeHilo, Encontrable
<1>3. CASE h \in Listos
  <2>1. EnReady(h)
    BY <1>1, <1>3 DEF Listos, DeCola, DeNiveles, ColaAjenaVacia, EnReady, EnNiveles
  <2> QED BY <2>1 DEF Encontrable
<1>4. CASE h \in Bloqueados
  BY <1>4 DEF Bloqueados, Esperan, Encontrable, EnBlock, EnEspera, Creados
<1> QED BY <1>2, <1>3, <1>4 DEF EnCurso

\* A thread a join may wait for is one the kernel finds: the handlers take the TCB out of
\* lista_hilos in the step that ends it, and no other step loses it. It takes that the scripts
\* lock and unlock names they created (a thread ended by RecursoInexistente stays in the list)
\* and, with FIFO and PRIORIDADES, that they unlock nothing.
THEOREM EsperadosVivosSiempre ==
  ASSUME Disciplina, ALGORITMO = "CMN" \/ "MUTEX_UNLOCK" \notin Llamadas
  PROVE  Spec => []EsperadosVivos
<1> DEFINE Inv == InvNEW /\ MismoLargo /\ InvLugares /\ ColaAjenaVacia /\ lista_hilos \subseteq EnCurso
<1>1. Init => Inv
  <2>1. Init => lista_hilos = {}
    BY DEF Init
  <2> QED BY <2>1, InitInv, InitLugares, InitOcupada
<1>2. Inv /\ [Next]_vars => Inv'
  <2> SUFFICES ASSUME Inv, [Next]_vars PROVE Inv'
    OBVIOUS
  <2>1. InvNEW' /\ MismoLargo' /\ InvLugares' /\ Conserva
    BY NextInv, NextLugares
  <2>2. ColaAjenaVacia'
    BY PasoAjena DEF ColaAjenaVacia
  <2>3. lista_hilos' \subseteq EnCurso'
    BY <2>1 DEF Conserva
  <2> QED BY <2>1, <2>2, <2>3
<1>3. Inv => EsperadosVivos
  BY EnCursoEncontrable DEF EsperadosVivos
<1> HIDE DEF Inv
<1> QED BY <1>1, <1>2, <1>3, PTL DEF Spec

-----------------------------------------------------------------------------
(* The life cycle *)

\* The state that the places say, in the order EstadoDe looks at them: the thread that runs,
\* NEW, the ready queues, the blocked threads, those that have not been created.
EstadoEn(h, e, n, l, b, c) ==
  IF h \in e THEN "EXEC"
  ELSE IF h \in n THEN "NEW"
  ELSE IF h \in l THEN "READY"
  ELSE IF h \in b THEN "BLOCK"
  ELSE IF h \in c THEN "SIN_CREAR"
  ELSE "EXIT"

\* The state of each thread, from the sets of the invariant, before and after a step.
LEMMA EstadoDeLugares ==
  ASSUME NEW h \in Hilos, ALGORITMO = "CMN"
  PROVE  /\ TypeOK /\ ColaAjenaVacia =>
              EstadoDe(h) = EstadoEn(h, DeHilo(hilo_EXEC), DeCola(cola_hilos_NEW), Listos,
                                     Bloqueados, SinCrear(prox_tid))
         /\ TypeOK' /\ ColaAjenaVacia' =>
              EstadoDe(h)' = EstadoEn(h, DeHilo(hilo_EXEC'), DeCola(cola_hilos_NEW'), Listos',
                                      Bloqueados', SinCrear(prox_tid'))
<1>0. ToSet(<<>>) = {} /\ h[1] \in PIDs /\ h[2] \in Int
  BY NingunHilo DEF Hilos, TIDs
<1>1. ASSUME TypeOK, ColaAjenaVacia
      PROVE  EstadoDe(h) = EstadoEn(h, DeHilo(hilo_EXEC), DeCola(cola_hilos_NEW), Listos,
                                    Bloqueados, SinCrear(prox_tid))
  <2>1. h = hilo_EXEC <=> h \in DeHilo(hilo_EXEC)
    BY DEF DeHilo
  <2>2. h \in ToSet(cola_hilos_NEW) <=> h \in DeCola(cola_hilos_NEW)
    BY DEF DeCola
  <2>3. EnReady(h) \/ EnNiveles(h) <=> h \in Listos
    BY <1>0, <1>1 DEF ColaAjenaVacia, Listos, DeCola, DeNiveles, EnReady, EnNiveles
  <2>4. EnBlock(h) <=> h \in Bloqueados
    BY DEF EnBlock, EnEspera, Creados, Bloqueados, Esperan
  <2>5. h[2] < prox_tid[h[1]] <=> h \notin SinCrear(prox_tid)
    <3>1. prox_tid[h[1]] \in Int
      BY <1>0, <1>1, Partes, ConstantesDelKernel DEF Tipos, TipoTCB
    <3> QED BY <1>0, <3>1 DEF SinCrear
  <2> QED BY <2>1, <2>2, <2>3, <2>4, <2>5 DEF EstadoDe, EstadoEn
<1>2. ASSUME TypeOK', ColaAjenaVacia'
      PROVE  EstadoDe(h)' = EstadoEn(h, DeHilo(hilo_EXEC'), DeCola(cola_hilos_NEW'), Listos',
                                     Bloqueados', SinCrear(prox_tid'))
  <2>1. h = hilo_EXEC' <=> h \in DeHilo(hilo_EXEC')
    BY DEF DeHilo
  <2>2. h \in ToSet(cola_hilos_NEW') <=> h \in DeCola(cola_hilos_NEW')
    BY DEF DeCola
  <2>3. EnReady(h)' \/ EnNiveles(h)' <=> h \in Listos'
    BY <1>0, <1>2 DEF ColaAjenaVacia, Listos, DeCola, DeNiveles, EnReady, EnNiveles
  <2>4. EnBlock(h)' <=> h \in Bloqueados'
    BY DEF EnBlock, EnEspera, Creados, Bloqueados, Esperan
  <2>5. h[2] < prox_tid'[h[1]] <=> h \notin SinCrear(prox_tid')
    <3>1. prox_tid'[h[1]] \in Int
      BY <1>0, <1>2, Partes, ConstantesDelKernel DEF Tipos, TipoTCB
    <3> QED BY <1>0, <3>1 DEF SinCrear
  <2> QED BY <2>1, <2>2, <2>3, <2>4, <2>5 DEF EstadoDe, EstadoEn
<1> QED BY <1>1, <1>2

\* A thread moved as Mueve says takes a step of the life cycle, or none.
LEMMA MueveEsPaso ==
  ASSUME NEW h, NEW e, NEW n, NEW l, NEW b, NEW c, NEW e1, NEW n1, NEW l1, NEW b1, NEW c1,
         c \cap (n \cup l \cup e \cup b) = {}, n \cap (l \cup e \cup b) = {},
         l \cap (e \cup b) = {}, e \cap b = {},
         e1 \subseteq e \cup l \cup b \cup n, n1 \subseteq n \cup c,
         l1 \subseteq e \cup l \cup b \cup n \cup c, b1 \subseteq b \cup e, c1 \subseteq c,
         n \subseteq n1 \cup l1 \cup e1
  PROVE  \/ EstadoEn(h, e1, n1, l1, b1, c1) = EstadoEn(h, e, n, l, b, c)
         \/ <<EstadoEn(h, e, n, l, b, c), EstadoEn(h, e1, n1, l1, b1, c1)>> \in Ciclo!Pasos
<1> DEFINE a == EstadoEn(h, e, n, l, b, c)
           z == EstadoEn(h, e1, n1, l1, b1, c1)
<1>1. /\ h \in e => a = "EXEC"
      /\ h \in n => a = "NEW"
      /\ h \in l => a = "READY"
      /\ h \in b => a = "BLOCK"
      /\ h \in c => a = "SIN_CREAR"
      /\ h \notin e \cup n \cup l \cup b \cup c => a = "EXIT"
  BY DEF EstadoEn
<1> HIDE DEF a
<1>2. CASE h \in e1
  <2>1. z = "EXEC"
    BY <1>2 DEF EstadoEn
  <2> HIDE DEF z
  <2> QED BY <1>1, <1>2, <2>1 DEF Ciclo!Pasos, a, z
<1>3. CASE h \in n1 \ e1
  <2>1. z = "NEW"
    BY <1>3 DEF EstadoEn
  <2> HIDE DEF z
  <2> QED BY <1>1, <1>3, <2>1 DEF Ciclo!Pasos, a, z
<1>4. CASE h \in l1 \ (e1 \cup n1)
  <2>1. z = "READY"
    BY <1>4 DEF EstadoEn
  <2> HIDE DEF z
  <2> QED BY <1>1, <1>4, <2>1 DEF Ciclo!Pasos, a, z
<1>5. CASE h \in b1 \ (e1 \cup n1 \cup l1)
  <2>1. z = "BLOCK"
    BY <1>5 DEF EstadoEn
  <2> HIDE DEF z
  <2> QED BY <1>1, <1>5, <2>1 DEF Ciclo!Pasos, a, z
<1>6. CASE h \in c1 \ (e1 \cup n1 \cup l1 \cup b1)
  <2>1. z = "SIN_CREAR" /\ a = "SIN_CREAR"
    BY <1>1, <1>6 DEF EstadoEn
  <2> QED BY <2>1 DEF a, z
<1>7. CASE h \notin e1 \cup n1 \cup l1 \cup b1 \cup c1
  <2>1. z = "EXIT" /\ h \notin n
    BY <1>7 DEF EstadoEn
  <2> HIDE DEF z
  <2> QED BY <1>1, <2>1 DEF Ciclo!Pasos, a, z
<1> QED BY <1>2, <1>3, <1>4, <1>5, <1>6, <1>7

\* The invariant of the refinement.
InvCiclo == InvNEW /\ MismoLargo /\ InvLugares /\ Ocupada /\ ColaAjenaVacia

\* A step of the kernel is one of the life cycle, or changes no state.
LEMMA PasoDeCiclo ==
  ASSUME ALGORITMO = "CMN", InvCiclo, InvCiclo', [Next]_vars
  PROVE  [Ciclo!Next]_[h \in Hilos |-> EstadoDe(h)]
<1> DEFINE estado == [h \in Hilos |-> EstadoDe(h)]
           e == DeHilo(hilo_EXEC)
           n == DeCola(cola_hilos_NEW)
           c == SinCrear(prox_tid)
           e1 == DeHilo(hilo_EXEC')
           n1 == DeCola(cola_hilos_NEW')
           c1 == SinCrear(prox_tid')
           est1 == [h \in Hilos |-> EstadoDe(h)']
<1>0. TypeOK /\ TypeOK' /\ InvLugares /\ InvLugares' /\ ColaAjenaVacia /\ ColaAjenaVacia' /\ Ocupada'
      /\ Tipos /\ Tipos'
  BY Partes DEF InvCiclo, InvNEW
<1>1. /\ \A h \in Hilos : estado[h] = EstadoEn(h, e, n, Listos, Bloqueados, c)
      /\ \A h \in Hilos : est1[h] = EstadoEn(h, e1, n1, Listos', Bloqueados', c1)
  BY <1>0, EstadoDeLugares
<1>2. estado' = est1
  OBVIOUS
<1>3. CASE UNCHANGED vars
  <2>1. \A h \in Hilos : EstadoDe(h)' = EstadoDe(h)
    BY <1>3 DEF vars, colas, listos, tcbs, fin, EstadoDe, EnReady, EnNiveles, EnBlock, EnEspera, Creados
  <2> QED BY <2>1
<1>4. CASE Next
  <2>1. Mueve
    BY NextLugares DEF InvCiclo
  <2>2. /\ c \cap (n \cup Listos \cup e \cup Bloqueados) = {}
        /\ n \cap (Listos \cup e \cup Bloqueados) = {}
        /\ Listos \cap (e \cup Bloqueados) = {} /\ e \cap Bloqueados = {}
    BY <1>0 DEF InvLugares, LugaresAjenos, Ajenos, Listos, Bloqueados
  <2>3. cpu = "ejecuta"
    BY <1>4 DEF Next, ProcessCreate, ThreadCreate, ThreadJoin, ThreadCancel, ThreadExit,
                ProcessExit, SegmentationFault, MutexCreate, MutexLock, MutexUnlock, FinQuantum, Peticion
  <2>4. hilo_EXEC \in Hilos /\ hilo_EXEC \in e
    BY <1>0, <2>3, EjecutaLugar DEF Tipos
  <2>5. /\ e1 \subseteq e \cup Listos \cup Bloqueados \cup n /\ n1 \subseteq n \cup c
        /\ Listos' \subseteq e \cup Listos \cup Bloqueados \cup n \cup c
        /\ Bloqueados' \subseteq Bloqueados \cup e /\ c1 \subseteq c
        /\ n \subseteq n1 \cup Listos' \cup e1
    BY <2>1 DEF Mueve, EnCurso
  <2>6. e1 = {} => Listos' = {}
    <3> SUFFICES ASSUME e1 = {} PROVE Listos' = {}
      OBVIOUS
    <3>1. hilo_EXEC' = Nadie
      BY <1>0 DEF Tipos, TipoCPU, DeHilo, ONulo
    <3>2. (\A l \in Prioridades : colas_multi_level'[l] = <<>>) /\ cola_hilos_READY' = <<>>
      BY <1>0, <3>1 DEF Ocupada, ColaAjenaVacia
    <3> QED BY <3>2, NingunHilo DEF Listos, DeCola, DeNiveles
  <2>7. \A a, b \in e1 : a = b
    BY DEF DeHilo
  <2> HIDE DEF estado, est1, e, n, c, e1, n1, c1
  <2>8. Ciclo!EnEstado(estado, "EXEC") # {}
    BY <1>1, <2>4 DEF Ciclo!EnEstado, EstadoEn
  <2>9. ASSUME NEW h \in Hilos
        PROVE  /\ est1[h] \in Ciclo!Estados
               /\ est1[h] = estado[h] \/ <<estado[h], est1[h]>> \in Ciclo!Pasos
    <3>1. EstadoEn(h, e1, n1, Listos', Bloqueados', c1) \in Ciclo!Estados
      BY DEF Ciclo!Estados, EstadoEn
    <3>2. \/ EstadoEn(h, e1, n1, Listos', Bloqueados', c1) = EstadoEn(h, e, n, Listos, Bloqueados, c)
          \/ <<EstadoEn(h, e, n, Listos, Bloqueados, c), EstadoEn(h, e1, n1, Listos', Bloqueados', c1)>>
               \in Ciclo!Pasos
      BY <2>2, <2>5, MueveEsPaso
    <3> QED BY <1>1, <3>1, <3>2
  <2>10. est1 \in [Hilos -> Ciclo!Estados]
    BY <2>9 DEF est1
  <2>11. Ciclo!UnaCpuOcupada(est1)
    <3>1. /\ \A h \in Hilos : est1[h] = "EXEC" => h \in e1
          /\ \A h \in Hilos : h \in e1 => est1[h] = "EXEC"
          /\ \A h \in Hilos : est1[h] = "READY" => h \in Listos'
          /\ e1 \subseteq Hilos
      BY <1>1 DEF EstadoEn, DeHilo, e1
    <3> QED BY <2>6, <2>7, <3>1 DEF Ciclo!UnaCpuOcupada, Ciclo!EnEstado
  <2>12. estado' \in [Hilos -> Ciclo!Estados] /\ Ciclo!UnaCpuOcupada(estado')
         /\ \A h \in Hilos : estado'[h] = estado[h] \/ <<estado[h], estado'[h]>> \in Ciclo!Pasos
    BY <1>2, <2>9, <2>10, <2>11
  <2> QED BY <2>8, <2>12 DEF Ciclo!Next, estado
<1> QED BY <1>3, <1>4

\* At the start the first thread runs or is in NEW, and no other has been created.
LEMMA InicioDeCiclo ==
  ASSUME ALGORITMO = "CMN", Init, InvCiclo
  PROVE  Ciclo!Init
<1> DEFINE g == <<1, 0>>
<1>1. g \in Hilos /\ \A p \in PIDs : p \in Int
  BY ConstantesDelKernel DEF PIDs, TIDs, Hilos
<1>2. \A h \in Hilos : h \in SinCrear(prox_tid) \/ h = g
  BY <1>1, ConstantesDelKernel DEF Init, SinCrear, Hilos, TIDs
<1>3. \A h \in Hilos : EstadoDe(h) = EstadoEn(h, DeHilo(hilo_EXEC), DeCola(cola_hilos_NEW), Listos,
                                              Bloqueados, SinCrear(prox_tid))
  BY EstadoDeLugares DEF InvCiclo, InvNEW
<1>4. \A h \in Hilos : h # g => EstadoDe(h) = "SIN_CREAR"
  BY <1>2, <1>3 DEF InvCiclo, InvLugares, LugaresAjenos, Ajenos, Listos, Bloqueados, EstadoEn
<1>5. EstadoDe(g) \in {"NEW", "EXEC"}
  <2>1. DeHilo(g) = {g} /\ DeCola(<<g>>) = {g} /\ DeHilo(Nadie) = {}
    BY <1>1, UnSoloHilo, ConstantesDelKernel DEF DeHilo, ONulo
  <2>2. CASE hilo_EXEC = g
    BY <1>1, <1>3, <2>1, <2>2 DEF EstadoEn
  <2>3. CASE cola_hilos_NEW = <<g>> /\ hilo_EXEC = Nadie
    BY <1>1, <1>3, <2>1, <2>3 DEF EstadoEn
  <2>4. hilo_EXEC = g \/ (cola_hilos_NEW = <<g>> /\ hilo_EXEC = Nadie)
    BY DEF Init
  <2> HIDE DEF g
  <2> QED BY <2>2, <2>3, <2>4
<1>6. [h \in Hilos |-> EstadoDe(h)] = [h \in Hilos |-> IF h = g THEN EstadoDe(g) ELSE "SIN_CREAR"]
  BY <1>4
<1> HIDE DEF g
<1> QED BY <1>1, <1>5, <1>6 DEF Ciclo!Init

\* With CMN the kernel implements the life cycle: no thread comes back from EXIT, skips a state
\* or runs beside another, and the CPU never idles with a thread ready.
THEOREM ImplementaElCiclo ==
  ASSUME ALGORITMO = "CMN"
  PROVE  Spec => ImplementaCiclo
<1>1. Init => InvCiclo
  BY InitInv, InitLugares, InitOcupada DEF InvCiclo
<1>2. InvCiclo /\ [Next]_vars => InvCiclo'
  <2> SUFFICES ASSUME InvCiclo, [Next]_vars PROVE InvCiclo'
    OBVIOUS
  <2>1. InvNEW' /\ MismoLargo' /\ InvLugares'
    BY NextInv, NextLugares DEF InvCiclo
  <2>2. Ocupada'
    BY NextOcupada DEF InvCiclo, InvNEW
  <2>3. ColaAjenaVacia'
    BY PasoAjena DEF InvCiclo, ColaAjenaVacia
  <2> QED BY <2>1, <2>2, <2>3 DEF InvCiclo
<1>3. Init /\ InvCiclo => Ciclo!Init
  BY InicioDeCiclo
<1>4. InvCiclo /\ InvCiclo' /\ [Next]_vars => [Ciclo!Next]_[h \in Hilos |-> EstadoDe(h)]
  BY PasoDeCiclo
<1> QED BY <1>1, <1>2, <1>3, <1>4, PTL DEF Spec, ImplementaCiclo, Ciclo!Spec

-----------------------------------------------------------------------------
(* Nobody gets ahead *)

\* Whoever is ahead in t of a thread that was in s was ahead of it in s.
Respeta(s, t) == \A a, b \in Hilos : b \in ToSet(s) /\ Antes(t, a, b) => Antes(s, a, b)

\* To take elements out lets nobody ahead.
LEMMA RespetaSubcola ==
  ASSUME NEW s, NEW t, NEW u, Respeta(s, t), Subcola(u, t)
  PROVE  Respeta(s, u)
<1> SUFFICES ASSUME NEW a \in Hilos, NEW b \in Hilos, Antes(u, a, b)
             PROVE  Antes(t, a, b)
  BY DEF Respeta
<1>1. PICK f \in [DOMAIN u -> DOMAIN t] :
        /\ \A i, j \in DOMAIN u : i < j => f[i] < f[j]
        /\ \A i \in DOMAIN u : u[i] = t[f[i]]
  BY DEF Subcola
<1>2. PICK i \in DOMAIN u, j \in DOMAIN u : i < j /\ u[i] = a /\ u[j] = b
  BY DEF Antes
<1>3. f[i] \in DOMAIN t /\ f[j] \in DOMAIN t /\ f[i] < f[j] /\ t[f[i]] = a /\ t[f[j]] = b
  BY <1>1, <1>2
<1> QED BY <1>3 DEF Antes

\* Nor do newcomers that join at the end.
LEMMA RespetaConcat ==
  ASSUME NEW T, NEW s, NEW t \in Seq(T), NEW w \in Seq(T), Respeta(s, t),
         DeCola(w) \cap DeCola(s) = {}
  PROVE  Respeta(s, t \o w)
<1> DEFINE u == t \o w
           L == Len(t)
           M == Len(w)
<1> SUFFICES ASSUME NEW a \in Hilos, NEW b \in Hilos, b \in ToSet(s), Antes(u, a, b)
             PROVE  Antes(t, a, b)
  BY DEF Respeta
<1>1. /\ L \in Nat /\ M \in Nat /\ DOMAIN t = 1 .. L /\ DOMAIN w = 1 .. M /\ DOMAIN u = 1 .. L + M
      /\ \A i \in 1 .. L + M : u[i] = IF i <= L THEN t[i] ELSE w[i - L]
  OBVIOUS
<1> HIDE DEF u, L, M
<1>2. PICK i \in 1 .. L + M, j \in 1 .. L + M : i < j /\ u[i] = a /\ u[j] = b
  BY <1>1 DEF Antes
<1>3. j <= L
  <2> SUFFICES ASSUME ~(j <= L) PROVE FALSE
    OBVIOUS
  <2>1. j - L \in DOMAIN w /\ w[j - L] = b
    BY <1>1, <1>2
  <2>2. b \in ToSet(w)
    BY <2>1 DEF ToSet
  <2> QED BY <2>2 DEF DeCola
<1>4. i \in 1 .. L /\ j \in 1 .. L
  BY <1>1, <1>2, <1>3
<1>5. t[i] = a /\ t[j] = b
  BY <1>1, <1>2, <1>3, <1>4
<1> QED BY <1>1, <1>2, <1>4, <1>5 DEF Antes

\* A queue that stays as it was.
LEMMA RespetaMisma == \A s : Respeta(s, s)
BY DEF Respeta

\* READY and the levels, none of them with somebody ahead.
Respetan(c, v) ==
  /\ c \in Seq(ONulo(Hilos)) /\ v \in NivelesDe(Hilos)
  /\ Respeta(cola_hilos_READY, c)
  /\ \A l \in Prioridades : Respeta(colas_multi_level[l], v[l])

\* The threads that are in neither.
Ajena(s) ==
  s \in Seq(ONulo(Hilos)) /\ DeCola(s) \cap (DeCola(cola_hilos_READY) \cup DeNiveles(colas_multi_level)) = {}

LEMMA RespetanNivel ==
  ASSUME NEW c, NEW v, Respetan(c, v), NEW s, Ajena(s), NEW prio
  PROVE  Respetan(c, AgregarNivel(v, s, prio))
<1> DEFINE u == AgregarNivel(v, s, prio)
<1>1. u \in NivelesDe(Hilos)
  BY AgregarNivelTipo DEF Respetan, Ajena
<1>2. ASSUME NEW l \in Prioridades PROVE Respeta(colas_multi_level[l], u[l])
  <2> DEFINE w == Filtrar(s, DePrioridad(prio, l))
             q == colas_multi_level[l]
  <2>1. u[l] = v[l] \o w /\ v[l] \in Seq(Hilos) /\ Respeta(q, v[l])
    BY DEF AgregarNivel, Respetan, NivelesDe
  <2>2. ONulo(Hilos) \cap DePrioridad(prio, l) \subseteq Hilos
    BY DEF DePrioridad
  <2>3. w \in Seq(Hilos) /\ ToSet(w) \subseteq ToSet(s)
    BY <2>2, FiltrarTipo, FiltrarSinRepetir DEF Ajena
  <2>4. DeCola(w) \cap DeCola(q) = {}
    <3>1. DeCola(q) \subseteq DeNiveles(colas_multi_level)
      BY DEF DeCola, DeNiveles
    <3>2. DeCola(w) \subseteq DeCola(s)
      BY <2>3 DEF DeCola
    <3> QED BY <3>1, <3>2 DEF Ajena
  <2> HIDE DEF w, q, u
  <2>5. Respeta(q, v[l] \o w)
    BY <2>1, <2>3, <2>4, RespetaConcat
  <2> QED BY <2>1, <2>5 DEF q
<1> HIDE DEF u
<1>3. Respetan(c, u)
  BY <1>1, <1>2 DEF Respetan
<1> QED BY <1>3 DEF u

\* agregar_hilo_a_ready for threads that come from elsewhere.
LEMMA RespetanAgregar ==
  ASSUME NEW c, NEW v, Respetan(c, v), NEW s, Ajena(s), NEW prio
  PROVE  Respetan(AgregarReady(c, s), AgregarNiveles(v, s, prio))
<1>1. CASE ALGORITMO = "CMN"
  BY <1>1, RespetanNivel DEF AgregarReady, AgregarNiveles
<1>2. CASE ALGORITMO # "CMN"
  <2>1. c \o s \in Seq(ONulo(Hilos)) /\ Respeta(cola_hilos_READY, c \o s)
    BY RespetaConcat DEF Respetan, Ajena
  <2>2. AgregarReady(c, s) = c \o s /\ AgregarNiveles(v, s, prio) = v
    BY <1>2 DEF AgregarReady, AgregarNiveles
  <2> QED BY <2>1, <2>2 DEF Respetan
<1> QED BY <1>1, <1>2

\* The queues as they are, without one thread, and without those of a process.
LEMMA RespetanBase ==
  ASSUME TipoListos
  PROVE  /\ Respetan(cola_hilos_READY, colas_multi_level)
         /\ \A h : Respetan(ReadySin(h), NivelesSin(h))
<1>1. Respetan(cola_hilos_READY, colas_multi_level)
  BY RespetaMisma DEF Respetan, TipoListos
<1>2. ASSUME NEW h PROVE Respetan(ReadySin(h), NivelesSin(h))
  <2>1. ReadySin(h) \in Seq(ONulo(Hilos)) /\ NivelesSin(h) \in NivelesDe(Hilos)
    BY SinListoTipo
  <2>2. Respeta(cola_hilos_READY, ReadySin(h))
    <3>1. Subcola(RemoveFirst(cola_hilos_READY, h), cola_hilos_READY)
      BY RemoveFirstSubcola DEF TipoListos
    <3>2. Respeta(cola_hilos_READY, RemoveFirst(cola_hilos_READY, h))
      BY <3>1, RespetaMisma, RespetaSubcola
    <3> QED BY <3>2, RespetaMisma DEF ReadySin
  <2>3. ASSUME NEW l \in Prioridades PROVE Respeta(colas_multi_level[l], NivelesSin(h)[l])
    <3> DEFINE q == colas_multi_level[l]
    <3>1. q \in Seq(Hilos)
      BY DEF TipoListos, NivelesDe
    <3>2. NivelesSin(h)[l] \in {q, RemoveFirst(q, h)}
      BY DEF NivelesSin
    <3> HIDE DEF q
    <3>3. Subcola(RemoveFirst(q, h), q)
      BY <3>1, RemoveFirstSubcola
    <3>4. Respeta(q, RemoveFirst(q, h))
      BY <3>3, RespetaMisma, RespetaSubcola
    <3>5. Respeta(q, NivelesSin(h)[l])
      BY <3>2, <3>4, RespetaMisma
    <3> QED BY <3>5 DEF q
  <2> QED BY <2>1, <2>2, <2>3 DEF Respetan
<1> QED BY <1>1, <1>2

LEMMA RespetanSinProceso ==
  ASSUME TipoListos, TipoEspera, InvLugares, NEW pid
  PROVE  Respetan(ReadySinProceso(pid), NivelesSinProceso(pid))
<1>1. ReadySinProceso(pid) \in Seq(ONulo(Hilos)) /\ NivelesSinProceso(pid) \in NivelesDe(Hilos)
  BY SinProcesoLugar DEF InvLugares
<1>2. Respeta(cola_hilos_READY, ReadySinProceso(pid))
  <2>1. CASE ALGORITMO = "CMN"
    BY <2>1, RespetaMisma DEF ReadySinProceso
  <2>2. CASE ALGORITMO # "CMN"
    <3> DEFINE s == cola_hilos_READY
               t == Filtrar(s, (Hilos \cup {Nadie}) \ Terminan(pid))
               w == [n \in 1 .. Cardinality(Nulos(pid)) |-> Nadie]
    <3>1. s \in Seq(ONulo(Hilos)) /\ ONulo(Hilos) \cap ((Hilos \cup {Nadie}) \ Terminan(pid)) \subseteq ONulo(Hilos)
      BY DEF TipoListos
    <3>2. ReadySinProceso(pid) = t \o w
      BY <2>2 DEF ReadySinProceso
    <3>3. t \in Seq(ONulo(Hilos)) /\ Subcola(t, s)
      BY <3>1, FiltrarTipo, FiltrarSubcola
    <3>4. w \in Seq(ONulo(Hilos)) /\ DeCola(w) = {}
      <4>1. Cardinality(Nulos(pid)) \in Nat
        BY NulosFinitos
      <4>2. w \in Seq(ONulo(Hilos)) /\ \A i \in DOMAIN w : w[i] = Nadie
        BY <4>1 DEF ONulo
      <4> QED BY <4>2, ConstantesDelKernel DEF DeCola, ToSet
    <3> HIDE DEF t, w
    <3>5. Respeta(s, t)
      BY <3>3, RespetaMisma, RespetaSubcola
    <3>6. DeCola(w) \cap DeCola(s) = {}
      BY <3>4
    <3> HIDE DEF s
    <3>7. Respeta(s, t \o w)
      BY <3>3, <3>4, <3>5, <3>6, RespetaConcat
    <3> QED BY <3>2, <3>7 DEF s
  <2> QED BY <2>1, <2>2
<1>3. ASSUME NEW l \in Prioridades
      PROVE  Respeta(colas_multi_level[l], NivelesSinProceso(pid)[l])
  <2> DEFINE q == colas_multi_level[l]
             t == Filtrar(q, Hilos \ Terminan(pid))
  <2>1. q \in Seq(Hilos) /\ NivelesSinProceso(pid)[l] \in {q, t}
    BY DEF TipoListos, NivelesDe, NivelesSinProceso
  <2> HIDE DEF q
  <2>2. Subcola(t, q)
    BY <2>1, FiltrarSubcola
  <2> HIDE DEF t
  <2>3. Respeta(q, t) /\ Respeta(q, q)
    BY <2>2, RespetaMisma, RespetaSubcola
  <2>4. Respeta(q, NivelesSinProceso(pid)[l])
    BY <2>1, <2>3
  <2> QED BY <2>4 DEF q
<1> QED BY <1>1, <1>2, <1>3 DEF Respetan

\* A choice takes one thread out of one queue.
LEMMA ElegirRespeta ==
  ASSUME TipoTCB, NEW c, NEW v, Respetan(c, v), elegir_hilo(c, v)
  PROVE  /\ Respeta(cola_hilos_READY, cola_hilos_READY')
         /\ \A l \in Prioridades : Respeta(colas_multi_level[l], colas_multi_level'[l])
<1>1. c \in Seq(ONulo(Hilos)) /\ v \in NivelesDe(Hilos) /\ Respeta(cola_hilos_READY, c)
      /\ \A l \in Prioridades : Respeta(colas_multi_level[l], v[l])
  BY DEF Respetan
<1>2. CASE cola_hilos_READY' = c /\ colas_multi_level' = v
  BY <1>1, <1>2
<1>3. CASE /\ ALGORITMO # "CMN" /\ c # <<>> /\ ~EligeNulo(c)
           /\ LET i == IF ALGORITMO = "FIFO" THEN 1 ELSE Posicion(c)
              IN  hilo_EXEC' = c[i] /\ cola_hilos_READY' = RemoveAt(c, i)
           /\ colas_multi_level' = v
  <2>1. PICK i : i = (IF ALGORITMO = "FIFO" THEN 1 ELSE Posicion(c)) /\ cola_hilos_READY' = RemoveAt(c, i)
    BY <1>3
  <2>2. i \in 1 .. Len(c)
    <3>1. CASE ALGORITMO = "FIFO"
      BY <1>1, <1>3, <2>1, <3>1
    <3>2. CASE ALGORITMO # "FIFO"
      <4>1. Nadie \notin ToSet(c)
        BY <1>3, <3>2, ConstantesDelKernel DEF EligeNulo
      <4> QED BY <1>1, <1>3, <2>1, <3>2, <4>1, PosicionTipo DEF TipoTCB
    <3> QED BY <3>1, <3>2
  <2>3. Subcola(RemoveAt(c, i), c)
    BY <1>1, <2>2, RemoveAtSubcola
  <2>4. Respeta(cola_hilos_READY, RemoveAt(c, i))
    BY <1>1, <2>3, RespetaSubcola
  <2>5. Respeta(cola_hilos_READY, cola_hilos_READY')
    BY <2>1, <2>4
  <2> QED BY <1>1, <1>3, <2>5
<1>4. CASE /\ ALGORITMO = "CMN" /\ ~SinListos(c, v)
           /\ LET l == PrimerNivel(v) IN colas_multi_level' = [v EXCEPT ![l] = Tail(@)]
           /\ cola_hilos_READY' = c
  <2>1. PICK m : m = PrimerNivel(v) /\ colas_multi_level' = [v EXCEPT ![m] = Tail(@)]
    BY <1>4
  <2>2. m \in Prioridades /\ v[m] # <<>> /\ v[m] \in Seq(Hilos)
    <3>1. m \in Prioridades /\ v[m] # <<>>
      BY <1>4, <2>1, PrimerNivelTipo DEF SinListos
    <3> QED BY <1>1, <3>1 DEF NivelesDe
  <2>3. Subcola(Tail(v[m]), v[m])
    BY <2>2, TailSubcola
  <2>4. Respeta(colas_multi_level[m], Tail(v[m]))
    BY <1>1, <2>2, <2>3, RespetaSubcola
  <2>5. \A l \in Prioridades : colas_multi_level'[l] = IF l = m THEN Tail(v[m]) ELSE v[l]
    BY <1>1, <2>1, <2>2 DEF NivelesDe
  <2>6. \A l \in Prioridades : Respeta(colas_multi_level[l], colas_multi_level'[l])
    BY <1>1, <2>4, <2>5
  <2> QED BY <1>1, <1>4, <2>6
<1> QED BY <1>2, <1>3, <1>4 DEF elegir_hilo

\* A step leaves the ready queues in order, or chooses from queues that are.
Ordenado ==
  \E c, v :
    /\ Respetan(c, v)
    /\ \/ UNCHANGED hilo_EXEC /\ cola_hilos_READY' = c /\ colas_multi_level' = v
       \/ elegir_hilo(c, v) /\ UNCHANGED prioridad

\* The creation of a thread or of a process: those admitted were in NEW or are new.
LEMMA CreacionOrdenada ==
  ASSUME InvNEW, MismoLargo, InvLugares, ProcessCreate \/ ThreadCreate
  PROVE  Ordenado
<1>1. Tipos /\ TypeOK /\ Respetan(cola_hilos_READY, colas_multi_level) /\ cpu = "ejecuta"
  BY Partes, RespetanBase DEF InvNEW, Tipos, ProcessCreate, ThreadCreate, Peticion
<1>2. ASSUME NEW h \in SinCrear(prox_tid), NEW s \in Seq(ONulo(Hilos)),
             DeCola(s) \subseteq DeCola(cola_hilos_NEW) \cup {h},
             cola_hilos_READY' = AgregarReady(cola_hilos_READY, s),
             colas_multi_level' = AgregarNiveles(colas_multi_level, s, prioridad'),
             UNCHANGED hilo_EXEC
      PROVE  Ordenado
  <2>1. Ajena(s)
    BY <1>2 DEF Ajena, InvLugares, LugaresAjenos, Ajenos
  <2>2. Respetan(cola_hilos_READY', colas_multi_level')
    BY <1>1, <1>2, <2>1, RespetanAgregar
  <2> QED BY <1>2, <2>2 DEF Ordenado
<1>3. CASE ProcessCreate
  <2> DEFINE p0 == proximo_pid
             h == <<p0, 0>>
             ps == Append(cola_procesos_NEW, p0)
             hs == Append(cola_hilos_NEW, h)
  <2> PICK prio \in Prioridades : crear_proceso(prio)
    BY <1>3 DEF ProcessCreate
  <2>1. p0 \in PIDs /\ h \in Hilos
    BY ConstantesDelKernel DEF crear_proceso, Hilos, TIDs
  <2> PICK k \in IF Len(ps) = 1 THEN {0, 1} ELSE {0} :
          /\ cola_hilos_READY' = AgregarReady(cola_hilos_READY, SubSeq(hs, 1, k))
          /\ colas_multi_level' = AgregarNiveles(colas_multi_level, SubSeq(hs, 1, k), prioridad')
    BY DEF crear_proceso
  <2>2. UNCHANGED hilo_EXEC
    BY DEF crear_proceso, SigueElMismo
  <2>3. h \in SinCrear(prox_tid)
    BY <2>1 DEF InvLugares, SinTIDs, SinCrear, PIDs
  <2> DEFINE a == SubSeq(hs, 1, k)
  <2>4. cola_hilos_NEW \in Seq(Hilos) /\ cola_procesos_NEW \in Seq(PIDs)
    BY <1>1 DEF Tipos, TipoNEW
  <2>5. k \in 0 .. Len(hs)
    BY <2>4
  <2> HIDE DEF h, p0
  <2>6. hs \in Seq(Hilos) /\ ToSet(hs) = ToSet(cola_hilos_NEW) \cup {h}
    BY <2>1, <2>4, AppendLugar
  <2>7. Subcola(a, hs) /\ a \in Seq(Hilos)
    <3> HIDE DEF hs
    <3> QED BY <2>5, <2>6, SubSeqSubcola, SubSeqTipo
  <2> HIDE DEF a, hs
  <2>8. ToSet(a) \subseteq ToSet(hs)
    BY <2>6, <2>7, SubcolaHereda
  <2>9. a \in Seq(ONulo(Hilos)) /\ DeCola(a) \subseteq DeCola(cola_hilos_NEW) \cup {h}
    BY <2>6, <2>7, <2>8, HilosNulos DEF DeCola
  <2>10. cola_hilos_READY' = AgregarReady(cola_hilos_READY, a)
         /\ colas_multi_level' = AgregarNiveles(colas_multi_level, a, prioridad')
    BY DEF a, hs
  <2> QED BY <1>2, <2>2, <2>3, <2>9, <2>10
<1>4. CASE ThreadCreate
  <2> PICK prio \in Prioridades : crear_hilo(prio)
    BY <1>4 DEF ThreadCreate
  <2>1. PICK h \in Hilos : \E s \in {<<h>>, <<>>} :
          /\ h = <<hilo_EXEC[1], prox_tid[hilo_EXEC[1]]>>
          /\ cola_hilos_READY' = AgregarReady(cola_hilos_READY, s)
          /\ colas_multi_level' = AgregarNiveles(colas_multi_level, s, prioridad')
    BY <1>1, CrearHiloNEW
  <2>2. PICK s \in {<<h>>, <<>>} :
          /\ cola_hilos_READY' = AgregarReady(cola_hilos_READY, s)
          /\ colas_multi_level' = AgregarNiveles(colas_multi_level, s, prioridad')
    BY <2>1
  <2>3. UNCHANGED hilo_EXEC /\ h = <<hilo_EXEC[1], prox_tid[hilo_EXEC[1]]>>
    BY <2>1 DEF crear_hilo, SigueElMismo
  <2>4. h \in SinCrear(prox_tid)
    <3>1. h[1] = hilo_EXEC[1] /\ h[2] = prox_tid[h[1]] /\ h[1] \in PIDs /\ h[2] \in Int
      BY <2>3, ConstantesDelKernel DEF Hilos, TIDs
    <3> QED BY <3>1 DEF SinCrear
  <2>5. s \in Seq(ONulo(Hilos)) /\ DeCola(s) \subseteq {h}
    <3>1. CASE s = <<h>>
      BY <3>1, UnSoloHilo DEF ONulo, DeHilo
    <3>2. CASE s = <<>>
      BY <3>2, NingunHilo
    <3> QED BY <3>1, <3>2
  <2> QED BY <1>2, <2>2, <2>3, <2>4, <2>5
<1> QED BY <1>3, <1>4

\* The end of a thread: those it wakes were blocked.
LEMMA FinOrdenado ==
  ASSUME TypeOK, InvLugares, cpu = "ejecuta", NEW tid \in TIDs, finalizar_hilo(tid)
  PROVE  Ordenado
<1> DEFINE h == <<hilo_EXEC[1], tid>>
           ds == Despertados(h)
           c == AgregarReady(ReadySin(h), ds)
           v == AgregarNiveles(NivelesSin(h), ds, prioridad)
<1>1. Tipos /\ h \in Hilos
  BY Partes, EjecutaHilo DEF Tipos, Hilos
<1>2. Respetan(cola_hilos_READY, colas_multi_level) /\ Respetan(ReadySin(h), NivelesSin(h))
  BY <1>1, RespetanBase DEF Tipos
<1>3. \/ UNCHANGED <<hilo_EXEC, listos>>
      \/ /\ \/ elegir_hilo(c, v)
            \/ UNCHANGED hilo_EXEC /\ cola_hilos_READY' = c /\ colas_multi_level' = v
         /\ UNCHANGED prioridad
         /\ hilos_bloqueados' = [hilos_bloqueados EXCEPT ![h] = NoVisitados(@)]
  BY DEF finalizar_hilo, SigueElMismo, Cae, tcbs
<1> HIDE DEF h
<1>4. CASE UNCHANGED <<hilo_EXEC, listos>>
  BY <1>2, <1>4 DEF listos, Ordenado
<1>5. CASE hilos_bloqueados' = [hilos_bloqueados EXCEPT ![h] = NoVisitados(@)]
  <2>1. ds \in Seq(ONulo(Hilos))
    BY <1>1, DespertadosTipo DEF Tipos
  <2>2. \A d \in DeCola(ds) : EnBlock(d)
    BY <1>1, <1>5, DespertadosLugar DEF InvLugares, Tipos
  <2>3. \A d \in Hilos : EnBlock(d) => d \in cola_hilos_BLOCK \cup Esperan(mutexs)
    BY DEF EnBlock, EnEspera, Creados, Esperan
  <2>4. DeCola(ds) \subseteq cola_hilos_BLOCK \cup Esperan(mutexs)
    BY <2>2, <2>3 DEF DeCola
  <2>5. Ajena(ds)
    BY <2>1, <2>4 DEF Ajena, InvLugares, LugaresAjenos, Ajenos
  <2>6. Respetan(c, v)
    BY <1>2, <2>5, RespetanAgregar
  <2> HIDE DEF c, v
  <2> QED BY <1>2, <1>3, <1>4, <2>6 DEF Ordenado
<1> QED BY <1>3, <1>4, <1>5

\* The end of a process: those admitted were in NEW.
LEMMA FinProcesoOrdenado ==
  ASSUME TypeOK, MismoLargo, InvLugares, finalizar_proceso
  PROVE  Ordenado
<1> DEFINE pid == hilo_EXEC[1]
           c(k) == AgregarReady(ReadySinProceso(pid), SubSeq(cola_hilos_NEW, 1, k))
           v(k) == AgregarNiveles(NivelesSinProceso(pid), SubSeq(cola_hilos_NEW, 1, k), prioridad)
<1>1. Tipos
  BY Partes
<1>2. \/ UNCHANGED <<hilo_EXEC, listos>>
      \/ /\ \E k \in 0 .. Len(cola_procesos_NEW) : elegir_hilo(c(k), v(k))
         /\ UNCHANGED prioridad
  BY DEF finalizar_proceso, Cae, tcbs
<1>3. CASE UNCHANGED <<hilo_EXEC, listos>>
  BY <1>1, <1>3, RespetanBase DEF listos, Ordenado, Tipos
<1>4. ASSUME NEW k \in 0 .. Len(cola_procesos_NEW), elegir_hilo(c(k), v(k)), UNCHANGED prioridad
      PROVE  Ordenado
  <2> DEFINE a == SubSeq(cola_hilos_NEW, 1, k)
  <2>1. cola_hilos_NEW \in Seq(Hilos) /\ k \in 0 .. Len(cola_hilos_NEW) /\ UnaVez(cola_hilos_NEW, Hilos)
    BY <1>1 DEF Tipos, TipoNEW, MismoLargo, InvLugares
  <2>2. a \in Seq(ONulo(Hilos)) /\ DeCola(a) \subseteq DeCola(cola_hilos_NEW)
    BY <2>1, AdmitirLugar
  <2>3. Ajena(a)
    BY <2>2 DEF Ajena, InvLugares, LugaresAjenos, Ajenos
  <2>4. Respetan(ReadySinProceso(pid), NivelesSinProceso(pid))
    BY <1>1, RespetanSinProceso DEF Tipos
  <2>5. Respetan(c(k), v(k))
    BY <2>3, <2>4, RespetanAgregar
  <2> HIDE DEF c, v
  <2> QED BY <1>4, <2>5 DEF Ordenado
<1> QED BY <1>2, <1>3, <1>4

\* Every request leaves the queues in order.
LEMMA PasoOrdenado ==
  ASSUME InvNEW, MismoLargo, InvLugares, Next
  PROVE  Ordenado
<1> USE DEF Peticion
<1>1. TypeOK /\ Tipos
  BY Partes DEF InvNEW
<1>2. Respetan(cola_hilos_READY, colas_multi_level)
  BY <1>1, RespetanBase DEF Tipos
<1>3. CASE ProcessCreate \/ ThreadCreate
  BY <1>3, CreacionOrdenada
<1>4. CASE UNCHANGED <<hilo_EXEC, listos>>
  BY <1>2, <1>4 DEF listos, Ordenado
<1>5. CASE elegir_hilo(cola_hilos_READY, colas_multi_level) /\ UNCHANGED prioridad
  BY <1>2, <1>5 DEF Ordenado
<1>6. CASE ThreadJoin
  BY <1>4, <1>5, <1>6 DEF ThreadJoin, bloquear_hilo_por_thread_join, SigueElMismo, Cae, tcbs
<1>7. CASE ThreadCancel \/ ThreadExit
  <2>1. hilo_EXEC[2] \in TIDs /\ cpu = "ejecuta"
    BY <1>1, <1>7, EjecutaHilo DEF ThreadCancel, ThreadExit, Tipos
  <2> QED BY <1>1, <1>7, <2>1, FinOrdenado DEF ThreadCancel, ThreadExit
<1>8. CASE ProcessExit \/ SegmentationFault
  BY <1>1, <1>8, FinProcesoOrdenado DEF ProcessExit, SegmentationFault
<1>9. CASE MutexCreate
  BY <1>4, <1>9 DEF MutexCreate, crear_mutex, SigueElMismo
<1>10. CASE MutexLock
  BY <1>4, <1>5, <1>10 DEF MutexLock, bloquear_mutex, RecursoInexistente, SigueElMismo, tcbs
<1>11. CASE MutexUnlock
  <2> PICK n \in Nombres : desbloquear_mutex(n)
    BY <1>11 DEF MutexUnlock
  <2> DEFINE pid == hilo_EXEC[1]
             m == mutexs[pid][n]
             s == IF m.espera = <<>> THEN <<>> ELSE <<Head(m.espera)>>
  <2>1. \/ elegir_hilo(cola_hilos_READY, colas_multi_level) /\ UNCHANGED prioridad
        \/ UNCHANGED <<hilo_EXEC, listos>>
        \/ /\ n \in Creados(pid)
           /\ colas_multi_level' = AgregarNivel(colas_multi_level, s, prioridad)
           /\ UNCHANGED <<hilo_EXEC, cola_hilos_READY>>
    BY DEF desbloquear_mutex, RecursoInexistente, SigueElMismo, tcbs
  <2>2. CASE /\ n \in Creados(pid)
             /\ colas_multi_level' = AgregarNivel(colas_multi_level, s, prioridad)
             /\ UNCHANGED <<hilo_EXEC, cola_hilos_READY>>
    <3>1. pid \in PIDs
      BY <1>1, <1>11, EjecutaHilo DEF MutexUnlock, Tipos
    <3>2. /\ m.espera \in Seq(Hilos) /\ EsperanEn(mutexs, pid, n) = ToSet(m.espera)
          /\ EsperanEn(mutexs, pid, n) \subseteq Esperan(mutexs)
      BY <1>1, <2>2, <3>1, MutexLugar DEF Tipos, InvLugares
    <3> HIDE DEF m
    <3>3. s \in Seq(ONulo(Hilos)) /\ DeCola(s) \subseteq Esperan(mutexs)
      <4>1. CASE m.espera = <<>>
        BY <4>1, NingunHilo
      <4>2. CASE m.espera # <<>>
        <5>1. Head(m.espera) \in ToSet(m.espera) /\ Head(m.espera) \in Hilos
          BY <3>2, <4>2, PrimeroYResto
        <5> QED BY <3>2, <4>2, <5>1, UnSoloHilo DEF ONulo, DeHilo
      <4> QED BY <4>1, <4>2
    <3> HIDE DEF s
    <3>4. Ajena(s)
      BY <3>3 DEF Ajena, InvLugares, LugaresAjenos, Ajenos
    <3>5. Respetan(cola_hilos_READY', colas_multi_level')
      BY <1>2, <2>2, <3>4, RespetanNivel
    <3> QED BY <2>2, <3>5 DEF Ordenado
  <2> QED BY <1>4, <1>5, <2>1, <2>2
<1>12. CASE FinQuantum
  <2> DEFINE s == <<hilo_EXEC>>
             v == AgregarNivel(colas_multi_level, s, prioridad)
  <2>1. elegir_hilo(cola_hilos_READY, v) /\ UNCHANGED prioridad
    BY <1>12 DEF FinQuantum, cambiar_hilo_exec_fin_Q, tcbs
  <2>2. hilo_EXEC \in Hilos /\ hilo_EXEC \notin DeCola(cola_hilos_READY) \cup DeNiveles(colas_multi_level)
    BY <1>1, <1>12, EjecutaLugar DEF FinQuantum, Tipos
  <2>3. s \in Seq(ONulo(Hilos)) /\ DeCola(s) = {hilo_EXEC}
    BY <2>2, UnSoloHilo DEF ONulo, DeHilo
  <2>4. Ajena(s)
    BY <2>2, <2>3 DEF Ajena
  <2> HIDE DEF s
  <2>5. Respetan(cola_hilos_READY, v)
    BY <1>2, <2>4, RespetanNivel
  <2> HIDE DEF v
  <2> QED BY <2>1, <2>5 DEF Ordenado
<1> QED BY <1>3, <1>6, <1>7, <1>8, <1>9, <1>10, <1>11, <1>12 DEF Next

\* The thread the choice of PRIORIDADES takes is the best of those it chose from, and the
\* first of the best.
LEMMA ElegirMejor ==
  ASSUME TipoTCB, ALGORITMO = "PRIORIDADES", NEW c, NEW v, Respetan(c, v), elegir_hilo(c, v),
         hilo_EXEC' # Nadie, NEW h \in Hilos, h \in ToSet(cola_hilos_READY')
  PROVE  /\ hilo_EXEC' \in Hilos
         /\ \/ prioridad[hilo_EXEC'] < prioridad[h]
            \/ prioridad[hilo_EXEC'] = prioridad[h] /\ Antes(c, hilo_EXEC', h)
<1>1. /\ ALGORITMO # "CMN" /\ c # <<>> /\ ~EligeNulo(c)
      /\ hilo_EXEC' = c[Posicion(c)] /\ cola_hilos_READY' = RemoveAt(c, Posicion(c))
  BY DEF elegir_hilo, CpuLibre
<1>2. PICK p : p = Posicion(c)
  OBVIOUS
<1>3. Nadie \notin ToSet(c) /\ c \in Seq(ONulo(Hilos)) /\ Len(c) \in Nat
  BY <1>1 DEF EligeNulo, Respetan
<1>4. /\ p \in 1 .. Len(c)
      /\ \A k \in 1 .. Len(c) : \/ prioridad[c[p]] < prioridad[c[k]]
                                \/ prioridad[c[p]] = prioridad[c[k]] /\ p <= k
  BY <1>1, <1>2, <1>3, PosicionMejor DEF TipoTCB
<1>5. hilo_EXEC' = c[p] /\ h \in ToSet(RemoveAt(c, p))
  BY <1>1, <1>2
<1>6. c[p] \in Hilos
  BY <1>3, <1>4 DEF ToSet, ONulo
<1>7. /\ Len(RemoveAt(c, p)) = Len(c) - 1 /\ RemoveAt(c, p) \in Seq(ONulo(Hilos))
      /\ \A n \in 1 .. Len(c) - 1 : RemoveAt(c, p)[n] = IF n < p THEN c[n] ELSE c[n + 1]
  BY <1>3, <1>4, RemoveAtEn
<1>8. PICK n \in 1 .. Len(c) - 1 : h = IF n < p THEN c[n] ELSE c[n + 1]
  <2>1. DOMAIN RemoveAt(c, p) = 1 .. Len(c) - 1
    BY <1>7
  <2> QED BY <1>5, <1>7, <2>1 DEF ToSet
<1>9. PICK k \in 1 .. Len(c) : k # p /\ h = c[k]
  <2>1. CASE n < p
    <3>1. n \in 1 .. Len(c) /\ n # p /\ h = c[n]
      BY <1>3, <1>8, <2>1
    <3> QED BY <3>1
  <2>2. CASE ~(n < p)
    <3>1. n + 1 \in 1 .. Len(c) /\ n + 1 # p /\ h = c[n + 1]
      BY <1>3, <1>4, <1>8, <2>2
    <3> QED BY <3>1
  <2> QED BY <2>1, <2>2
<1>10. \/ prioridad[c[p]] < prioridad[h]
       \/ prioridad[c[p]] = prioridad[h] /\ p <= k
  BY <1>4, <1>9
<1>11. p <= k => Antes(c, c[p], h)
  <2>1. p <= k => p < k
    BY <1>4, <1>9
  <2>2. p \in DOMAIN c /\ k \in DOMAIN c
    BY <1>3, <1>4
  <2> QED BY <1>9, <2>1, <2>2 DEF Antes
<1> QED BY <1>5, <1>6, <1>10, <1>11

\* A queue that holds nobody twice has one order.
LEMMA UnOrden ==
  ASSUME NEW T, NEW s \in Seq(T), UnaVez(s, Hilos), NEW a \in Hilos, NEW b \in Hilos,
         Antes(s, a, b), Antes(s, b, a)
  PROVE  FALSE
<1>1. PICK i, j \in DOMAIN s : i < j /\ s[i] = a /\ s[j] = b
  BY DEF Antes
<1>2. PICK k, m \in DOMAIN s : k < m /\ s[k] = b /\ s[m] = a
  BY DEF Antes
<1>3. i = m /\ j = k
  BY <1>1, <1>2 DEF UnaVez
<1>4. i \in Int /\ j \in Int
  BY <1>1
<1> QED BY <1>1, <1>2, <1>3, <1>4

\* The invariant of both theorems.
InvOrden == InvNEW /\ MismoLargo /\ InvLugares

LEMMA InvOrdenSiempre == (Init => InvOrden) /\ (InvOrden /\ [Next]_vars => InvOrden')
BY InitInv, InitLugares, NextInv, NextLugares DEF InvOrden

\* Nobody gets in front of a thread that waits in a ready queue: a thread created, admitted,
\* woken, unlocked or preempted joins at the end, and nothing that leaves changes the order of
\* the rest.
THEOREM SinAdelantarseSiempre == Spec => SinAdelantarse
<1> DEFINE Paso == \A a, b \in Hilos :
             /\ b \in ToSet(cola_hilos_READY) /\ Antes(cola_hilos_READY', a, b)
                  => Antes(cola_hilos_READY, a, b)
             /\ \A l \in Prioridades :
                  b \in ToSet(colas_multi_level[l]) /\ Antes(colas_multi_level'[l], a, b)
                    => Antes(colas_multi_level[l], a, b)
<1>1. InvOrden /\ [Next]_vars => [Paso]_vars
  <2> SUFFICES ASSUME InvOrden, Next PROVE Paso
    OBVIOUS
  <2>1. PICK c, v :
          /\ Respetan(c, v)
          /\ \/ UNCHANGED hilo_EXEC /\ cola_hilos_READY' = c /\ colas_multi_level' = v
             \/ elegir_hilo(c, v) /\ UNCHANGED prioridad
    BY PasoOrdenado DEF InvOrden, Ordenado
  <2>2. TipoTCB
    BY Partes DEF InvOrden, InvNEW, Tipos
  <2>3. /\ Respeta(cola_hilos_READY, cola_hilos_READY')
        /\ \A l \in Prioridades : Respeta(colas_multi_level[l], colas_multi_level'[l])
    BY <2>1, <2>2, ElegirRespeta DEF Respetan
  <2> QED BY <2>3 DEF Respeta
<1> HIDE DEF Paso
<1>2. Spec => [][Paso]_vars
  BY <1>1, InvOrdenSiempre, PTL DEF Spec
<1> QED BY <1>2 DEF SinAdelantarse, Paso

\* With PRIORIDADES, the thread elected has the best priority among those left ready, and none
\* of its priority was waiting before it.
THEOREM EleccionSiempre ==
  ASSUME ALGORITMO = "PRIORIDADES"
  PROVE  Spec => EleccionPorPrioridad
<1> DEFINE Paso == hilo_EXEC' \notin {hilo_EXEC, Nadie} =>
             \A h \in Hilos \cap ToSet(cola_hilos_READY') :
               \/ prioridad[hilo_EXEC'] < prioridad[h]
               \/ /\ prioridad[hilo_EXEC'] = prioridad[h]
                  /\ ~Antes(cola_hilos_READY, h, hilo_EXEC')
<1>1. InvOrden /\ [Next]_vars => [Paso]_vars
  <2> SUFFICES ASSUME InvOrden, Next, hilo_EXEC' # hilo_EXEC, hilo_EXEC' # Nadie,
                      NEW h \in Hilos, h \in ToSet(cola_hilos_READY')
               PROVE  \/ prioridad[hilo_EXEC'] < prioridad[h]
                      \/ /\ prioridad[hilo_EXEC'] = prioridad[h]
                         /\ ~Antes(cola_hilos_READY, h, hilo_EXEC')
    OBVIOUS
  <2>1. PICK c, v : Respetan(c, v) /\ elegir_hilo(c, v)
    BY PasoOrdenado DEF InvOrden, Ordenado
  <2>2. TipoTCB /\ cola_hilos_READY \in Seq(ONulo(Hilos)) /\ UnaVez(cola_hilos_READY, Hilos)
    BY Partes DEF InvOrden, InvNEW, Tipos, TipoListos, InvLugares
  <2>3. /\ hilo_EXEC' \in Hilos
        /\ \/ prioridad[hilo_EXEC'] < prioridad[h]
           \/ prioridad[hilo_EXEC'] = prioridad[h] /\ Antes(c, hilo_EXEC', h)
    BY <2>1, <2>2, ElegirMejor
  <2>4. PICK e \in Hilos : e = hilo_EXEC'
    BY <2>3
  <2>5. ASSUME Antes(c, e, h), Antes(cola_hilos_READY, h, e)
        PROVE  FALSE
    <3>1. h \in ToSet(cola_hilos_READY)
      BY <2>5 DEF Antes, ToSet
    <3>2. Antes(cola_hilos_READY, e, h)
      BY <2>1, <2>5, <3>1 DEF Respetan, Respeta
    <3> QED BY <2>2, <2>5, <3>2, UnOrden
  <2> QED BY <2>3, <2>4, <2>5
<1> HIDE DEF Paso
<1>2. Spec => [][Paso]_vars
  BY <1>1, InvOrdenSiempre, PTL DEF Spec
<1> QED BY <1>2 DEF EleccionPorPrioridad, Paso
=============================================================================
