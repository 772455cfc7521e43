------------------------ MODULE KernelLugaresProofs -------------------------
(***************************************************************************)
(* Each TCB of the kernel is in one place at most, each queue holds it     *)
(* once, and each joiner is noted once.                                    *)
(*                                                                         *)
(* The handlers move TCBs between queues by hand, and take a thread that   *)
(* ends or is cancelled from wherever they find it. So the invariant is    *)
(* about all the places at once: nine sets with no element in common       *)
(* (Ajenos), the first being the threads that have not been created.       *)
(* Without it a TID handed out could already be in a queue. Each handler   *)
(* gives and takes from a few of them, and what it may take from where     *)
(* (Mueve, Conserva) is what the life cycle is proved from.                *)
(***************************************************************************)
EXTENDS KernelProofs

-----------------------------------------------------------------------------
(* Who is in each place *)

DeCola(cola)       == Hilos \cap ToSet(cola)
DeNiveles(niveles) == {h \in Hilos : \E l \in Prioridades : h \in ToSet(niveles[l])}
DeHilo(h)          == Hilos \cap {h}
SinCrear(tids)     == {h \in Hilos : h[2] >= tids[h[1]]}
Esperan(ms) ==
  {h \in Hilos : \E n \in Nombres : ms[h[1]][n] # Nadie /\ h \in ToSet(ms[h[1]][n].espera)}

\* Nine sets with no element in common: the threads that have not been created, those
\* of NEW, of READY, of the levels, the one that runs, the threads blocked by a join, those
\* that wait for a mutex, those of EXIT and those freed.
Ajenos(c, n, r, v, e, b, w, x, l) ==
  /\ c \cap (n \cup r \cup v \cup e \cup b \cup w \cup x \cup l) = {}
  /\ n \cap (r \cup v \cup e \cup b \cup w \cup x \cup l) = {}
  /\ r \cap (v \cup e \cup b \cup w \cup x \cup l) = {}
  /\ v \cap (e \cup b \cup w \cup x \cup l) = {}
  /\ e \cap (b \cup w \cup x \cup l) = {}
  /\ b \cap (w \cup x \cup l) = {}
  /\ w \cap (x \cup l) = {}
  /\ x \cap l = {}

LugaresAjenos ==
  Ajenos(SinCrear(prox_tid), DeCola(cola_hilos_NEW), DeCola(cola_hilos_READY),
         DeNiveles(colas_multi_level), DeHilo(hilo_EXEC), cola_hilos_BLOCK,
         Esperan(mutexs), cola_hilos_EXIT, liberados)

\* A thread of a level has its priority and is there once.
NivelesBien(niveles, prio) ==
  \A l \in Prioridades :
    UnaVez(niveles[l], Hilos) /\ \A h \in ToSet(niveles[l]) : prio[h] = l

\* A thread waits for one mutex, of its process, and once.
EsperaBien(ms) ==
  \A p \in PIDs : \A n \in Nombres :
    ms[p][n] # Nadie =>
      /\ UnaVez(ms[p][n].espera, Hilos)
      /\ \A h \in ToSet(ms[p][n].espera) : h[1] = p
      /\ \A m \in Nombres : ms[p][m] # Nadie /\ m # n =>
           ToSet(ms[p][n].espera) \cap ToSet(ms[p][m].espera) = {}

\* The TCB that the i-th joiner of g was.
Anotado(bloqueados, g, i) == <<g[1], bloqueados[g][i]>>

\* The joiners of all the threads.
Anotados(bloqueados) ==
  {h \in Hilos : \E g \in Hilos : \E i \in DOMAIN bloqueados[g] : h = Anotado(bloqueados, g, i)}

\* A joiner is noted once.
AnotadosUnaVez(bloqueados) ==
  \A g, k \in Hilos : \A i \in DOMAIN bloqueados[g] : \A j \in DOMAIN bloqueados[k] :
    Anotado(bloqueados, g, i) = Anotado(bloqueados, k, j) => g = k /\ i = j

\* The places where a joiner is not: it is blocked, or has ended.
NoBloqueados ==
  SinCrear(prox_tid) \cup DeCola(cola_hilos_NEW) \cup DeCola(cola_hilos_READY)
    \cup DeNiveles(colas_multi_level) \cup DeHilo(hilo_EXEC) \cup Esperan(mutexs)

\* A process that was not created has handed out no TID.
SinTIDs(pid, tids) == \A p \in PIDs : p >= pid => tids[p] = 0

InvLugares ==
  /\ LugaresAjenos
  /\ UnaVez(cola_hilos_NEW, Hilos)
  /\ UnaVez(cola_hilos_READY, Hilos)
  /\ NivelesBien(colas_multi_level, prioridad)
  /\ EsperaBien(mutexs)
  /\ Anotados(hilos_bloqueados) \cap NoBloqueados = {}
  /\ AnotadosUnaVez(hilos_bloqueados)
  /\ SinTIDs(proximo_pid, prox_tid)

\* The threads that are ready, those that are blocked, and all that the kernel can still find.
Listos     == DeCola(cola_hilos_READY) \cup DeNiveles(colas_multi_level)
Bloqueados == cola_hilos_BLOCK \cup Esperan(mutexs)
EnCurso    == DeHilo(hilo_EXEC) \cup Listos \cup Bloqueados

\* Where a thread may come from in one step: nothing comes back from EXIT or from free(), only
\* the thread that runs blocks, only one that is ready, blocked or in NEW is elected, and NEW
\* loses a thread only to the ready queues.
Mueve ==
  /\ DeHilo(hilo_EXEC') \subseteq EnCurso \cup DeCola(cola_hilos_NEW)
  /\ DeCola(cola_hilos_NEW') \subseteq DeCola(cola_hilos_NEW) \cup SinCrear(prox_tid)
  /\ Listos' \subseteq EnCurso \cup DeCola(cola_hilos_NEW) \cup SinCrear(prox_tid)
  /\ Bloqueados' \subseteq Bloqueados \cup DeHilo(hilo_EXEC)
  /\ SinCrear(prox_tid') \subseteq SinCrear(prox_tid)
  /\ DeCola(cola_hilos_NEW) \subseteq DeCola(cola_hilos_NEW') \cup Listos' \cup DeHilo(hilo_EXEC')

\* A thread that a join may wait for stays where the kernel finds it, or leaves the list.
Conserva ==
  /\ lista_hilos' \cap EnCurso \subseteq EnCurso'
  /\ lista_hilos' \subseteq lista_hilos \cup EnCurso'

-----------------------------------------------------------------------------
(* The queues *)

\* A choice takes one thread, at most, from the queues: it was in one of them and is in none.
LEMMA ElegirLugar ==
  ASSUME NEW cola \in Seq(ONulo(Hilos)), NEW niveles \in NivelesDe(Hilos), TipoTCB, TipoCPU,
         elegir_hilo(cola, niveles),
         UnaVez(cola, Hilos), NivelesBien(niveles, prioridad),
         DeCola(cola) \cap DeNiveles(niveles) = {}
  PROVE  /\ Subcola(cola_hilos_READY', cola)
         /\ \A l \in Prioridades : Subcola(colas_multi_level'[l], niveles[l])
         /\ UnaVez(cola_hilos_READY', Hilos) /\ NivelesBien(colas_multi_level', prioridad)
         /\ DeCola(cola_hilos_READY') \subseteq DeCola(cola)
         /\ DeNiveles(colas_multi_level') \subseteq DeNiveles(niveles)
         /\ DeHilo(hilo_EXEC') \subseteq DeCola(cola) \cup DeNiveles(niveles)
         /\ DeHilo(hilo_EXEC') \cap DeCola(cola_hilos_READY') = {}
         /\ DeHilo(hilo_EXEC') \cap DeNiveles(colas_multi_level') = {}
         /\ DeCola(cola) \cup DeNiveles(niveles)
              \subseteq DeCola(cola_hilos_READY') \cup DeNiveles(colas_multi_level')
                          \cup DeHilo(hilo_EXEC')
<1>0. \A l \in Prioridades : niveles[l] \in Seq(Hilos)
  BY DEF NivelesDe
<1>1. CASE hilo_EXEC' = Nadie /\ cola_hilos_READY' = cola /\ colas_multi_level' = niveles
  <2>1. DeHilo(hilo_EXEC') = {}
    BY <1>1, ConstantesDelKernel DEF DeHilo
  <2> QED BY <1>1, <2>1, SubcolaMisma
<1>2. CASE /\ ALGORITMO # "CMN" /\ cola # <<>> /\ ~EligeNulo(cola)
           /\ LET i == IF ALGORITMO = "FIFO" THEN 1 ELSE Posicion(cola)
              IN  hilo_EXEC' = cola[i] /\ cola_hilos_READY' = RemoveAt(cola, i)
           /\ colas_multi_level' = niveles
  <2> DEFINE i == IF ALGORITMO = "FIFO" THEN 1 ELSE Posicion(cola)
  <2>1. i \in 1 .. Len(cola)
    <3>1. CASE ALGORITMO = "FIFO"
      BY <1>2, <3>1
    <3>2. CASE ALGORITMO # "FIFO"
      <4>1. Nadie \notin ToSet(cola)
        BY <1>2, <3>2, ConstantesDelKernel DEF EligeNulo
      <4> QED BY <1>2, <3>2, <4>1, PosicionTipo DEF TipoTCB
    <3> QED BY <3>1, <3>2
  <2>2. hilo_EXEC' = cola[i] /\ cola_hilos_READY' = RemoveAt(cola, i)
    BY <1>2
  <2> HIDE DEF i
  <2> DEFINE t == RemoveAt(cola, i)
  <2>3. t \in Seq(ONulo(Hilos))
    BY <2>1, RemoveAtTipo
  <2>4. /\ Subcola(t, cola) /\ ToSet(cola) \ {cola[i]} \subseteq ToSet(t)
        /\ cola[i] \in Hilos => cola[i] \notin ToSet(t)
    BY <2>1, RemoveAtSubcola
  <2>5. cola[i] \in ToSet(cola)
    BY <2>1 DEF ToSet
  <2> HIDE DEF t
  <2>6. ToSet(t) \subseteq ToSet(cola) /\ UnaVez(t, Hilos)
    BY <2>3, <2>4, SubcolaHereda
  <2>7. /\ DeCola(t) \subseteq DeCola(cola) /\ DeHilo(cola[i]) \subseteq DeCola(cola)
        /\ DeHilo(cola[i]) \cap DeCola(t) = {} /\ DeCola(cola) \subseteq DeCola(t) \cup DeHilo(cola[i])
    BY <2>4, <2>5, <2>6 DEF DeCola, DeHilo
  <2>8. cola_hilos_READY' = t /\ hilo_EXEC' = cola[i] /\ colas_multi_level' = niveles
    BY <1>2, <2>2 DEF t
  <2>9. \A l \in Prioridades : Subcola(colas_multi_level'[l], niveles[l])
    BY <2>8, SubcolaMisma
  <2>10. DeHilo(cola[i]) \cap DeNiveles(niveles) = {}
    BY <2>7
  <2> QED BY <2>4, <2>6, <2>7, <2>8, <2>9, <2>10
<1>3. CASE /\ ALGORITMO = "CMN" /\ ~SinListos(cola, niveles)
           /\ LET l == PrimerNivel(niveles)
              IN  /\ hilo_EXEC' = Head(niveles[l])
                  /\ colas_multi_level' = [niveles EXCEPT ![l] = Tail(@)]
           /\ cola_hilos_READY' = cola
  <2> DEFINE l == PrimerNivel(niveles)
             s == niveles[l]
             t == Tail(s)
  <2>1. l \in Prioridades /\ s # <<>>
    BY <1>3, PrimerNivelTipo DEF SinListos
  <2>2. hilo_EXEC' = Head(s) /\ colas_multi_level' = [niveles EXCEPT ![l] = t]
    BY <1>3
  <2> HIDE DEF l
  <2>3. s \in Seq(Hilos)
    BY <1>0, <2>1
  <2>4. UnaVez(s, Hilos) /\ \A h \in ToSet(s) : prioridad[h] = l
    BY <2>1 DEF NivelesBien
  <2>a. niveles \in [Prioridades -> Seq(Hilos)]
    BY DEF NivelesDe
  <2>b. colas_multi_level'[l] = t
        /\ \A m \in Prioridades : m # l => colas_multi_level'[m] = niveles[m]
    BY <2>1, <2>2, <2>a
  <2>c. \A m \in Prioridades : m = l => niveles[m] = s
    OBVIOUS
  <2> HIDE DEF s
  <2>5. t \in Seq(Hilos) /\ Head(s) \in Hilos
    BY <2>1, <2>3
  <2>6. /\ Subcola(t, s) /\ ToSet(s) = {Head(s)} \cup ToSet(t) /\ Head(s) \notin ToSet(t)
    BY <2>1, <2>3, <2>4, <2>5, TailSubcola
  <2> HIDE DEF t
  <2>7. UnaVez(t, Hilos)
    BY <2>3, <2>4, <2>5, <2>6, SubcolaHereda
  <2>8. \A m \in Prioridades : Subcola(colas_multi_level'[m], niveles[m])
    BY <2>b, <2>c, <2>6, SubcolaMisma
  <2>9. \A m \in Prioridades :
          /\ m # l => ToSet(colas_multi_level'[m]) = ToSet(niveles[m])
          /\ m = l => ToSet(colas_multi_level'[m]) = ToSet(t) /\ ToSet(niveles[m]) = ToSet(s)
    BY <2>b, <2>c
  <2>10. NivelesBien(colas_multi_level', prioridad)
    <3> SUFFICES ASSUME NEW m \in Prioridades
                 PROVE  /\ UnaVez(colas_multi_level'[m], Hilos)
                        /\ \A h \in ToSet(colas_multi_level'[m]) : prioridad[h] = m
      BY DEF NivelesBien
    <3>1. CASE m = l
      BY <2>b, <2>4, <2>6, <2>7, <3>1
    <3>2. CASE m # l
      BY <2>b, <3>2 DEF NivelesBien
    <3> QED BY <3>1, <3>2
  <2>11. DeHilo(hilo_EXEC') = {Head(s)}
    BY <2>2, <2>5 DEF DeHilo
  <2>12. Head(s) \in DeNiveles(niveles)
    BY <2>1, <2>5, <2>6, <2>9 DEF DeNiveles
  <2>13. Head(s) \notin DeNiveles(colas_multi_level')
    <3>1. prioridad[Head(s)] = l /\ Head(s) \notin ToSet(colas_multi_level'[l])
      BY <2>1, <2>4, <2>6, <2>9
    <3>2. \A m \in Prioridades : Head(s) \in ToSet(colas_multi_level'[m]) => prioridad[Head(s)] = m
      BY <2>10 DEF NivelesBien
    <3> QED BY <3>1, <3>2 DEF DeNiveles
  <2>14. DeNiveles(colas_multi_level') \subseteq DeNiveles(niveles)
         /\ DeNiveles(niveles) \subseteq DeNiveles(colas_multi_level') \cup {Head(s)}
    BY <2>1, <2>6, <2>9 DEF DeNiveles
  <2>15. DeCola(cola_hilos_READY') = DeCola(cola) /\ Subcola(cola_hilos_READY', cola)
         /\ UnaVez(cola_hilos_READY', Hilos)
    BY <1>3, SubcolaMisma
  <2> QED BY <2>8, <2>10, <2>11, <2>12, <2>13, <2>14, <2>15
<1> QED BY <1>1, <1>2, <1>3 DEF elegir_hilo, CpuLibre

\* Threads queued on their levels are on them, in order, behind the ones that were there.
LEMMA AgregarNivelLugar ==
  ASSUME NEW niveles \in NivelesDe(Hilos), NEW s \in Seq(ONulo(Hilos)),
         NEW prio \in [Hilos -> Prioridades],
         UnaVez(s, Hilos), NivelesBien(niveles, prio), DeCola(s) \cap DeNiveles(niveles) = {}
  PROVE  /\ NivelesBien(AgregarNivel(niveles, s, prio), prio)
         /\ DeNiveles(AgregarNivel(niveles, s, prio)) = DeNiveles(niveles) \cup DeCola(s)
<1> DEFINE f(l) == Filtrar(s, DePrioridad(prio, l))
           u == AgregarNivel(niveles, s, prio)
<1>1. ASSUME NEW l \in Prioridades
      PROVE  /\ niveles[l] \in Seq(Hilos) /\ f(l) \in Seq(Hilos) /\ Subcola(f(l), s)
             /\ ToSet(f(l)) = ToSet(s) \cap DePrioridad(prio, l)
             /\ u[l] = niveles[l] \o f(l)
  <2>1. ONulo(Hilos) \cap DePrioridad(prio, l) \subseteq Hilos
    BY DEF DePrioridad
  <2> QED BY <2>1, FiltrarTipo, FiltrarSubcola DEF NivelesDe, AgregarNivel
<1> HIDE DEF f, u
<1>2. ASSUME NEW l \in Prioridades
      PROVE  /\ UnaVez(u[l], Hilos)
             /\ ToSet(u[l]) = ToSet(niveles[l]) \cup (ToSet(s) \cap DePrioridad(prio, l))
  <2>1. niveles[l] \in Seq(Hilos) /\ f(l) \in Seq(Hilos) /\ f(l) \in Seq(ONulo(Hilos))
    BY <1>1 DEF ONulo
  <2>2. UnaVez(f(l), Hilos) /\ UnaVez(niveles[l], Hilos)
    BY <1>1, <2>1, SubcolaHereda DEF NivelesBien
  <2>3. ToSet(niveles[l]) \cap ToSet(f(l)) \cap Hilos = {}
    BY <1>1 DEF DeCola, DeNiveles
  <2>4. ToSet(niveles[l] \o f(l)) = ToSet(niveles[l]) \cup ToSet(f(l))
    BY <2>1, ConcatSinRepetir
  <2>5. UnaVez(niveles[l] \o f(l), Hilos)
    BY <2>1, <2>2, <2>3, ConcatUnaVez
  <2> QED BY <1>1, <2>4, <2>5
<1>3. NivelesBien(u, prio)
  BY <1>2 DEF NivelesBien, DePrioridad
<1>4. DeNiveles(u) = DeNiveles(niveles) \cup DeCola(s)
  <2>1. \A h \in Hilos : prio[h] \in Prioridades
    OBVIOUS
  <2>2. \A h \in Hilos : \A l \in Prioridades :
          h \in ToSet(u[l]) <=> h \in ToSet(niveles[l]) \/ (h \in ToSet(s) /\ prio[h] = l)
    BY <1>2 DEF DePrioridad
  <2> QED BY <2>1, <2>2 DEF DeNiveles, DeCola
<1> QED BY <1>3, <1>4 DEF u

\* agregar_hilo_a_ready: the threads join the queue the algorithm elects from.
LEMMA AgregarLugar ==
  ASSUME NEW cola \in Seq(ONulo(Hilos)), NEW niveles \in NivelesDe(Hilos),
         NEW s \in Seq(ONulo(Hilos)), NEW prio \in [Hilos -> Prioridades],
         UnaVez(cola, Hilos), UnaVez(s, Hilos), NivelesBien(niveles, prio),
         DeCola(cola) \cap DeNiveles(niveles) = {},
         DeCola(s) \cap DeCola(cola) = {}, DeCola(s) \cap DeNiveles(niveles) = {}
  PROVE  /\ UnaVez(AgregarReady(cola, s), Hilos)
         /\ NivelesBien(AgregarNiveles(niveles, s, prio), prio)
         /\ DeCola(AgregarReady(cola, s)) \cap DeNiveles(AgregarNiveles(niveles, s, prio)) = {}
         /\ DeCola(cola) \subseteq DeCola(AgregarReady(cola, s))
         /\ DeNiveles(niveles) \subseteq DeNiveles(AgregarNiveles(niveles, s, prio))
         /\ DeCola(AgregarReady(cola, s)) \subseteq DeCola(cola) \cup DeCola(s)
         /\ DeNiveles(AgregarNiveles(niveles, s, prio)) \subseteq DeNiveles(niveles) \cup DeCola(s)
         /\ IF ALGORITMO = "CMN" THEN DeCola(s) \subseteq DeNiveles(AgregarNiveles(niveles, s, prio))
                                 ELSE DeCola(s) \subseteq DeCola(AgregarReady(cola, s))
<1>1. CASE ALGORITMO = "CMN"
  <2>1. AgregarReady(cola, s) = cola /\ AgregarNiveles(niveles, s, prio) = AgregarNivel(niveles, s, prio)
    BY <1>1 DEF AgregarReady, AgregarNiveles
  <2> QED BY <1>1, <2>1, AgregarNivelLugar
<1>2. CASE ALGORITMO # "CMN"
  <2>1. AgregarReady(cola, s) = cola \o s /\ AgregarNiveles(niveles, s, prio) = niveles
    BY <1>2 DEF AgregarReady, AgregarNiveles
  <2>2. ToSet(cola) \cap ToSet(s) \cap Hilos = {}
    BY DEF DeCola
  <2>3. UnaVez(cola \o s, Hilos)
    BY <2>2, ConcatUnaVez
  <2>4. ToSet(cola \o s) = ToSet(cola) \cup ToSet(s)
    BY ConcatSinRepetir
  <2>5. DeCola(cola \o s) = DeCola(cola) \cup DeCola(s)
    BY <2>4 DEF DeCola
  <2> QED BY <1>2, <2>1, <2>3, <2>5
<1> QED BY <1>1, <1>2

\* A thread taken out of the queue the algorithm elects from; the rest stays, in order.
LEMMA QuitarLugar ==
  ASSUME NEW h \in Hilos, TipoListos,
         UnaVez(cola_hilos_READY, Hilos), NivelesBien(colas_multi_level, prioridad)
  PROVE  /\ Subcola(ReadySin(h), cola_hilos_READY)
         /\ \A l \in Prioridades : Subcola(NivelesSin(h)[l], colas_multi_level[l])
         /\ UnaVez(ReadySin(h), Hilos) /\ NivelesBien(NivelesSin(h), prioridad)
         /\ DeCola(ReadySin(h)) \subseteq DeCola(cola_hilos_READY)
         /\ DeNiveles(NivelesSin(h)) \subseteq DeNiveles(colas_multi_level)
         /\ DeCola(cola_hilos_READY) \ {h} \subseteq DeCola(ReadySin(h))
         /\ DeNiveles(colas_multi_level) \ {h} \subseteq DeNiveles(NivelesSin(h))
         /\ IF ALGORITMO = "CMN" THEN h \notin DeNiveles(NivelesSin(h)) ELSE h \notin DeCola(ReadySin(h))
<1>0. \A l \in Prioridades : colas_multi_level[l] \in Seq(Hilos)
  BY DEF TipoListos, NivelesDe
<1>1. CASE ALGORITMO = "CMN"
  <2>1. ReadySin(h) = cola_hilos_READY
        /\ \A l \in Prioridades : NivelesSin(h)[l] = RemoveFirst(colas_multi_level[l], h)
    BY <1>1 DEF ReadySin, NivelesSin
  <2>2. ASSUME NEW l \in Prioridades
        PROVE  /\ Subcola(NivelesSin(h)[l], colas_multi_level[l])
               /\ UnaVez(NivelesSin(h)[l], Hilos)
               /\ ToSet(NivelesSin(h)[l]) \subseteq ToSet(colas_multi_level[l])
               /\ ToSet(colas_multi_level[l]) \ {h} \subseteq ToSet(NivelesSin(h)[l])
               /\ h \notin ToSet(NivelesSin(h)[l])
    <3>1. colas_multi_level[l] \in Seq(Hilos) /\ UnaVez(colas_multi_level[l], Hilos)
      BY <1>0 DEF NivelesBien
    <3> DEFINE s == colas_multi_level[l]
               t == RemoveFirst(s, h)
    <3>2. /\ t \in Seq(Hilos) /\ Subcola(t, s)
          /\ ToSet(s) \ {h} \subseteq ToSet(t) /\ h \notin ToSet(t)
      BY <3>1, RemoveFirstSubcola
    <3>3. ToSet(t) \subseteq ToSet(s) /\ UnaVez(t, Hilos)
      <4> HIDE DEF t, s
      <4> QED BY <3>1, <3>2, SubcolaHereda DEF s
    <3> QED BY <2>1, <3>2, <3>3
  <2>3. NivelesBien(NivelesSin(h), prioridad)
    BY <2>2 DEF NivelesBien
  <2>4. /\ DeNiveles(NivelesSin(h)) \subseteq DeNiveles(colas_multi_level)
        /\ DeNiveles(colas_multi_level) \ {h} \subseteq DeNiveles(NivelesSin(h))
        /\ h \notin DeNiveles(NivelesSin(h))
    BY <2>2 DEF DeNiveles
  <2> QED BY <1>1, <2>1, <2>2, <2>3, <2>4, SubcolaMisma
<1>2. CASE ALGORITMO # "CMN"
  <2> DEFINE s == cola_hilos_READY
             t == RemoveFirst(s, h)
  <2>1. ReadySin(h) = t /\ NivelesSin(h) = colas_multi_level
    BY <1>2 DEF ReadySin, NivelesSin
  <2>2. s \in Seq(ONulo(Hilos)) /\ UnaVez(s, Hilos)
    BY DEF TipoListos
  <2>3. /\ t \in Seq(ONulo(Hilos)) /\ Subcola(t, s)
        /\ ToSet(s) \ {h} \subseteq ToSet(t) /\ h \notin ToSet(t)
    BY <2>2, RemoveFirstSubcola
  <2>4. ToSet(t) \subseteq ToSet(s) /\ UnaVez(t, Hilos)
    <3> HIDE DEF t, s
    <3> QED BY <2>2, <2>3, SubcolaHereda DEF s
  <2> HIDE DEF t
  <2>5. DeCola(t) \subseteq DeCola(s) /\ DeCola(s) \ {h} \subseteq DeCola(t) /\ h \notin DeCola(t)
    BY <2>3, <2>4 DEF DeCola
  <2> QED BY <1>2, <2>1, <2>3, <2>4, <2>5, SubcolaMisma
<1> QED BY <1>1, <1>2

-----------------------------------------------------------------------------
(* The waiters of the mutexes *)

\* The waiters of one mutex.
EsperanEn(ms, p, n) == {h \in Hilos : ms[p][n] # Nadie /\ h \in ToSet(ms[p][n].espera)}

\* Another queue of waiters for one mutex: the newcomers did not wait for any.
LEMMA EsperaCambia ==
  ASSUME TipoMutexs, EsperaBien(mutexs), NEW p \in PIDs, NEW n \in Nombres, NEW r \in Recursos,
         mutexs' = [mutexs EXCEPT ![p][n] = r],
         UnaVez(r.espera, Hilos), \A h \in ToSet(r.espera) : h[1] = p,
         \A h \in ToSet(r.espera) : h \in EsperanEn(mutexs, p, n) \/ h \notin Esperan(mutexs)
  PROVE  /\ EsperaBien(mutexs')
         /\ Esperan(mutexs') = (Esperan(mutexs) \ EsperanEn(mutexs, p, n)) \cup ToSet(r.espera)
<1>0. r # Nadie /\ r.espera \in Seq(Hilos)
  BY ConstantesDelKernel DEF Recursos
<1>1. ToSet(r.espera) \subseteq Hilos
  BY <1>0 DEF ToSet
<1>2. /\ mutexs'[p][n] = r
      /\ \A q \in PIDs : \A m \in Nombres : (q # p \/ m # n) => mutexs'[q][m] = mutexs[q][m]
  BY DEF TipoMutexs
<1>3. ASSUME NEW q \in PIDs, NEW m \in Nombres, mutexs[q][m] # Nadie
      PROVE  ToSet(mutexs[q][m].espera) \subseteq Hilos
  <2>1. mutexs[q][m] \in Recursos
    BY <1>3 DEF TipoMutexs
  <2>2. mutexs[q][m].espera \in Seq(Hilos)
    BY <2>1 DEF Recursos
  <2> QED BY <2>2 DEF ToSet
<1>4. \A h \in Hilos : h[1] \in PIDs
  BY DEF Hilos
<1>5. ASSUME NEW m \in Nombres, m # n, mutexs[p][m] # Nadie
      PROVE  ToSet(r.espera) \cap ToSet(mutexs[p][m].espera) = {}
  <2> SUFFICES ASSUME NEW h \in ToSet(r.espera), h \in ToSet(mutexs[p][m].espera) PROVE FALSE
    OBVIOUS
  <2>1. h \in Hilos /\ h[1] = p
    BY <1>1
  <2>2. h \in Esperan(mutexs)
    BY <1>5, <2>1 DEF Esperan
  <2>3. mutexs[p][n] # Nadie /\ h \in ToSet(mutexs[p][n].espera)
    BY <2>2 DEF EsperanEn
  <2> QED BY <1>5, <2>3 DEF EsperaBien
<1>6. EsperaBien(mutexs')
  <2> SUFFICES ASSUME NEW q \in PIDs, NEW m \in Nombres, mutexs'[q][m] # Nadie
               PROVE  /\ UnaVez(mutexs'[q][m].espera, Hilos)
                      /\ \A h \in ToSet(mutexs'[q][m].espera) : h[1] = q
                      /\ \A k \in Nombres : mutexs'[q][k] # Nadie /\ k # m =>
                           ToSet(mutexs'[q][m].espera) \cap ToSet(mutexs'[q][k].espera) = {}
    BY DEF EsperaBien
  <2>1. CASE q # p
    BY <1>2, <2>1 DEF EsperaBien
  <2>2. CASE q = p /\ m = n
    BY <1>2, <1>5, <2>2
  <2>3. CASE q = p /\ m # n
    <3>1. mutexs'[q][m] = mutexs[p][m] /\ mutexs[p][m] # Nadie
      BY <1>2, <2>3
    <3>2. UnaVez(mutexs[p][m].espera, Hilos) /\ \A h \in ToSet(mutexs[p][m].espera) : h[1] = p
      BY <3>1 DEF EsperaBien
    <3>3. ASSUME NEW k \in Nombres, mutexs'[p][k] # Nadie, k # m
          PROVE  ToSet(mutexs[p][m].espera) \cap ToSet(mutexs'[p][k].espera) = {}
      <4>1. CASE k = n
        BY <1>2, <1>5, <2>3, <3>1, <4>1
      <4>2. CASE k # n
        <5>1. mutexs'[p][k] = mutexs[p][k]
          BY <1>2, <4>2
        <5> QED BY <3>1, <3>3, <5>1 DEF EsperaBien
      <4> QED BY <4>1, <4>2
    <3> QED BY <2>3, <3>1, <3>2, <3>3
  <2> QED BY <2>1, <2>2, <2>3
<1>7. ASSUME NEW h \in Hilos
      PROVE  h \in Esperan(mutexs')
               <=> h \in (Esperan(mutexs) \ EsperanEn(mutexs, p, n)) \cup ToSet(r.espera)
  <2>1. CASE h[1] # p
    <3>1. h \notin ToSet(r.espera)
      BY <2>1
    <3>2. h \notin EsperanEn(mutexs, p, n)
      BY <2>1 DEF EsperanEn, EsperaBien
    <3>3. h \in Esperan(mutexs') <=> h \in Esperan(mutexs)
      BY <1>2, <1>4, <2>1 DEF Esperan
    <3> QED BY <3>1, <3>2, <3>3
  <2>2. CASE h[1] = p
    <3>1. h \in Esperan(mutexs') <=>
            \/ h \in ToSet(r.espera)
            \/ \E m \in Nombres : m # n /\ mutexs[p][m] # Nadie /\ h \in ToSet(mutexs[p][m].espera)
      BY <1>0, <1>2, <2>2 DEF Esperan
    <3>2. h \in Esperan(mutexs) <=>
            \/ h \in EsperanEn(mutexs, p, n)
            \/ \E m \in Nombres : m # n /\ mutexs[p][m] # Nadie /\ h \in ToSet(mutexs[p][m].espera)
      BY <2>2 DEF Esperan, EsperanEn
    <3>3. h \in EsperanEn(mutexs, p, n) =>
            ~ \E m \in Nombres : m # n /\ mutexs[p][m] # Nadie /\ h \in ToSet(mutexs[p][m].espera)
      BY DEF EsperanEn, EsperaBien
    <3> QED BY <3>1, <3>2, <3>3
  <2> QED BY <2>1, <2>2
<1>8. Esperan(mutexs') \subseteq Hilos
  BY DEF Esperan
<1>9. Esperan(mutexs) \subseteq Hilos
  BY DEF Esperan
<1> QED BY <1>1, <1>6, <1>7, <1>8, <1>9

\* A thread that ends waits no more.
LEMMA SinEsperaLugar ==
  ASSUME TipoMutexs, EsperaBien(mutexs), NEW h \in Hilos,
         mutexs' = [mutexs EXCEPT ![h[1]] = SinEspera(@, h)]
  PROVE  EsperaBien(mutexs') /\ Esperan(mutexs') = Esperan(mutexs) \ {h}
<1>1. h[1] \in PIDs /\ \A g \in Hilos : g[1] \in PIDs
  BY DEF Hilos
<1>2. /\ mutexs'[h[1]] = SinEspera(mutexs[h[1]], h)
      /\ \A q \in PIDs : q # h[1] => mutexs'[q] = mutexs[q]
  BY <1>1 DEF TipoMutexs
<1>3. ASSUME NEW n \in Nombres
      PROVE  /\ mutexs'[h[1]][n] # Nadie <=> mutexs[h[1]][n] # Nadie
             /\ mutexs[h[1]][n] # Nadie =>
                  /\ mutexs[h[1]][n].espera \in Seq(Hilos)
                  /\ mutexs'[h[1]][n].espera = RemoveFirst(mutexs[h[1]][n].espera, h)
  <2> DEFINE m == mutexs[h[1]][n]
             s == RemoveFirst(m.espera, h)
  <2>1. m # Nadie => m \in Recursos /\ m.espera \in Seq(Hilos)
    BY <1>1 DEF TipoMutexs, Recursos
  <2>2. m # Nadie => s \in Seq(Hilos)
    BY <2>1, RemoveFirstTipo
  <2>3. m = Nadie => mutexs'[h[1]][n] = Nadie
    BY <1>2 DEF SinEspera
  <2>4. m # Nadie => mutexs'[h[1]][n] = [m EXCEPT !.espera = s]
    BY <1>2 DEF SinEspera
  <2> HIDE DEF m, s
  <2>5. m # Nadie => [m EXCEPT !.espera = s] \in Recursos /\ [m EXCEPT !.espera = s].espera = s
    BY <2>1, <2>2 DEF Recursos
  <2>6. Nadie \notin Recursos
    BY ConstantesDelKernel
  <2> QED BY <2>1, <2>3, <2>4, <2>5, <2>6 DEF m, s
<1>4. ASSUME NEW n \in Nombres, mutexs[h[1]][n] # Nadie
      PROVE  /\ UnaVez(mutexs'[h[1]][n].espera, Hilos)
             /\ ToSet(mutexs'[h[1]][n].espera) = ToSet(mutexs[h[1]][n].espera) \ {h}
  <2> DEFINE s == mutexs[h[1]][n].espera
             t == RemoveFirst(s, h)
  <2>1. s \in Seq(Hilos) /\ UnaVez(s, Hilos) /\ mutexs'[h[1]][n].espera = t
    BY <1>1, <1>3, <1>4 DEF EsperaBien
  <2> HIDE DEF s
  <2>2. t \in Seq(Hilos) /\ Subcola(t, s) /\ ToSet(s) \ {h} \subseteq ToSet(t) /\ h \notin ToSet(t)
    BY <2>1, RemoveFirstSubcola
  <2> HIDE DEF t
  <2>3. ToSet(t) \subseteq ToSet(s) /\ UnaVez(t, Hilos)
    BY <2>1, <2>2, SubcolaHereda
  <2> QED BY <2>1, <2>2, <2>3 DEF s
<1>5. EsperaBien(mutexs')
  <2> SUFFICES ASSUME NEW q \in PIDs, NEW m \in Nombres, mutexs'[q][m] # Nadie
               PROVE  /\ UnaVez(mutexs'[q][m].espera, Hilos)
                      /\ \A g \in ToSet(mutexs'[q][m].espera) : g[1] = q
                      /\ \A k \in Nombres : mutexs'[q][k] # Nadie /\ k # m =>
                           ToSet(mutexs'[q][m].espera) \cap ToSet(mutexs'[q][k].espera) = {}
    BY DEF EsperaBien
  <2>1. CASE q # h[1]
    BY <1>2, <2>1 DEF EsperaBien
  <2>2. CASE q = h[1]
    <3>1. mutexs[h[1]][m] # Nadie
      BY <1>3, <2>2
    <3>2. \A g \in ToSet(mutexs'[q][m].espera) : g[1] = q
      BY <1>1, <1>4, <2>2, <3>1 DEF EsperaBien
    <3>3. ASSUME NEW k \in Nombres, mutexs'[q][k] # Nadie, k # m
          PROVE  ToSet(mutexs'[q][m].espera) \cap ToSet(mutexs'[q][k].espera) = {}
      <4>1. mutexs[h[1]][k] # Nadie
        BY <1>3, <2>2, <3>3
      <4>2. ToSet(mutexs[h[1]][m].espera) \cap ToSet(mutexs[h[1]][k].espera) = {}
        BY <1>1, <3>1, <3>3, <4>1 DEF EsperaBien
      <4> QED BY <1>4, <2>2, <3>1, <4>1, <4>2
    <3> QED BY <1>4, <2>2, <3>1, <3>2, <3>3
  <2> QED BY <2>1, <2>2
<1>6. ASSUME NEW g \in Hilos
      PROVE  g \in Esperan(mutexs') <=> g \in Esperan(mutexs) /\ g # h
  <2>1. CASE g[1] # h[1]
    BY <1>1, <1>2, <2>1 DEF Esperan
  <2>2. CASE g[1] = h[1]
    <3>1. \A n \in Nombres : mutexs'[h[1]][n] # Nadie /\ g \in ToSet(mutexs'[h[1]][n].espera)
            <=> mutexs[h[1]][n] # Nadie /\ g \in ToSet(mutexs[h[1]][n].espera) /\ g # h
      BY <1>3, <1>4
    <3> QED BY <2>2, <3>1 DEF Esperan
  <2> QED BY <2>1, <2>2
<1>7. Esperan(mutexs') \subseteq Hilos /\ Esperan(mutexs) \subseteq Hilos
  BY DEF Esperan
<1> QED BY <1>5, <1>6, <1>7

\* The mutexes of a process that ends are dropped, with their waiters.
LEMMA SinMutexsLugar ==
  ASSUME TipoMutexs, EsperaBien(mutexs), NEW pid \in PIDs, mutexs' = [mutexs EXCEPT ![pid] = SinMutexs]
  PROVE  /\ EsperaBien(mutexs')
         /\ Esperan(mutexs') = {h \in Esperan(mutexs) : h[1] # pid}
<1>1. /\ \A n \in Nombres : mutexs'[pid][n] = Nadie
      /\ \A q \in PIDs : q # pid => mutexs'[q] = mutexs[q]
  BY DEF TipoMutexs, SinMutexs
<1>2. \A h \in Hilos : h[1] \in PIDs
  BY DEF Hilos
<1>3. EsperaBien(mutexs')
  BY <1>1 DEF EsperaBien
<1>4. ASSUME NEW h \in Hilos
      PROVE  h \in Esperan(mutexs') <=> h \in Esperan(mutexs) /\ h[1] # pid
  BY <1>1, <1>2 DEF Esperan
<1>5. Esperan(mutexs') \subseteq Hilos /\ Esperan(mutexs) \subseteq Hilos
  BY DEF Esperan
<1> QED BY <1>3, <1>4, <1>5

-----------------------------------------------------------------------------
(* The joiners *)

\* The TCB of a joiner.
LEMMA AnotadoHilo ==
  ASSUME TipoEspera, NEW g \in Hilos, NEW i \in DOMAIN hilos_bloqueados[g]
  PROVE  /\ Anotado(hilos_bloqueados, g, i) \in Anotados(hilos_bloqueados)
         /\ hilos_bloqueados[g][i] \in TIDs /\ g[1] \in PIDs
<1>1. hilos_bloqueados[g] \in Seq(TIDs)
  BY DEF TipoEspera
<1>2. hilos_bloqueados[g][i] \in TIDs /\ g[1] \in PIDs
  BY <1>1 DEF Hilos
<1>3. Anotado(hilos_bloqueados, g, i) \in Hilos
  BY <1>2 DEF Anotado, Hilos
<1> QED BY <1>2, <1>3 DEF Anotados

\* A join notes one more.
LEMMA AnotarLugar ==
  ASSUME TipoEspera, AnotadosUnaVez(hilos_bloqueados), NEW h \in Hilos, NEW t \in TIDs,
         <<h[1], t>> \notin Anotados(hilos_bloqueados),
         hilos_bloqueados' = [hilos_bloqueados EXCEPT ![h] = Append(@, t)]
  PROVE  /\ AnotadosUnaVez(hilos_bloqueados')
         /\ Anotados(hilos_bloqueados') \subseteq Anotados(hilos_bloqueados) \cup {<<h[1], t>>}
<1> DEFINE s == hilos_bloqueados[h]
           N == Len(s) + 1
<1>1. s \in Seq(TIDs)
  BY DEF TipoEspera
<1>2. hilos_bloqueados'[h] = Append(s, t) /\ \A g \in Hilos : g # h => hilos_bloqueados'[g] = hilos_bloqueados[g]
  BY DEF TipoEspera
<1> HIDE DEF s
<1>3. /\ Len(s) \in Nat /\ DOMAIN s = 1 .. Len(s) /\ DOMAIN Append(s, t) = 1 .. Len(s) + 1
      /\ \A i \in 1 .. Len(s) : Append(s, t)[i] = s[i]
      /\ Append(s, t)[Len(s) + 1] = t
  BY <1>1
<1>4. ASSUME NEW g \in Hilos, NEW i \in DOMAIN hilos_bloqueados'[g]
      PROVE  \/ /\ i \in DOMAIN hilos_bloqueados[g]
                /\ Anotado(hilos_bloqueados', g, i) = Anotado(hilos_bloqueados, g, i)
                /\ Anotado(hilos_bloqueados, g, i) \in Anotados(hilos_bloqueados)
             \/ g = h /\ i = N /\ Anotado(hilos_bloqueados', g, i) = <<h[1], t>>
  <2>1. CASE g # h
    BY <1>2, <1>4, <2>1, AnotadoHilo DEF Anotado
  <2>2. CASE g = h /\ i # N
    <3>1. i \in DOMAIN s /\ hilos_bloqueados'[g][i] = s[i]
      BY <1>2, <1>3, <1>4, <2>2
    <3> QED BY <2>2, <3>1, AnotadoHilo DEF Anotado, s
  <2>3. CASE g = h /\ i = N
    BY <1>2, <1>3, <2>3 DEF Anotado
  <2> QED BY <2>1, <2>2, <2>3
<1> HIDE DEF N
<1>5. AnotadosUnaVez(hilos_bloqueados')
  <2> SUFFICES ASSUME NEW g \in Hilos, NEW k \in Hilos,
                      NEW i \in DOMAIN hilos_bloqueados'[g], NEW j \in DOMAIN hilos_bloqueados'[k],
                      Anotado(hilos_bloqueados', g, i) = Anotado(hilos_bloqueados', k, j)
               PROVE  g = k /\ i = j
    BY DEF AnotadosUnaVez
  <2>1. CASE Anotado(hilos_bloqueados', g, i) = <<h[1], t>>
    BY <1>4, <2>1
  <2>2. CASE Anotado(hilos_bloqueados', g, i) # <<h[1], t>>
    <3>1. /\ i \in DOMAIN hilos_bloqueados[g] /\ j \in DOMAIN hilos_bloqueados[k]
          /\ Anotado(hilos_bloqueados, g, i) = Anotado(hilos_bloqueados, k, j)
      BY <1>4, <2>2
    <3> QED BY <3>1 DEF AnotadosUnaVez
  <2> QED BY <2>1, <2>2
<1>6. Anotados(hilos_bloqueados') \subseteq Anotados(hilos_bloqueados) \cup {<<h[1], t>>}
  <2> SUFFICES ASSUME NEW x \in Hilos, NEW g \in Hilos, NEW i \in DOMAIN hilos_bloqueados'[g],
                      x = Anotado(hilos_bloqueados', g, i)
               PROVE  x \in Anotados(hilos_bloqueados) \cup {<<h[1], t>>}
    BY DEF Anotados
  <2> QED BY <1>4
<1> QED BY <1>5, <1>6

\* The joiners an end wakes were noted once, and are noted no more.
LEMMA DespertadosLugar ==
  ASSUME TipoEspera, AnotadosUnaVez(hilos_bloqueados), NEW h \in Hilos,
         hilos_bloqueados' = [hilos_bloqueados EXCEPT ![h] = NoVisitados(@)]
  PROVE  /\ AnotadosUnaVez(hilos_bloqueados')
         /\ Anotados(hilos_bloqueados') \subseteq Anotados(hilos_bloqueados)
         /\ Anotados(hilos_bloqueados') \cap DeCola(Despertados(h)) = {}
         /\ DeCola(Despertados(h)) \subseteq Anotados(hilos_bloqueados)
         /\ UnaVez(Despertados(h), Hilos)
         /\ \A d \in DeCola(Despertados(h)) : EnBlock(d) /\ d # h
<1> DEFINE s == hilos_bloqueados[h]
           v == Visitados(s)
           w == NoVisitados(s)
           ds == Despertados(h)
           m == (Len(s) + 1) \div 2
           k == Len(s) \div 2
<1>1. s \in Seq(TIDs) /\ Len(s) \in Nat /\ DOMAIN s = 1 .. Len(s)
  BY DEF TipoEspera
<1>2. ds = [n \in DOMAIN v |-> IF EnBlock(<<h[1], v[n]>>) /\ v[n] # h[2] THEN <<h[1], v[n]>> ELSE Nadie]
  BY DEF Despertados
<1>3. hilos_bloqueados'[h] = w /\ \A g \in Hilos : g # h => hilos_bloqueados'[g] = hilos_bloqueados[g]
  BY DEF TipoEspera
<1> HIDE DEF s
<1>4. m \in Nat /\ k \in Nat
      /\ (\A n \in 1 .. m : 2 * n - 1 \in DOMAIN s) /\ (\A n \in 1 .. k : 2 * n \in DOMAIN s)
  BY <1>1, Mitades
<1>5. DOMAIN v = 1 .. m /\ (\A n \in 1 .. m : v[n] = s[2 * n - 1])
      /\ DOMAIN w = 1 .. k /\ (\A n \in 1 .. k : w[n] = s[2 * n])
  BY DEF Visitados, NoVisitados
<1> HIDE DEF v, w, m, k, ds
<1>6. ASSUME NEW g \in Hilos, NEW i \in DOMAIN hilos_bloqueados'[g]
      PROVE  \E j \in DOMAIN hilos_bloqueados[g] :
               /\ Anotado(hilos_bloqueados', g, i) = Anotado(hilos_bloqueados, g, j)
               /\ g # h => j = i
               /\ g = h => i \in Nat /\ j = 2 * i
  <2>1. CASE g # h
    BY <1>3, <1>6, <2>1 DEF Anotado
  <2>2. CASE g = h
    <3>1. i \in 1 .. k /\ i \in Nat /\ 2 * i \in DOMAIN s /\ hilos_bloqueados'[g][i] = s[2 * i]
      BY <1>3, <1>4, <1>5, <1>6, <2>2
    <3> QED BY <2>2, <3>1 DEF Anotado, s
  <2> QED BY <2>1, <2>2
<1>7. AnotadosUnaVez(hilos_bloqueados')
  <2> SUFFICES ASSUME NEW g \in Hilos, NEW q \in Hilos,
                      NEW i \in DOMAIN hilos_bloqueados'[g], NEW j \in DOMAIN hilos_bloqueados'[q],
                      Anotado(hilos_bloqueados', g, i) = Anotado(hilos_bloqueados', q, j)
               PROVE  g = q /\ i = j
    BY DEF AnotadosUnaVez
  <2>1. PICK a \in DOMAIN hilos_bloqueados[g] :
               /\ Anotado(hilos_bloqueados', g, i) = Anotado(hilos_bloqueados, g, a)
               /\ g # h => a = i
               /\ g = h => i \in Nat /\ a = 2 * i
    BY <1>6
  <2>2. PICK b \in DOMAIN hilos_bloqueados[q] :
               /\ Anotado(hilos_bloqueados', q, j) = Anotado(hilos_bloqueados, q, b)
               /\ q # h => b = j
               /\ q = h => j \in Nat /\ b = 2 * j
    BY <1>6
  <2>a. Anotado(hilos_bloqueados, g, a) = Anotado(hilos_bloqueados, q, b)
    BY <2>1, <2>2
  <2>3. g = q /\ a = b
    BY <2>a DEF AnotadosUnaVez
  <2>4. CASE g # h
    BY <2>1, <2>2, <2>3, <2>4
  <2>5. CASE g = h
    <3>1. i \in Nat /\ j \in Nat /\ 2 * i = 2 * j
      BY <2>1, <2>2, <2>3, <2>5
    <3> QED BY <2>3, <3>1
  <2> QED BY <2>4, <2>5
<1>8. Anotados(hilos_bloqueados') \subseteq Anotados(hilos_bloqueados)
  <2> SUFFICES ASSUME NEW x \in Hilos, NEW g \in Hilos, NEW i \in DOMAIN hilos_bloqueados'[g],
                      x = Anotado(hilos_bloqueados', g, i)
               PROVE  x \in Anotados(hilos_bloqueados)
    BY DEF Anotados
  <2> QED BY ZenonT(30), <1>6 DEF Anotados
<1>9. ASSUME NEW n \in DOMAIN ds, ds[n] \in Hilos
      PROVE  /\ n \in 1 .. m /\ 2 * n - 1 \in DOMAIN s
             /\ ds[n] = Anotado(hilos_bloqueados, h, 2 * n - 1)
             /\ EnBlock(ds[n]) /\ ds[n] # h
  <2>1. n \in 1 .. m /\ 2 * n - 1 \in DOMAIN s /\ v[n] = s[2 * n - 1]
    BY <1>2, <1>4, <1>5, <1>9
  <2>2. ds[n] = IF EnBlock(<<h[1], v[n]>>) /\ v[n] # h[2] THEN <<h[1], v[n]>> ELSE Nadie
    BY <1>2, <1>5, <2>1
  <2>3. ds[n] # Nadie
    BY <1>9, ConstantesDelKernel
  <2>4. EnBlock(<<h[1], v[n]>>) /\ v[n] # h[2] /\ ds[n] = <<h[1], v[n]>>
    BY <2>2, <2>3
  <2>5. <<h[1], v[n]>> # h
    BY <2>4
  <2> QED BY <2>1, <2>4, <2>5 DEF Anotado, s
<1>10. UnaVez(ds, Hilos)
  <2> SUFFICES ASSUME NEW a \in DOMAIN ds, NEW b \in DOMAIN ds, ds[a] = ds[b], ds[a] \in Hilos
               PROVE  a = b
    BY DEF UnaVez
  <2>1. 2 * a - 1 = 2 * b - 1 /\ a \in 1 .. m /\ b \in 1 .. m
    <3>1. /\ 2 * a - 1 \in DOMAIN s /\ 2 * b - 1 \in DOMAIN s /\ a \in 1 .. m /\ b \in 1 .. m
          /\ Anotado(hilos_bloqueados, h, 2 * a - 1) = Anotado(hilos_bloqueados, h, 2 * b - 1)
      BY <1>9
    <3> QED BY <3>1 DEF AnotadosUnaVez, s
  <2>2. m \in Nat
    BY <1>4
  <2>3. a \in Nat /\ b \in Nat
    BY <2>1, <2>2
  <2>4. \A x, y \in Nat : 2 * x - 1 = 2 * y - 1 => x = y
    OBVIOUS
  <2> QED BY <2>1, <2>3, <2>4
<1>11. ASSUME NEW d \in DeCola(ds)
       PROVE  /\ d \in Anotados(hilos_bloqueados) /\ d \notin Anotados(hilos_bloqueados')
              /\ EnBlock(d) /\ d # h
  <2>1. PICK n \in DOMAIN ds : d = ds[n]
    BY DEF DeCola, ToSet
  <2>2. /\ n \in 1 .. m /\ 2 * n - 1 \in DOMAIN s /\ d = Anotado(hilos_bloqueados, h, 2 * n - 1)
        /\ EnBlock(d) /\ d # h /\ d \in Hilos
    BY <1>9, <2>1 DEF DeCola
  <2>3. d \in Anotados(hilos_bloqueados)
    BY <2>2 DEF Anotados, s
  <2>4. ASSUME NEW g \in Hilos, NEW i \in DOMAIN hilos_bloqueados'[g],
               d = Anotado(hilos_bloqueados', g, i)
        PROVE  FALSE
    <3>1. PICK j \in DOMAIN hilos_bloqueados[g] :
               /\ Anotado(hilos_bloqueados', g, i) = Anotado(hilos_bloqueados, g, j)
               /\ g = h => i \in Nat /\ j = 2 * i
      BY <1>6
    <3>2. g = h /\ j = 2 * n - 1
      BY <2>2, <2>4, <3>1 DEF AnotadosUnaVez, s
    <3>3. i \in Nat /\ n \in Nat /\ 2 * i = 2 * n - 1
      BY <1>4, <2>2, <3>1, <3>2
    <3> QED BY <3>3
  <2> QED BY <2>2, <2>3, <2>4 DEF Anotados
<1> QED BY <1>7, <1>8, <1>10, <1>11 DEF ds

\* The lists of the TCBs that are freed are lost.
LEMMA OlvidarLugar ==
  ASSUME AnotadosUnaVez(hilos_bloqueados),
         \A g \in Hilos : hilos_bloqueados'[g] = <<>> \/ hilos_bloqueados'[g] = hilos_bloqueados[g]
  PROVE  /\ AnotadosUnaVez(hilos_bloqueados')
         /\ Anotados(hilos_bloqueados') \subseteq Anotados(hilos_bloqueados)
<1>1. ASSUME NEW g \in Hilos, NEW i \in DOMAIN hilos_bloqueados'[g]
      PROVE  /\ i \in DOMAIN hilos_bloqueados[g]
             /\ Anotado(hilos_bloqueados', g, i) = Anotado(hilos_bloqueados, g, i)
  <2>1. DOMAIN <<>> = {}
    OBVIOUS
  <2>2. hilos_bloqueados'[g] = hilos_bloqueados[g]
    BY <1>1, <2>1
  <2> QED BY <1>1, <2>2 DEF Anotado
<1> QED BY <1>1 DEF AnotadosUnaVez, Anotados

-----------------------------------------------------------------------------
(* One step per request *)

\* A request that moves no thread.
LEMMA SinMoverLugares ==
  ASSUME InvLugares,
         UNCHANGED <<prox_tid, proximo_pid, prioridad, cola_hilos_NEW, listos, hilo_EXEC,
                     cola_hilos_BLOCK, cola_hilos_EXIT, liberados, lista_hilos,
                     hilos_bloqueados>>,
         EsperaBien(mutexs'), Esperan(mutexs') = Esperan(mutexs)
  PROVE  InvLugares' /\ Mueve /\ Conserva
<1>1. InvLugares'
  BY DEF InvLugares, LugaresAjenos, NoBloqueados, listos
<1>2. Mueve /\ Conserva
  BY DEF Mueve, Conserva, EnCurso, Listos, Bloqueados, listos
<1> QED BY <1>1, <1>2

\* A request that lets the thread go on and changes no queue, or that ends the kernel.
LEMMA QuietoLugares ==
  ASSUME InvLugares, SigueElMismo \/ Cae, Cae \/ UNCHANGED <<colas, listos, tcbs, fin, mutexs,
                     hilos_bloqueados, cola_hilos_BLOCK>>
  PROVE  InvLugares' /\ Mueve /\ Conserva
<1>1. UNCHANGED <<prox_tid, proximo_pid, prioridad, cola_hilos_NEW, listos, hilo_EXEC,
                  cola_hilos_BLOCK, cola_hilos_EXIT, liberados, lista_hilos, hilos_bloqueados, mutexs>>
  BY DEF SigueElMismo, Cae, colas, listos, tcbs, fin
<1> QED BY <1>1, SinMoverLugares DEF InvLugares

\* The thread that runs is in no other place, and has not joined any.
LEMMA EjecutaLugar ==
  ASSUME InvLugares, TipoCPU, cpu = "ejecuta"
  PROVE  /\ hilo_EXEC \in Hilos /\ DeHilo(hilo_EXEC) = {hilo_EXEC}
         /\ hilo_EXEC \notin SinCrear(prox_tid) \cup DeCola(cola_hilos_NEW)
              \cup DeCola(cola_hilos_READY) \cup DeNiveles(colas_multi_level)
              \cup cola_hilos_BLOCK \cup Esperan(mutexs) \cup cola_hilos_EXIT \cup liberados
         /\ hilo_EXEC \notin Anotados(hilos_bloqueados)
<1>1. hilo_EXEC \in Hilos
  BY EjecutaHilo
<1>2. DeHilo(hilo_EXEC) = {hilo_EXEC}
  BY <1>1 DEF DeHilo
<1>3. hilo_EXEC \notin SinCrear(prox_tid) \cup DeCola(cola_hilos_NEW)
              \cup DeCola(cola_hilos_READY) \cup DeNiveles(colas_multi_level)
              \cup cola_hilos_BLOCK \cup Esperan(mutexs) \cup cola_hilos_EXIT \cup liberados
  BY <1>2 DEF InvLugares, LugaresAjenos, Ajenos
<1>4. hilo_EXEC \notin Anotados(hilos_bloqueados)
  BY <1>2 DEF InvLugares, NoBloqueados
<1> QED BY <1>1, <1>2, <1>3, <1>4

\* THREAD_JOIN: the thread that runs goes to BLOCK, noted once.
LEMMA JoinLugares ==
  ASSUME TypeOK, InvLugares, cpu = "ejecuta", NEW tid \in TIDs, bloquear_hilo_por_thread_join(tid)
  PROVE  InvLugares' /\ Mueve /\ Conserva
<1> DEFINE h == <<hilo_EXEC[1], tid>>
<1>1. Tipos
  BY Partes
<1>2. CASE /\ hilos_bloqueados' = [hilos_bloqueados EXCEPT ![h] = Append(@, hilo_EXEC[2])]
           /\ cola_hilos_BLOCK' = cola_hilos_BLOCK \cup {hilo_EXEC}
           /\ elegir_hilo(cola_hilos_READY, colas_multi_level)
           /\ UNCHANGED <<colas, tcbs, fin, mutexs>>
  <2>1. /\ hilo_EXEC \in Hilos /\ hilo_EXEC[2] \in TIDs /\ h \in Hilos
        /\ <<h[1], hilo_EXEC[2]>> = hilo_EXEC
    BY <1>1, EjecutaHilo DEF Tipos, Hilos
  <2>2. /\ DeHilo(hilo_EXEC) = {hilo_EXEC} /\ hilo_EXEC \notin Anotados(hilos_bloqueados)
        /\ hilo_EXEC \notin SinCrear(prox_tid) \cup DeCola(cola_hilos_NEW)
              \cup DeCola(cola_hilos_READY) \cup DeNiveles(colas_multi_level)
              \cup cola_hilos_BLOCK \cup Esperan(mutexs) \cup cola_hilos_EXIT \cup liberados
    BY <1>1, EjecutaLugar DEF Tipos
  <2> HIDE DEF h
  <2>3. /\ AnotadosUnaVez(hilos_bloqueados')
        /\ Anotados(hilos_bloqueados') \subseteq Anotados(hilos_bloqueados) \cup {hilo_EXEC}
    BY <1>1, <1>2, <2>1, <2>2, AnotarLugar DEF Tipos, InvLugares
  <2>4. DeCola(cola_hilos_READY) \cap DeNiveles(colas_multi_level) = {}
    BY DEF InvLugares, LugaresAjenos, Ajenos
  <2>5. /\ UnaVez(cola_hilos_READY', Hilos) /\ NivelesBien(colas_multi_level', prioridad)
        /\ DeCola(cola_hilos_READY') \subseteq DeCola(cola_hilos_READY)
        /\ DeNiveles(colas_multi_level') \subseteq DeNiveles(colas_multi_level)
        /\ DeHilo(hilo_EXEC') \subseteq DeCola(cola_hilos_READY) \cup DeNiveles(colas_multi_level)
        /\ DeHilo(hilo_EXEC') \cap DeCola(cola_hilos_READY') = {}
        /\ DeHilo(hilo_EXEC') \cap DeNiveles(colas_multi_level') = {}
        /\ DeCola(cola_hilos_READY) \cup DeNiveles(colas_multi_level)
             \subseteq DeCola(cola_hilos_READY') \cup DeNiveles(colas_multi_level') \cup DeHilo(hilo_EXEC')
    BY <1>1, <1>2, <2>4, ElegirLugar DEF Tipos, TipoListos, InvLugares
  <2>6. UNCHANGED <<prox_tid, proximo_pid, prioridad, cola_hilos_NEW, cola_hilos_EXIT, liberados, lista_hilos, mutexs>>
    BY <1>2 DEF colas, tcbs, fin
  <2>7. LugaresAjenos'
    BY <1>2, <2>2, <2>5, <2>6 DEF InvLugares, LugaresAjenos, Ajenos
  <2>8. Anotados(hilos_bloqueados') \cap NoBloqueados' = {}
    BY <2>2, <2>3, <2>5, <2>6 DEF InvLugares, NoBloqueados
  <2>9. Mueve /\ Conserva
    BY <1>2, <2>2, <2>5, <2>6 DEF Mueve, Conserva, EnCurso, Listos, Bloqueados
  <2> QED BY <2>3, <2>5, <2>6, <2>7, <2>8, <2>9 DEF InvLugares
<1>3. CASE (SigueElMismo \/ Cae) /\ (Cae \/ UNCHANGED <<colas, listos, tcbs, fin, mutexs, hilos_bloqueados,
                        cola_hilos_BLOCK>>)
  BY <1>3, QuietoLugares
<1> QED BY <1>2, <1>3 DEF bloquear_hilo_por_thread_join

\* LOCK or UNLOCK of a name that does not exist: the thread goes to EXIT.
LEMMA InexistenteLugares ==
  ASSUME TypeOK, InvLugares, cpu = "ejecuta", RecursoInexistente
  PROVE  InvLugares' /\ Mueve
<1>1. Tipos
  BY Partes
<1>2. /\ DeHilo(hilo_EXEC) = {hilo_EXEC} /\ hilo_EXEC \notin Anotados(hilos_bloqueados)
      /\ hilo_EXEC \notin SinCrear(prox_tid) \cup DeCola(cola_hilos_NEW)
            \cup DeCola(cola_hilos_READY) \cup DeNiveles(colas_multi_level)
            \cup cola_hilos_BLOCK \cup Esperan(mutexs) \cup cola_hilos_EXIT \cup liberados
  BY <1>1, EjecutaLugar DEF Tipos
<1>3. DeCola(cola_hilos_READY) \cap DeNiveles(colas_multi_level) = {}
  BY DEF InvLugares, LugaresAjenos, Ajenos
<1>4. /\ UnaVez(cola_hilos_READY', Hilos) /\ NivelesBien(colas_multi_level', prioridad)
      /\ DeCola(cola_hilos_READY') \subseteq DeCola(cola_hilos_READY)
      /\ DeNiveles(colas_multi_level') \subseteq DeNiveles(colas_multi_level)
      /\ DeHilo(hilo_EXEC') \subseteq DeCola(cola_hilos_READY) \cup DeNiveles(colas_multi_level)
      /\ DeHilo(hilo_EXEC') \cap DeCola(cola_hilos_READY') = {}
      /\ DeHilo(hilo_EXEC') \cap DeNiveles(colas_multi_level') = {}
  BY <1>1, <1>3, ElegirLugar DEF Tipos, TipoListos, InvLugares, RecursoInexistente
<1>5. UNCHANGED <<prox_tid, proximo_pid, prioridad, cola_hilos_NEW, cola_hilos_BLOCK, liberados, mutexs,
                  hilos_bloqueados>>
  BY DEF colas, tcbs, RecursoInexistente
<1>6. LugaresAjenos'
  BY <1>2, <1>4, <1>5 DEF InvLugares, LugaresAjenos, Ajenos, RecursoInexistente
<1>7. Anotados(hilos_bloqueados') \cap NoBloqueados' = {}
  BY <1>2, <1>4, <1>5 DEF InvLugares, NoBloqueados
<1>8. Mueve
  BY <1>2, <1>4, <1>5 DEF Mueve, EnCurso, Listos, Bloqueados
<1> QED BY <1>4, <1>5, <1>6, <1>7, <1>8 DEF InvLugares

\* A queue of one thread.
LEMMA UnSoloHilo ==
  ASSUME NEW h \in ONulo(Hilos)
  PROVE  <<h>> \in Seq(ONulo(Hilos)) /\ UnaVez(<<h>>, Hilos) /\ DeCola(<<h>>) = DeHilo(h)
         /\ ToSet(<<h>>) = {h}
<1>1. DOMAIN <<h>> = {1} /\ <<h>>[1] = h
  OBVIOUS
<1>2. ToSet(<<h>>) = {h}
  BY <1>1 DEF ToSet
<1>3. UnaVez(<<h>>, Hilos)
  BY <1>1 DEF UnaVez
<1> QED BY <1>2, <1>3 DEF DeCola, DeHilo

\* An empty queue.
LEMMA NingunHilo ==
  <<>> \in Seq(ONulo(Hilos)) /\ UnaVez(<<>>, Hilos) /\ DeCola(<<>>) = {} /\ ToSet(<<>>) = {}
<1>1. DOMAIN <<>> = {}
  OBVIOUS
<1> QED BY <1>1 DEF ToSet, UnaVez, DeCola

\* One more element at the end of a queue.
LEMMA AppendLugar ==
  ASSUME NEW s \in Seq(Hilos), NEW h \in Hilos
  PROVE  /\ Append(s, h) \in Seq(Hilos) /\ ToSet(Append(s, h)) = ToSet(s) \cup {h}
         /\ UnaVez(s, Hilos) /\ h \notin ToSet(s) => UnaVez(Append(s, h), Hilos)
<1>1. <<h>> \in Seq(Hilos) /\ UnaVez(<<h>>, Hilos) /\ ToSet(<<h>>) = {h}
  BY UnSoloHilo DEF ONulo
<1>2. Append(s, h) = s \o <<h>>
  OBVIOUS
<1>3. s \o <<h>> \in Seq(Hilos) /\ ToSet(s \o <<h>>) = ToSet(s) \cup ToSet(<<h>>)
  BY ZenonT(30), <1>1, ConcatSinRepetir
<1>4. ASSUME UnaVez(s, Hilos), h \notin ToSet(s) PROVE UnaVez(s \o <<h>>, Hilos)
  BY <1>1, <1>4, ConcatUnaVez
<1> QED BY <1>1, <1>2, <1>3, <1>4

\* MUTEX_CREATE: nobody waits yet.
LEMMA CrearMutexLugares ==
  ASSUME TypeOK, InvLugares, cpu = "ejecuta", NEW n \in Nombres, crear_mutex(n)
  PROVE  InvLugares' /\ Mueve /\ Conserva
<1> DEFINE pid == hilo_EXEC[1]
<1>1. Tipos /\ pid \in PIDs
  BY Partes, EjecutaHilo DEF Tipos
<1>2. UNCHANGED <<prox_tid, proximo_pid, prioridad, cola_hilos_NEW, listos, hilo_EXEC,
                  cola_hilos_BLOCK, cola_hilos_EXIT, liberados, lista_hilos, hilos_bloqueados>>
  BY DEF crear_mutex, SigueElMismo, colas, tcbs, fin
<1>3. CASE UNCHANGED mutexs
  BY <1>2, <1>3, SinMoverLugares DEF InvLugares
<1>4. ASSUME NEW basura \in Basura, n \notin Creados(pid),
             mutexs' = [mutexs EXCEPT ![pid][n] =
                 [valor |-> 1, propietario |-> basura, espera |-> <<>>]]
      PROVE  InvLugares' /\ Mueve /\ Conserva
  <2> DEFINE r == [valor |-> 1, propietario |-> basura, espera |-> <<>>]
  <2>1. r \in Recursos /\ r.espera = <<>>
    BY ConstantesDelKernel DEF Recursos
  <2>2. mutexs' = [mutexs EXCEPT ![pid][n] = r]
    BY <1>4
  <2>3. EsperanEn(mutexs, pid, n) = {}
    BY <1>4 DEF EsperanEn, Creados
  <2> HIDE DEF r, pid
  <2>a. UnaVez(r.espera, Hilos) /\ ToSet(r.espera) = {}
    BY <2>1, NingunHilo
  <2>b. \A h \in ToSet(r.espera) : h[1] = pid
    BY <2>a
  <2>c. \A h \in ToSet(r.espera) : h \in EsperanEn(mutexs, pid, n) \/ h \notin Esperan(mutexs)
    BY <2>a
  <2>d. r \in Recursos /\ pid \in PIDs /\ TipoMutexs /\ EsperaBien(mutexs)
    BY <1>1, <2>1 DEF Tipos, InvLugares
  <2>4. EsperaBien(mutexs') /\ Esperan(mutexs') = Esperan(mutexs)
    <3>1. /\ EsperaBien(mutexs')
          /\ Esperan(mutexs') = (Esperan(mutexs) \ EsperanEn(mutexs, pid, n)) \cup ToSet(r.espera)
      BY <2>2, <2>a, <2>b, <2>c, <2>d, EsperaCambia
    <3> QED BY <2>3, <2>a, <3>1
  <2> QED BY <1>2, <2>4, SinMoverLugares
<1> QED BY <1>3, <1>4 DEF crear_mutex

\* MUTEX_LOCK: the thread goes on with the mutex, or waits for it.
LEMMA BloquearMutexLugares ==
  ASSUME TypeOK, InvLugares, cpu = "ejecuta", NEW n \in Nombres, bloquear_mutex(n)
  PROVE  InvLugares' /\ Mueve /\ (n \in Creados(hilo_EXEC[1]) => Conserva)
<1> DEFINE pid == hilo_EXEC[1]
           m == mutexs[pid][n]
<1>1. Tipos /\ hilo_EXEC \in Hilos /\ pid \in PIDs
  BY Partes, EjecutaHilo DEF Tipos
<1>2. n \in Creados(pid) => /\ m \in Recursos /\ EsperanEn(mutexs, pid, n) = ToSet(m.espera)
                            /\ UnaVez(m.espera, Hilos) /\ \A h \in ToSet(m.espera) : h[1] = pid
                            /\ m.espera \in Seq(Hilos)
  <2> SUFFICES ASSUME n \in Creados(pid)
               PROVE  /\ m \in Recursos /\ EsperanEn(mutexs, pid, n) = ToSet(m.espera)
                      /\ UnaVez(m.espera, Hilos) /\ \A h \in ToSet(m.espera) : h[1] = pid
                      /\ m.espera \in Seq(Hilos)
    OBVIOUS
  <2>1. m \in Recursos /\ m # Nadie
    BY <1>1 DEF Tipos, TipoMutexs, Creados
  <2>2. m.espera \in Seq(Hilos)
    BY <2>1 DEF Recursos
  <2>3. ToSet(m.espera) \subseteq Hilos
    BY <2>2 DEF ToSet
  <2>4. UnaVez(m.espera, Hilos) /\ \A h \in ToSet(m.espera) : h[1] = pid
    BY <1>1, <2>1 DEF InvLugares, EsperaBien
  <2> QED BY <2>1, <2>2, <2>3, <2>4 DEF EsperanEn
<1>3. CASE n \notin Creados(pid) /\ RecursoInexistente
  BY <1>3, InexistenteLugares
<1>4. CASE /\ n \in Creados(pid)
           /\ mutexs' = [mutexs EXCEPT ![pid][n] = Tomar(@, hilo_EXEC)]
           /\ SigueElMismo
           /\ UNCHANGED <<colas, listos, tcbs, fin, hilos_bloqueados, cola_hilos_BLOCK>>
  <2>1. mutexs' = [mutexs EXCEPT ![pid][n] = Tomar(m, hilo_EXEC)]
    BY <1>1, <1>4 DEF Tipos, TipoMutexs
  <2>2. Tomar(m, hilo_EXEC) \in Recursos /\ Tomar(m, hilo_EXEC).espera = m.espera
    BY <1>1, <1>2, <1>4 DEF Tomar, Recurso, Recursos
  <2>3. EsperanEn(mutexs, pid, n) \subseteq Esperan(mutexs)
    BY <1>2, <1>4 DEF EsperanEn, Esperan
  <2>4. EsperaBien(mutexs') /\ Esperan(mutexs') = Esperan(mutexs)
    <3> DEFINE r == Tomar(m, hilo_EXEC)
    <3>1. /\ UnaVez(r.espera, Hilos) /\ \A h \in ToSet(r.espera) : h[1] = pid
          /\ ToSet(r.espera) = EsperanEn(mutexs, pid, n) /\ r \in Recursos
          /\ mutexs' = [mutexs EXCEPT ![pid][n] = r]
      BY <1>2, <1>4, <2>1, <2>2
    <3> HIDE DEF r, pid, m
    <3>2. /\ EsperaBien(mutexs')
          /\ Esperan(mutexs') = (Esperan(mutexs) \ EsperanEn(mutexs, pid, n)) \cup ToSet(r.espera)
      BY <1>1, <3>1, EsperaCambia DEF Tipos, InvLugares
    <3> QED BY <2>3, <3>1, <3>2
  <2>5. UNCHANGED <<prox_tid, proximo_pid, prioridad, cola_hilos_NEW, listos, hilo_EXEC,
                  cola_hilos_BLOCK, cola_hilos_EXIT, liberados, lista_hilos, hilos_bloqueados>>
    BY <1>4 DEF SigueElMismo, colas, tcbs, fin
  <2> QED BY <2>4, <2>5, SinMoverLugares
<1>5. CASE /\ n \in Creados(pid)
           /\ mutexs' = [mutexs EXCEPT ![pid][n] = Esperar(@, hilo_EXEC)]
           /\ elegir_hilo(cola_hilos_READY, colas_multi_level)
           /\ UNCHANGED <<colas, tcbs, fin, hilos_bloqueados, cola_hilos_BLOCK>>
  <2>1. mutexs' = [mutexs EXCEPT ![pid][n] = Esperar(m, hilo_EXEC)]
    BY <1>1, <1>5 DEF Tipos, TipoMutexs
  <2>2. /\ DeHilo(hilo_EXEC) = {hilo_EXEC} /\ hilo_EXEC \notin Anotados(hilos_bloqueados)
        /\ hilo_EXEC \notin SinCrear(prox_tid) \cup DeCola(cola_hilos_NEW)
              \cup DeCola(cola_hilos_READY) \cup DeNiveles(colas_multi_level)
              \cup cola_hilos_BLOCK \cup Esperan(mutexs) \cup cola_hilos_EXIT \cup liberados
    BY <1>1, EjecutaLugar DEF Tipos
  <2>3. EsperanEn(mutexs, pid, n) \subseteq Esperan(mutexs)
    BY <1>2, <1>5 DEF EsperanEn, Esperan
  <2>4. hilo_EXEC \notin ToSet(m.espera)
    BY <1>2, <1>5, <2>2, <2>3
  <2>5. /\ Append(m.espera, hilo_EXEC) \in Seq(Hilos)
        /\ ToSet(Append(m.espera, hilo_EXEC)) = ToSet(m.espera) \cup {hilo_EXEC}
        /\ UnaVez(Append(m.espera, hilo_EXEC), Hilos)
    BY <1>1, <1>2, <1>5, <2>4, AppendLugar
  <2>6. EsperaBien(mutexs') /\ Esperan(mutexs') = Esperan(mutexs) \cup {hilo_EXEC}
    <3> DEFINE r == Esperar(m, hilo_EXEC)
    <3>1. r \in Recursos /\ r.espera = Append(m.espera, hilo_EXEC)
      <4>1. m.valor \in Int /\ m.propietario \in Hilos \cup {Nadie}
        BY <1>2, <1>5 DEF Recursos
      <4>2. m.valor - 1 \in Int
        BY <4>1
      <4>3. r = [valor |-> m.valor - 1, propietario |-> m.propietario,
                 espera |-> Append(m.espera, hilo_EXEC)]
        BY DEF Esperar, Recurso
      <4> HIDE DEF r
      <4> QED BY <2>5, <4>1, <4>2, <4>3 DEF Recursos
    <3>2. \A h \in ToSet(r.espera) :
            h[1] = pid /\ (h \in EsperanEn(mutexs, pid, n) \/ h \notin Esperan(mutexs))
      BY <1>2, <1>5, <2>2, <2>5, <3>1
    <3>3. ToSet(r.espera) = EsperanEn(mutexs, pid, n) \cup {hilo_EXEC} /\ UnaVez(r.espera, Hilos)
      BY <1>2, <1>5, <2>5, <3>1
    <3>4. mutexs' = [mutexs EXCEPT ![pid][n] = r]
      BY <2>1
    <3> HIDE DEF r, pid, m
    <3>5. /\ EsperaBien(mutexs')
          /\ Esperan(mutexs') = (Esperan(mutexs) \ EsperanEn(mutexs, pid, n)) \cup ToSet(r.espera)
      BY <1>1, <3>1, <3>2, <3>3, <3>4, EsperaCambia DEF Tipos, InvLugares
    <3> QED BY <2>3, <3>3, <3>5
  <2>7. DeCola(cola_hilos_READY) \cap DeNiveles(colas_multi_level) = {}
    BY DEF InvLugares, LugaresAjenos, Ajenos
  <2> HIDE DEF m
  <2>8. /\ UnaVez(cola_hilos_READY', Hilos) /\ NivelesBien(colas_multi_level', prioridad)
        /\ DeCola(cola_hilos_READY') \subseteq DeCola(cola_hilos_READY)
        /\ DeNiveles(colas_multi_level') \subseteq DeNiveles(colas_multi_level)
        /\ DeHilo(hilo_EXEC') \subseteq DeCola(cola_hilos_READY) \cup DeNiveles(colas_multi_level)
        /\ DeHilo(hilo_EXEC') \cap DeCola(cola_hilos_READY') = {}
        /\ DeHilo(hilo_EXEC') \cap DeNiveles(colas_multi_level') = {}
        /\ DeCola(cola_hilos_READY) \cup DeNiveles(colas_multi_level)
             \subseteq DeCola(cola_hilos_READY') \cup DeNiveles(colas_multi_level') \cup DeHilo(hilo_EXEC')
    BY <1>1, <1>5, <2>7, ElegirLugar DEF Tipos, TipoListos, InvLugares
  <2>9. UNCHANGED <<prox_tid, proximo_pid, prioridad, cola_hilos_NEW, cola_hilos_BLOCK, cola_hilos_EXIT,
                    liberados, lista_hilos, hilos_bloqueados>>
    BY <1>5 DEF colas, tcbs, fin
  <2>10. LugaresAjenos'
    BY <2>2, <2>6, <2>8, <2>9 DEF InvLugares, LugaresAjenos, Ajenos
  <2>11. Anotados(hilos_bloqueados') \cap NoBloqueados' = {}
    BY <2>2, <2>6, <2>8, <2>9 DEF InvLugares, NoBloqueados
  <2>12. Mueve /\ Conserva
    BY <2>2, <2>6, <2>8, <2>9 DEF Mueve, Conserva, EnCurso, Listos, Bloqueados
  <2> QED BY <2>6, <2>8, <2>9, <2>10, <2>11, <2>12 DEF InvLugares
<1> QED BY <1>3, <1>4, <1>5 DEF bloquear_mutex

\* What the invariant says of a mutex that exists.
LEMMA MutexLugar ==
  ASSUME TipoMutexs, EsperaBien(mutexs), NEW p \in PIDs, NEW n \in Creados(p)
  PROVE  /\ n \in Nombres /\ mutexs[p][n] \in Recursos
         /\ mutexs[p][n].espera \in Seq(Hilos)
         /\ UnaVez(mutexs[p][n].espera, Hilos)
         /\ \A h \in ToSet(mutexs[p][n].espera) : h[1] = p
         /\ EsperanEn(mutexs, p, n) = ToSet(mutexs[p][n].espera)
         /\ EsperanEn(mutexs, p, n) \subseteq Esperan(mutexs)
<1>1. n \in Nombres /\ mutexs[p][n] \in Recursos /\ mutexs[p][n] # Nadie
  BY DEF TipoMutexs, Creados
<1>2. mutexs[p][n].espera \in Seq(Hilos)
  BY <1>1 DEF Recursos
<1>3. ToSet(mutexs[p][n].espera) \subseteq Hilos
  BY <1>2 DEF ToSet
<1>4. UnaVez(mutexs[p][n].espera, Hilos) /\ \A h \in ToSet(mutexs[p][n].espera) : h[1] = p
  BY <1>1 DEF EsperaBien
<1>5. EsperanEn(mutexs, p, n) = ToSet(mutexs[p][n].espera)
  BY <1>1, <1>3 DEF EsperanEn
<1>6. EsperanEn(mutexs, p, n) \subseteq Esperan(mutexs)
  BY <1>1, <1>4, <1>5, <1>3 DEF Esperan
<1> QED BY <1>1, <1>2, <1>4, <1>5, <1>6

\* What UNLOCK takes out of the queue of waiters: its head.
LEMMA SoltarLugar ==
  ASSUME NEW m \in Recursos, UnaVez(m.espera, Hilos), NEW h \in Hilos,
         NEW s, s = IF m.espera = <<>> THEN <<>> ELSE <<Head(m.espera)>>
  PROVE  /\ s \in Seq(ONulo(Hilos)) /\ UnaVez(s, Hilos) /\ ToSet(s) = DeCola(s)
         /\ Soltar(m) \in Recursos /\ UnaVez(Soltar(m).espera, Hilos)
         /\ Soltar(m).espera \in Seq(Hilos)
         /\ ToSet(m.espera) = ToSet(Soltar(m).espera) \cup DeCola(s)
         /\ ToSet(Soltar(m).espera) \cap DeCola(s) = {}
<1> DEFINE e == m.espera
           r == Soltar(m)
<1>1. e \in Seq(Hilos)
  BY DEF Recursos
<1>2. r \in Recursos
  BY OperadoresMutexTipo
<1>3. r.espera \in Seq(Hilos)
  BY <1>2 DEF Recursos
<1>4. CASE e = <<>>
  <2>1. s = <<>> /\ r.espera = <<>>
    BY <1>4 DEF Soltar, Recurso
  <2>2. /\ s \in Seq(ONulo(Hilos)) /\ UnaVez(s, Hilos) /\ DeCola(s) = {} /\ ToSet(s) = {}
        /\ ToSet(r.espera) = {} /\ ToSet(e) = {} /\ UnaVez(r.espera, Hilos)
    BY <1>4, <2>1, NingunHilo
  <2> HIDE DEF r, e
  <2>3. ToSet(e) = ToSet(r.espera) \cup DeCola(s) /\ ToSet(r.espera) \cap DeCola(s) = {}
    BY <2>2
  <2> QED BY <1>2, <1>3, <2>2, <2>3 DEF r, e
<1>5. CASE e # <<>>
  <2>1. s = <<Head(e)>> /\ r.espera = Tail(e)
    BY <1>5 DEF Soltar, Recurso
  <2>2. Head(e) \in Hilos /\ Tail(e) \in Seq(Hilos)
    BY <1>1, <1>5
  <2>3. Head(e) \in ONulo(Hilos)
    BY <2>2 DEF ONulo
  <2>4. /\ Subcola(Tail(e), e) /\ ToSet(e) = {Head(e)} \cup ToSet(Tail(e))
        /\ Head(e) \notin ToSet(Tail(e))
    BY <1>1, <1>5, <2>2, TailSubcola
  <2>5. UnaVez(Tail(e), Hilos)
    BY <1>1, <2>2, <2>4, SubcolaHereda
  <2>6. s \in Seq(ONulo(Hilos)) /\ UnaVez(s, Hilos) /\ DeCola(s) = DeHilo(Head(e)) /\ ToSet(s) = {Head(e)}
    BY <2>1, <2>3, UnSoloHilo
  <2>7. DeHilo(Head(e)) = {Head(e)}
    BY <2>2 DEF DeHilo
  <2> HIDE DEF r, e
  <2> QED BY <1>2, <1>3, <2>1, <2>4, <2>5, <2>6, <2>7 DEF e, r
<1> QED BY <1>4, <1>5

\* MUTEX_UNLOCK: the first waiter goes to its level.
LEMMA DesbloquearMutexLugares ==
  ASSUME TypeOK, InvLugares, cpu = "ejecuta", NEW n \in Nombres, desbloquear_mutex(n)
  PROVE  InvLugares' /\ Mueve /\ (n \in Creados(hilo_EXEC[1]) => Conserva)
<1> DEFINE pid == hilo_EXEC[1]
           m == mutexs[pid][n]
           s == IF m.espera = <<>> THEN <<>> ELSE <<Head(m.espera)>>
           r == Soltar(m)
<1>1. Tipos /\ hilo_EXEC \in Hilos /\ pid \in PIDs
  BY Partes, EjecutaHilo DEF Tipos
<1>2. CASE n \notin Creados(pid) /\ RecursoInexistente
  BY <1>2, InexistenteLugares
<1>3. CASE UNCHANGED <<colas, listos, tcbs, fin, hilos_bloqueados, cola_hilos_BLOCK,
                        mutexs, hilo_EXEC, kernel>>
  <2>1. UNCHANGED <<prox_tid, proximo_pid, prioridad, cola_hilos_NEW, listos, hilo_EXEC,
                  cola_hilos_BLOCK, cola_hilos_EXIT, liberados, lista_hilos, hilos_bloqueados, mutexs>>
    BY <1>3 DEF colas, tcbs, fin
  <2> QED BY <2>1, SinMoverLugares DEF InvLugares
<1>4. CASE /\ n \in Creados(pid)
           /\ mutexs' = [mutexs EXCEPT ![pid][n] = Soltar(@)]
           /\ colas_multi_level' = AgregarNivel(colas_multi_level, s, prioridad)
           /\ SigueElMismo
           /\ UNCHANGED <<colas, cola_hilos_READY, tcbs, fin, hilos_bloqueados, cola_hilos_BLOCK>>
  <2>1. mutexs' = [mutexs EXCEPT ![pid][n] = r]
    BY <1>1, <1>4 DEF Tipos, TipoMutexs
  <2>2. TipoMutexs /\ EsperaBien(mutexs) /\ n \in Creados(pid) /\ pid \in PIDs
    BY <1>1, <1>4 DEF Tipos, InvLugares
  <2>3. /\ m \in Recursos /\ UnaVez(m.espera, Hilos) /\ \A h \in ToSet(m.espera) : h[1] = pid
        /\ EsperanEn(mutexs, pid, n) = ToSet(m.espera)
        /\ EsperanEn(mutexs, pid, n) \subseteq Esperan(mutexs)
    BY <2>2, MutexLugar
  <2>4. /\ s \in Seq(ONulo(Hilos)) /\ UnaVez(s, Hilos)
        /\ r \in Recursos /\ UnaVez(r.espera, Hilos)
        /\ ToSet(m.espera) = ToSet(r.espera) \cup DeCola(s)
        /\ ToSet(r.espera) \cap DeCola(s) = {}
    BY <1>1, <2>3, SoltarLugar
  <2>5. colas_multi_level' = AgregarNivel(colas_multi_level, s, prioridad)
    BY <1>4
  <2> DEFINE E == ToSet(m.espera)
             R == ToSet(r.espera)
             S == DeCola(s)
  <2>6. E = R \cup S /\ R \cap S = {} /\ EsperanEn(mutexs, pid, n) = E /\ E \subseteq Esperan(mutexs)
    BY <2>3, <2>4
  <2>7. (\A h \in R : h[1] = pid)
        /\ \A h \in R : h \in EsperanEn(mutexs, pid, n) \/ h \notin Esperan(mutexs)
    BY <2>3, <2>4
  <2> HIDE DEF s, r, m, pid
  <2>8. /\ EsperaBien(mutexs')
        /\ Esperan(mutexs') = (Esperan(mutexs) \ EsperanEn(mutexs, pid, n)) \cup R
    BY <2>1, <2>2, <2>4, <2>7, EsperaCambia
  <2> HIDE DEF E, R, S
  <2>9. Esperan(mutexs') = Esperan(mutexs) \ S /\ S \subseteq Esperan(mutexs)
    BY <2>6, <2>8
  <2>10. S \cap DeNiveles(colas_multi_level) = {}
    BY <2>9 DEF InvLugares, LugaresAjenos, Ajenos
  <2>11. /\ colas_multi_level \in NivelesDe(Hilos) /\ prioridad \in [Hilos -> Prioridades]
         /\ NivelesBien(colas_multi_level, prioridad)
    BY <1>1 DEF Tipos, TipoListos, TipoTCB, InvLugares
  <2>12. /\ NivelesBien(colas_multi_level', prioridad)
         /\ DeNiveles(colas_multi_level') = DeNiveles(colas_multi_level) \cup S
    BY <2>4, <2>5, <2>10, <2>11, AgregarNivelLugar DEF S
  <2>13. UNCHANGED <<prox_tid, proximo_pid, prioridad, cola_hilos_NEW, cola_hilos_READY, hilo_EXEC,
                     cola_hilos_BLOCK, cola_hilos_EXIT, liberados, lista_hilos, hilos_bloqueados>>
    BY <1>4 DEF SigueElMismo, colas, tcbs, fin
  <2>14. LugaresAjenos'
    BY <2>9, <2>12, <2>13 DEF InvLugares, LugaresAjenos, Ajenos
  <2>15. Anotados(hilos_bloqueados') \cap NoBloqueados' = {}
    BY <2>9, <2>12, <2>13 DEF InvLugares, NoBloqueados
  <2>16. Mueve /\ Conserva
    BY <2>9, <2>12, <2>13 DEF Mueve, Conserva, EnCurso, Listos, Bloqueados
  <2> QED BY <2>8, <2>12, <2>13, <2>14, <2>15, <2>16 DEF InvLugares
<1> QED BY <1>2, <1>3, <1>4 DEF desbloquear_mutex

\* End of quantum: the thread that runs goes to the end of its level, and another is elected.
LEMMA FinQuantumLugares ==
  ASSUME TypeOK, InvLugares, cpu = "ejecuta", cambiar_hilo_exec_fin_Q
  PROVE  InvLugares' /\ Mueve /\ Conserva
<1> DEFINE v == AgregarNivel(colas_multi_level, <<hilo_EXEC>>, prioridad)
<1>1. Tipos
  BY Partes
<1>2. /\ hilo_EXEC \in Hilos /\ DeHilo(hilo_EXEC) = {hilo_EXEC} /\ hilo_EXEC \notin Anotados(hilos_bloqueados)
      /\ hilo_EXEC \notin SinCrear(prox_tid) \cup DeCola(cola_hilos_NEW)
            \cup DeCola(cola_hilos_READY) \cup DeNiveles(colas_multi_level)
            \cup cola_hilos_BLOCK \cup Esperan(mutexs) \cup cola_hilos_EXIT \cup liberados
  BY <1>1, EjecutaLugar DEF Tipos
<1>3. <<hilo_EXEC>> \in Seq(ONulo(Hilos)) /\ UnaVez(<<hilo_EXEC>>, Hilos)
      /\ DeCola(<<hilo_EXEC>>) = {hilo_EXEC}
  BY <1>2, UnSoloHilo DEF ONulo
<1>4. /\ colas_multi_level \in NivelesDe(Hilos) /\ prioridad \in [Hilos -> Prioridades]
      /\ NivelesBien(colas_multi_level, prioridad) /\ cola_hilos_READY \in Seq(ONulo(Hilos))
      /\ UnaVez(cola_hilos_READY, Hilos) /\ TipoTCB /\ TipoCPU
      /\ DeCola(cola_hilos_READY) \cap DeNiveles(colas_multi_level) = {}
  BY <1>1 DEF Tipos, TipoListos, TipoTCB, InvLugares, LugaresAjenos, Ajenos
<1>5. NivelesBien(v, prioridad) /\ DeNiveles(v) = DeNiveles(colas_multi_level) \cup {hilo_EXEC}
  <2> DEFINE s == <<hilo_EXEC>>
  <2>1. DeCola(s) \cap DeNiveles(colas_multi_level) = {}
    BY <1>2, <1>3
  <2>2. s \in Seq(ONulo(Hilos)) /\ UnaVez(s, Hilos) /\ DeCola(s) = {hilo_EXEC}
    BY <1>3
  <2>3. v = AgregarNivel(colas_multi_level, s, prioridad)
    OBVIOUS
  <2> HIDE DEF s, v
  <2> QED BY <1>4, <2>1, <2>2, <2>3, AgregarNivelLugar
<1>6. v \in NivelesDe(Hilos)
  BY <1>3, <1>4, AgregarNivelTipo
<1>7. elegir_hilo(cola_hilos_READY, v)
  BY DEF cambiar_hilo_exec_fin_Q
<1> HIDE DEF v
<1>8. DeCola(cola_hilos_READY) \cap DeNiveles(v) = {}
  BY <1>2, <1>4, <1>5
<1>9. /\ UnaVez(cola_hilos_READY', Hilos) /\ NivelesBien(colas_multi_level', prioridad)
      /\ DeCola(cola_hilos_READY') \subseteq DeCola(cola_hilos_READY)
      /\ DeNiveles(colas_multi_level') \subseteq DeNiveles(v)
      /\ DeHilo(hilo_EXEC') \subseteq DeCola(cola_hilos_READY) \cup DeNiveles(v)
      /\ DeHilo(hilo_EXEC') \cap DeCola(cola_hilos_READY') = {}
      /\ DeHilo(hilo_EXEC') \cap DeNiveles(colas_multi_level') = {}
      /\ DeCola(cola_hilos_READY) \cup DeNiveles(v)
           \subseteq DeCola(cola_hilos_READY') \cup DeNiveles(colas_multi_level') \cup DeHilo(hilo_EXEC')
  BY <1>4, <1>5, <1>6, <1>7, <1>8, ElegirLugar
<1>10. UNCHANGED <<prox_tid, proximo_pid, prioridad, cola_hilos_NEW, cola_hilos_BLOCK, cola_hilos_EXIT,
                   liberados, lista_hilos, hilos_bloqueados, mutexs>>
  BY DEF colas, tcbs, fin, cambiar_hilo_exec_fin_Q
<1>11. LugaresAjenos'
  BY <1>2, <1>5, <1>8, <1>9, <1>10 DEF InvLugares, LugaresAjenos, Ajenos
<1>12. Anotados(hilos_bloqueados') \cap NoBloqueados' = {}
  BY <1>2, <1>5, <1>9, <1>10 DEF InvLugares, NoBloqueados
<1>13. Mueve /\ Conserva
  BY <1>2, <1>5, <1>9, <1>10 DEF Mueve, Conserva, EnCurso, Listos, Bloqueados
<1> QED BY <1>9, <1>10, <1>11, <1>12, <1>13 DEF InvLugares

\* THREAD_EXIT and THREAD_CANCEL: the thread goes to EXIT from wherever it was, and the joiners
\* it wakes from BLOCK to the queue of the algorithm.
LEMMA FinalizarHiloLugares ==
  ASSUME TypeOK, InvLugares, cpu = "ejecuta", NEW tid \in TIDs, finalizar_hilo(tid)
  PROVE  InvLugares' /\ Mueve /\ Conserva
<1> DEFINE h == <<hilo_EXEC[1], tid>>
           ds == Despertados(h)
           cola == AgregarReady(ReadySin(h), ds)
           niveles == AgregarNiveles(NivelesSin(h), ds, prioridad)
<1>1. Tipos
  BY Partes
<1>2. h \in Hilos /\ hilo_EXEC \in Hilos
  BY <1>1, EjecutaHilo DEF Hilos, Tipos
<1>3. CASE (SigueElMismo \/ Cae) /\ (Cae \/ UNCHANGED <<colas, listos, tcbs, fin, mutexs, hilos_bloqueados,
                        cola_hilos_BLOCK>>)
  BY <1>3, QuietoLugares
<1>4. CASE /\ Encontrable(h)
           /\ hilos_bloqueados' = [hilos_bloqueados EXCEPT ![h] = NoVisitados(@)]
           /\ cola_hilos_BLOCK' = cola_hilos_BLOCK \ ({h} \cup ToSet(ds))
           /\ mutexs' = [mutexs EXCEPT ![h[1]] = SinEspera(@, h)]
           /\ PasaAExit(h)
           /\ \/ h = hilo_EXEC /\ elegir_hilo(cola, niveles)
              \/ /\ h # hilo_EXEC /\ SigueElMismo
                 /\ cola_hilos_READY' = cola /\ colas_multi_level' = niveles
           /\ UNCHANGED <<colas, tcbs, liberados>>
  <2> DEFINE R == DeCola(cola_hilos_READY)
             V == DeNiveles(colas_multi_level)
             W == Esperan(mutexs)
             A == Anotados(hilos_bloqueados)
             D == DeCola(ds)
  <2>1. /\ UnaVez(cola_hilos_READY, Hilos) /\ NivelesBien(colas_multi_level, prioridad)
        /\ EsperaBien(mutexs) /\ AnotadosUnaVez(hilos_bloqueados)
        /\ TipoListos /\ TipoTCB /\ TipoCPU /\ TipoMutexs /\ TipoEspera
    BY <1>1 DEF Tipos, InvLugares
  <2>a. R \cap V = {} /\ DeHilo(hilo_EXEC) = {hilo_EXEC}
        /\ hilo_EXEC \notin R \cup V \cup cola_hilos_BLOCK \cup W
        /\ A \cap (R \cup V \cup W \cup DeHilo(hilo_EXEC)) = {}
    <3>1. R \cap V = {}
      BY DEF InvLugares, LugaresAjenos, Ajenos
    <3>2. A \cap NoBloqueados = {}
      BY DEF InvLugares
    <3> QED BY <2>1, <3>1, <3>2, EjecutaLugar DEF NoBloqueados
  <2>2. /\ h[1] \in PIDs /\ h[2] \in TIDs
        /\ h \in DeHilo(hilo_EXEC) \cup (IF ALGORITMO = "CMN" THEN V ELSE R) \cup cola_hilos_BLOCK \cup W
    <3>1. h \in Hilos /\ h[1] \in PIDs /\ h[2] \in TIDs
      BY <1>2 DEF Hilos
    <3>2. EnReady(h) => h \in IF ALGORITMO = "CMN" THEN V ELSE R
      BY <3>1 DEF EnReady, EnNiveles, DeCola, DeNiveles
    <3>3. EnBlock(h) => h \in cola_hilos_BLOCK \cup W
      BY <3>1 DEF EnBlock, EnEspera, Creados, Esperan
    <3>4. h = hilo_EXEC => h \in DeHilo(hilo_EXEC)
      BY <3>1 DEF DeHilo
    <3> QED BY <1>4, <3>1, <3>2, <3>3, <3>4 DEF Encontrable
  <2> HIDE DEF h
  <2>3. /\ AnotadosUnaVez(hilos_bloqueados') /\ Anotados(hilos_bloqueados') \subseteq A
        /\ Anotados(hilos_bloqueados') \cap D = {} /\ D \subseteq A /\ UnaVez(ds, Hilos)
        /\ \A d \in D : EnBlock(d) /\ d # h
    BY <1>2, <1>4, <2>1, DespertadosLugar
  <2>4. D \subseteq cola_hilos_BLOCK \ {h}
    <3> SUFFICES ASSUME NEW d \in D PROVE d \in cola_hilos_BLOCK
      BY <2>3
    <3>1. d \in Hilos /\ EnBlock(d) /\ d \in A
      BY <2>3 DEF DeCola
    <3>2. d \notin W
      BY <2>a, <3>1
    <3> QED BY <3>1, <3>2 DEF EnBlock, EnEspera, Creados, Esperan
  <2>5. EsperaBien(mutexs') /\ Esperan(mutexs') = W \ {h}
    BY <1>2, <1>4, <2>1, SinEsperaLugar
  <2>6. /\ UnaVez(ReadySin(h), Hilos) /\ NivelesBien(NivelesSin(h), prioridad)
        /\ DeCola(ReadySin(h)) \subseteq R /\ DeNiveles(NivelesSin(h)) \subseteq V
        /\ R \ {h} \subseteq DeCola(ReadySin(h)) /\ V \ {h} \subseteq DeNiveles(NivelesSin(h))
        /\ IF ALGORITMO = "CMN" THEN h \notin DeNiveles(NivelesSin(h)) ELSE h \notin DeCola(ReadySin(h))
        /\ ReadySin(h) \in Seq(ONulo(Hilos)) /\ NivelesSin(h) \in NivelesDe(Hilos)
    BY <1>2, <2>1, QuitarLugar, SinListoTipo
  <2>7. ds \in Seq(ONulo(Hilos)) /\ prioridad \in [Hilos -> Prioridades]
    BY <1>2, <2>1, DespertadosTipo DEF TipoTCB
  <2>8. h \notin DeCola(ReadySin(h)) \cup DeNiveles(NivelesSin(h))
    BY <2>2, <2>6 DEF InvLugares, LugaresAjenos, Ajenos
  <2>9. D \cap (R \cup V \cup DeHilo(hilo_EXEC)) = {} /\ h \notin D
    BY <2>3, <2>a
  <2> DEFINE Q == DeCola(ReadySin(h))
             U == DeNiveles(NivelesSin(h))
  <2>10. D \cap Q = {} /\ D \cap U = {} /\ Q \cap U = {} /\ h \notin Q \cup U /\ Q \subseteq R /\ U \subseteq V
         /\ R \ {h} \subseteq Q /\ V \ {h} \subseteq U
    BY <2>6, <2>8, <2>9, <2>a
  <2>11. /\ UnaVez(cola, Hilos) /\ NivelesBien(niveles, prioridad)
         /\ DeCola(cola) \cap DeNiveles(niveles) = {}
         /\ DeCola(cola) \subseteq Q \cup D /\ DeNiveles(niveles) \subseteq U \cup D
         /\ Q \cup U \cup D \subseteq DeCola(cola) \cup DeNiveles(niveles)
         /\ cola \in Seq(ONulo(Hilos)) /\ niveles \in NivelesDe(Hilos)
    <3>1. cola \in Seq(ONulo(Hilos)) /\ niveles \in NivelesDe(Hilos)
      BY <2>6, <2>7, AgregarReadyTipo, AgregarNivelesTipo
    <3> HIDE DEF ds
    <3>2. /\ UnaVez(cola, Hilos) /\ NivelesBien(niveles, prioridad)
          /\ DeCola(cola) \cap DeNiveles(niveles) = {}
          /\ DeCola(cola) \subseteq Q \cup D /\ DeNiveles(niveles) \subseteq U \cup D
          /\ Q \subseteq DeCola(cola) /\ U \subseteq DeNiveles(niveles)
          /\ IF ALGORITMO = "CMN" THEN D \subseteq DeNiveles(niveles) ELSE D \subseteq DeCola(cola)
      BY <2>3, <2>6, <2>7, <2>10, AgregarLugar
    <3>3. Q \cup U \cup D \subseteq DeCola(cola) \cup DeNiveles(niveles)
      <4> HIDE DEF Q, U, D, cola, niveles
      <4> QED BY <3>2
    <3> QED BY <3>1, <3>2, <3>3
  <2> HIDE DEF cola, niveles, Q, U
  <2> DEFINE R1 == DeCola(cola_hilos_READY')
             V1 == DeNiveles(colas_multi_level')
             E1 == DeHilo(hilo_EXEC')
  <2>12. /\ UnaVez(cola_hilos_READY', Hilos) /\ NivelesBien(colas_multi_level', prioridad)
         /\ R1 \cap V1 = {} /\ E1 \cap R1 = {} /\ E1 \cap V1 = {}
         /\ R1 \cup V1 \cup E1 \subseteq (R \cup V \cup D \cup DeHilo(hilo_EXEC)) \ {h}
         /\ (R \cup V \cup D \cup DeHilo(hilo_EXEC)) \ {h} \subseteq R1 \cup V1 \cup E1
    <3>1. CASE h = hilo_EXEC /\ elegir_hilo(cola, niveles)
      <4>1. /\ UnaVez(cola_hilos_READY', Hilos) /\ NivelesBien(colas_multi_level', prioridad)
            /\ R1 \subseteq DeCola(cola) /\ V1 \subseteq DeNiveles(niveles)
            /\ E1 \subseteq DeCola(cola) \cup DeNiveles(niveles)
            /\ E1 \cap R1 = {} /\ E1 \cap V1 = {}
            /\ DeCola(cola) \cup DeNiveles(niveles) \subseteq R1 \cup V1 \cup E1
        BY <2>1, <2>11, <3>1, ElegirLugar
      <4> QED BY <2>a, <2>9, <2>10, <2>11, <3>1, <4>1
    <3>2. CASE h # hilo_EXEC /\ SigueElMismo /\ cola_hilos_READY' = cola /\ colas_multi_level' = niveles
      <4>1. R1 = DeCola(cola) /\ V1 = DeNiveles(niveles) /\ E1 = DeHilo(hilo_EXEC) /\ h \notin E1
        BY <2>a, <3>2 DEF SigueElMismo
      <4> QED BY <2>a, <2>9, <2>10, <2>11, <3>2, <4>1
    <3> QED BY <1>4, <3>1, <3>2 DEF cola, niveles, h
  <2>13. /\ UNCHANGED <<prox_tid, proximo_pid, prioridad, cola_hilos_NEW, liberados>>
         /\ cola_hilos_EXIT' = cola_hilos_EXIT \cup {h}
         /\ cola_hilos_BLOCK' \subseteq cola_hilos_BLOCK \ {h} /\ cola_hilos_BLOCK' \cap D = {}
         /\ cola_hilos_BLOCK \cap Hilos \subseteq cola_hilos_BLOCK' \cup {h} \cup D
         /\ lista_hilos' = lista_hilos \ {h}
    BY <1>4 DEF colas, tcbs, PasaAExit, DeCola
  <2> HIDE DEF R, V, W, A, D, R1, V1, E1
  <2>14. LugaresAjenos'
    BY <2>2, <2>4, <2>5, <2>12, <2>13 DEF InvLugares, LugaresAjenos, Ajenos, R, V, W, R1, V1, E1
  <2>15. Anotados(hilos_bloqueados') \cap NoBloqueados' = {}
    BY <2>3, <2>5, <2>12, <2>13 DEF InvLugares, NoBloqueados, R, V, W, A, R1, V1, E1
  <2>16. Mueve
    BY <2>4, <2>5, <2>12, <2>13
    DEF Mueve, EnCurso, Listos, Bloqueados, R, V, W, R1, V1, E1
  <2>17. Conserva
    <3>1. cola_hilos_BLOCK \subseteq Hilos
      BY <1>1 DEF Tipos, TipoEspera, TipoFin
    <3> QED BY <2>5, <2>12, <2>13, <3>1
        DEF Conserva, EnCurso, Listos, Bloqueados, R, V, W, R1, V1, E1
  <2> QED BY <2>3, <2>5, <2>12, <2>13, <2>14, <2>15, <2>16, <2>17 DEF InvLugares
<1> QED BY <1>3, <1>4 DEF finalizar_hilo

\* A TID handed out: the thread leaves the ones that have not been created.
LEMMA NuevoLugar ==
  ASSUME TipoTCB, NEW p \in PIDs, NEW h \in Hilos, h = <<p, prox_tid[p]>>,
         prox_tid' = [prox_tid EXCEPT ![p] = prox_tid[p] + 1]
  PROVE  h \in SinCrear(prox_tid) /\ SinCrear(prox_tid') = SinCrear(prox_tid) \ {h}
<1>1. \A q \in PIDs : prox_tid[q] \in Int
  BY ConstantesDelKernel DEF TipoTCB
<1>2. \A g \in Hilos : g[1] \in PIDs /\ g[2] \in Int /\ g = <<g[1], g[2]>>
  BY DEF Hilos, TIDs
<1>3. \A q \in PIDs : prox_tid'[q] = IF q = p THEN prox_tid[p] + 1 ELSE prox_tid[q]
  BY DEF TipoTCB
<1>4. h \in SinCrear(prox_tid)
  BY <1>1 DEF SinCrear
<1>5. ASSUME NEW g \in Hilos
      PROVE  g[2] >= prox_tid'[g[1]] <=> g[2] >= prox_tid[g[1]] /\ g # h
  <2>1. CASE g[1] # p
    BY <1>2, <1>3, <2>1
  <2>2. CASE g[1] = p
    <3>1. g = h <=> g[2] = prox_tid[p]
      BY <1>2, <2>2
    <3>2. prox_tid'[g[1]] = prox_tid[p] + 1 /\ prox_tid[g[1]] = prox_tid[p]
      BY <1>2, <1>3, <2>2
    <3>3. \A x, y \in Int : x >= y + 1 <=> x >= y /\ x # y
      OBVIOUS
    <3> QED BY <1>1, <1>2, <3>1, <3>2, <3>3
  <2> QED BY <2>1, <2>2
<1> QED BY <1>4, <1>5 DEF SinCrear

\* The priority of a thread of no level changes none.
LEMMA PrioridadLugar ==
  ASSUME TipoTCB, TipoListos, NivelesBien(colas_multi_level, prioridad), NEW h \in Hilos, NEW x,
         h \notin DeNiveles(colas_multi_level), prioridad' = [prioridad EXCEPT ![h] = x]
  PROVE  NivelesBien(colas_multi_level, prioridad')
<1>1. ASSUME NEW l \in Prioridades, NEW g \in ToSet(colas_multi_level[l])
      PROVE  prioridad'[g] = l
  <2>1. colas_multi_level[l] \in Seq(Hilos)
    BY DEF TipoListos, NivelesDe
  <2>2. g \in Hilos
    BY <2>1 DEF ToSet
  <2>3. g # h
    BY <2>2 DEF DeNiveles
  <2> QED BY <2>2, <2>3 DEF TipoTCB, NivelesBien
<1> QED BY <1>1 DEF NivelesBien

\* The threads admitted, and the ones that stay in NEW.
LEMMA AdmitirLugar ==
  ASSUME NEW hs \in Seq(Hilos), UnaVez(hs, Hilos), NEW k \in 0 .. Len(hs)
  PROVE  /\ SubSeq(hs, 1, k) \in Seq(ONulo(Hilos))
         /\ UnaVez(SubSeq(hs, 1, k), Hilos) /\ UnaVez(SubSeq(hs, k + 1, Len(hs)), Hilos)
         /\ DeCola(SubSeq(hs, 1, k)) \subseteq DeCola(hs)
         /\ DeCola(SubSeq(hs, k + 1, Len(hs))) \subseteq DeCola(hs)
         /\ DeCola(SubSeq(hs, 1, k)) \cap DeCola(SubSeq(hs, k + 1, Len(hs))) = {}
         /\ DeCola(hs) \subseteq DeCola(SubSeq(hs, 1, k)) \cup DeCola(SubSeq(hs, k + 1, Len(hs)))
<1> DEFINE a == SubSeq(hs, 1, k)
           b == SubSeq(hs, k + 1, Len(hs))
<1>1. a \in Seq(Hilos) /\ b \in Seq(Hilos)
  BY SubSeqTipo
<1>2. /\ Subcola(a, hs) /\ Subcola(b, hs)
      /\ ToSet(a) \cap ToSet(b) \cap Hilos = {}
  BY SubSeqSubcola
<1> HIDE DEF a, b
<1>3. ToSet(a) \subseteq ToSet(hs) /\ (UnaVez(hs, Hilos) => UnaVez(a, Hilos))
  BY ONLY <1>1, <1>2, hs \in Seq(Hilos), SubcolaHereda
<1>4. ToSet(b) \subseteq ToSet(hs) /\ (UnaVez(hs, Hilos) => UnaVez(b, Hilos))
  BY ONLY <1>1, <1>2, hs \in Seq(Hilos), SubcolaHereda
<1>5. ToSet(hs) \subseteq ToSet(a) \cup ToSet(b)
  <2> SUFFICES ASSUME NEW i \in 1 .. Len(hs) PROVE hs[i] \in ToSet(a) \cup ToSet(b)
    BY DEF ToSet
  <2>1. CASE i <= k
    <3>1. i \in 1 .. Len(a) /\ a[i] = hs[i]
      BY <2>1 DEF a
    <3> QED BY <1>1, <3>1 DEF ToSet
  <2>2. CASE i > k
    <3>1. (i - k) \in 1 .. Len(b) /\ b[i - k] = hs[i]
      BY <2>2 DEF b
    <3> QED BY <1>1, <3>1 DEF ToSet
  <2> QED BY <2>1, <2>2
<1> QED BY <1>1, <1>2, <1>3, <1>4, <1>5, HilosNulos DEF DeCola, a, b

\* A queue with more elements at the end, none of them a thread.
LEMMA ConcatNulos ==
  ASSUME NEW s \in Seq(ONulo(Hilos)), UnaVez(s, Hilos), NEW n \in Nat, NEW t,
         t = [i \in 1 .. n |-> Nadie]
  PROVE  UnaVez(s \o t, Hilos) /\ DeCola(s \o t) = DeCola(s) /\ s \o t \in Seq(ONulo(Hilos))
<1>1. t \in Seq(ONulo(Hilos))
  BY DEF ONulo
<1>2. DOMAIN t = 1 .. n /\ \A i \in DOMAIN t : t[i] = Nadie
  OBVIOUS
<1>3. UnaVez(t, Hilos) /\ ToSet(t) \cap Hilos = {}
  BY <1>2, ConstantesDelKernel DEF UnaVez, ToSet
<1>4. s \o t \in Seq(ONulo(Hilos)) /\ ToSet(s \o t) = ToSet(s) \cup ToSet(t)
  BY <1>1, ConcatSinRepetir
<1>5. UnaVez(s \o t, Hilos)
  BY <1>1, <1>3, ConcatUnaVez
<1> QED BY <1>3, <1>4, <1>5 DEF DeCola

\* The queue the algorithm elects from keeps no thread of the process that ends; the rest stays.
LEMMA SinProcesoLugar ==
  ASSUME TipoListos, TipoEspera, NEW pid,
         UnaVez(cola_hilos_READY, Hilos), NivelesBien(colas_multi_level, prioridad)
  PROVE  /\ ReadySinProceso(pid) \in Seq(ONulo(Hilos)) /\ NivelesSinProceso(pid) \in NivelesDe(Hilos)
         /\ UnaVez(ReadySinProceso(pid), Hilos) /\ NivelesBien(NivelesSinProceso(pid), prioridad)
         /\ DeCola(ReadySinProceso(pid)) \subseteq DeCola(cola_hilos_READY)
         /\ DeNiveles(NivelesSinProceso(pid)) \subseteq DeNiveles(colas_multi_level)
         /\ DeCola(cola_hilos_READY) \ Terminan(pid) \subseteq DeCola(ReadySinProceso(pid))
         /\ DeNiveles(colas_multi_level) \ Terminan(pid) \subseteq DeNiveles(NivelesSinProceso(pid))
         /\ IF ALGORITMO = "CMN" THEN DeNiveles(NivelesSinProceso(pid)) \cap Terminan(pid) = {}
                                 ELSE DeCola(ReadySinProceso(pid)) \cap Terminan(pid) = {}
<1>0. Cardinality(Nulos(pid)) \in Nat
  BY NulosFinitos
<1>1. CASE ALGORITMO = "CMN"
  <2>1. ReadySinProceso(pid) = cola_hilos_READY
        /\ NivelesSinProceso(pid) = [l \in Prioridades |-> Filtrar(colas_multi_level[l], Hilos \ Terminan(pid))]
    BY <1>1 DEF ReadySinProceso, NivelesSinProceso
  <2> DEFINE v == NivelesSinProceso(pid)
  <2>2. ASSUME NEW l \in Prioridades
        PROVE  /\ v[l] \in Seq(Hilos) /\ UnaVez(v[l], Hilos)
               /\ ToSet(v[l]) = ToSet(colas_multi_level[l]) \cap (Hilos \ Terminan(pid))
    <3> DEFINE s == colas_multi_level[l]
               t == Filtrar(s, Hilos \ Terminan(pid))
    <3>1. s \in Seq(Hilos) /\ UnaVez(s, Hilos) /\ v[l] = t
      BY <2>1 DEF TipoListos, NivelesDe, NivelesBien
    <3> HIDE DEF s
    <3>2. Hilos \cap (Hilos \ Terminan(pid)) \subseteq Hilos
      OBVIOUS
    <3>3. t \in Seq(Hilos) /\ Subcola(t, s) /\ ToSet(t) = ToSet(s) \cap (Hilos \ Terminan(pid))
      BY <3>1, <3>2, FiltrarTipo, FiltrarSubcola
    <3> HIDE DEF t
    <3>4. UnaVez(t, Hilos)
      BY <3>1, <3>3, SubcolaHereda
    <3> QED BY <3>1, <3>3, <3>4 DEF s
  <2>3. v \in NivelesDe(Hilos)
    BY <2>1, <2>2 DEF NivelesDe
  <2>4. NivelesBien(v, prioridad)
    BY <2>2 DEF NivelesBien
  <2>5. DeNiveles(v) \subseteq DeNiveles(colas_multi_level) /\ DeNiveles(v) \cap Terminan(pid) = {}
        /\ DeNiveles(colas_multi_level) \ Terminan(pid) \subseteq DeNiveles(v)
    BY <2>2 DEF DeNiveles
  <2> QED BY <1>1, <2>1, <2>3, <2>4, <2>5 DEF TipoListos
<1>2. CASE ALGORITMO # "CMN"
  <2> DEFINE s == cola_hilos_READY
             t == Filtrar(s, (Hilos \cup {Nadie}) \ Terminan(pid))
             u == [i \in 1 .. Cardinality(Nulos(pid)) |-> Nadie]
  <2>1. ReadySinProceso(pid) = t \o u /\ NivelesSinProceso(pid) = colas_multi_level
    BY <1>2 DEF ReadySinProceso, NivelesSinProceso
  <2>2. s \in Seq(ONulo(Hilos)) /\ UnaVez(s, Hilos)
    BY DEF TipoListos
  <2>3. ONulo(Hilos) \cap ((Hilos \cup {Nadie}) \ Terminan(pid)) \subseteq ONulo(Hilos)
    OBVIOUS
  <2>4. t \in Seq(ONulo(Hilos)) /\ Subcola(t, s)
        /\ ToSet(t) = ToSet(s) \cap ((Hilos \cup {Nadie}) \ Terminan(pid))
    BY <2>2, <2>3, FiltrarTipo, FiltrarSubcola
  <2> HIDE DEF t
  <2>5. UnaVez(t, Hilos)
    BY <2>2, <2>4, SubcolaHereda
  <2>6. UnaVez(t \o u, Hilos) /\ DeCola(t \o u) = DeCola(t) /\ t \o u \in Seq(ONulo(Hilos))
    BY <1>0, <2>4, <2>5, ConcatNulos
  <2> HIDE DEF u
  <2>7. DeCola(t) \subseteq DeCola(s) /\ DeCola(t) \cap Terminan(pid) = {}
        /\ DeCola(s) \ Terminan(pid) \subseteq DeCola(t)
    BY <2>4 DEF DeCola
  <2> QED BY <1>2, <2>1, <2>6, <2>7 DEF TipoListos
<1> QED BY <1>1, <1>2

\* Threads that leave C, or NEW, for the queue of the algorithm, or for no queue at all.
LEMMA NacerLugares ==
  ASSUME TypeOK, InvLugares, NEW h \in Hilos, h \in SinCrear(prox_tid),
         SinCrear(prox_tid') = SinCrear(prox_tid) \ {h}, SinTIDs(proximo_pid', prox_tid'),
         NEW x \in Prioridades, prioridad' = [prioridad EXCEPT ![h] = x],
         NEW a \in Seq(ONulo(Hilos)), UnaVez(a, Hilos), UnaVez(cola_hilos_NEW', Hilos),
         DeCola(a) \subseteq DeCola(cola_hilos_NEW) \cup {h},
         DeCola(cola_hilos_NEW') \subseteq DeCola(cola_hilos_NEW) \cup {h},
         DeCola(a) \cap DeCola(cola_hilos_NEW') = {},
         DeCola(cola_hilos_NEW) \subseteq DeCola(a) \cup DeCola(cola_hilos_NEW'),
         lista_hilos' \subseteq lista_hilos \cup DeCola(a),
         cola_hilos_READY' = AgregarReady(cola_hilos_READY, a),
         colas_multi_level' = AgregarNiveles(colas_multi_level, a, prioridad'),
         UNCHANGED <<hilo_EXEC, cola_hilos_BLOCK, cola_hilos_EXIT, liberados, mutexs, hilos_bloqueados>>
  PROVE  InvLugares' /\ Mueve /\ Conserva
<1> DEFINE R == DeCola(cola_hilos_READY)
           V == DeNiveles(colas_multi_level)
           S == DeCola(a)
<1>1. TipoTCB /\ TipoListos /\ UnaVez(cola_hilos_READY, Hilos) /\ NivelesBien(colas_multi_level, prioridad)
  BY Partes DEF Tipos, InvLugares
<1>2. h \notin V
  BY DEF InvLugares, LugaresAjenos, Ajenos
<1>3. NivelesBien(colas_multi_level, prioridad') /\ prioridad' \in [Hilos -> Prioridades]
  BY <1>1, <1>2, PrioridadLugar DEF TipoTCB
<1>4. S \cap R = {} /\ S \cap V = {} /\ R \cap V = {}
  BY DEF InvLugares, LugaresAjenos, Ajenos
<1>5. /\ UnaVez(cola_hilos_READY', Hilos) /\ NivelesBien(colas_multi_level', prioridad')
      /\ DeCola(cola_hilos_READY') \cap DeNiveles(colas_multi_level') = {}
      /\ DeCola(cola_hilos_READY') \subseteq R \cup S /\ DeNiveles(colas_multi_level') \subseteq V \cup S
      /\ R \cup V \cup S \subseteq DeCola(cola_hilos_READY') \cup DeNiveles(colas_multi_level')
  <2> DEFINE q == prioridad'
  <2>1. /\ cola_hilos_READY \in Seq(ONulo(Hilos)) /\ colas_multi_level \in NivelesDe(Hilos)
        /\ q \in [Hilos -> Prioridades] /\ NivelesBien(colas_multi_level, q)
        /\ cola_hilos_READY' = AgregarReady(cola_hilos_READY, a)
        /\ colas_multi_level' = AgregarNiveles(colas_multi_level, a, q)
    BY <1>1, <1>3 DEF TipoListos
  <2> HIDE DEF q, R, V, S
  <2>2. /\ UnaVez(AgregarReady(cola_hilos_READY, a), Hilos)
        /\ NivelesBien(AgregarNiveles(colas_multi_level, a, q), q)
        /\ DeCola(AgregarReady(cola_hilos_READY, a)) \cap DeNiveles(AgregarNiveles(colas_multi_level, a, q)) = {}
        /\ DeCola(AgregarReady(cola_hilos_READY, a)) \subseteq R \cup S
        /\ DeNiveles(AgregarNiveles(colas_multi_level, a, q)) \subseteq V \cup S
        /\ R \subseteq DeCola(AgregarReady(cola_hilos_READY, a))
        /\ V \subseteq DeNiveles(AgregarNiveles(colas_multi_level, a, q))
        /\ IF ALGORITMO = "CMN" THEN S \subseteq DeNiveles(AgregarNiveles(colas_multi_level, a, q))
                                ELSE S \subseteq DeCola(AgregarReady(cola_hilos_READY, a))
    BY <1>1, <1>4, <2>1, AgregarLugar DEF R, V, S
  <2>3. R \cup V \cup S \subseteq DeCola(cola_hilos_READY') \cup DeNiveles(colas_multi_level')
    BY <2>1, <2>2 DEF q
  <2> QED BY <2>1, <2>2, <2>3 DEF q
<1>a. /\ h \in SinCrear(prox_tid) /\ SinCrear(prox_tid') = SinCrear(prox_tid) \ {h}
      /\ S \subseteq DeCola(cola_hilos_NEW) \cup {h}
      /\ DeCola(cola_hilos_NEW') \subseteq DeCola(cola_hilos_NEW) \cup {h}
      /\ S \cap DeCola(cola_hilos_NEW') = {}
      /\ DeCola(cola_hilos_NEW) \subseteq S \cup DeCola(cola_hilos_NEW')
      /\ lista_hilos' \subseteq lista_hilos \cup S
      /\ UNCHANGED <<hilo_EXEC, cola_hilos_BLOCK, cola_hilos_EXIT, liberados, mutexs, hilos_bloqueados>>
  OBVIOUS
<1> HIDE DEF R, V, S
<1>6. LugaresAjenos'
  BY ONLY InvLugares, <1>a, <1>4, <1>5 DEF InvLugares, LugaresAjenos, Ajenos, R, V
<1>7. Anotados(hilos_bloqueados') \cap NoBloqueados' = {}
  BY ONLY InvLugares, <1>a, <1>5 DEF InvLugares, NoBloqueados, R, V
<1>8. Mueve
  BY ONLY <1>a, <1>5 DEF Mueve, EnCurso, Listos, Bloqueados, R, V
<1>9. Conserva
  BY ONLY <1>a, <1>5 DEF Conserva, EnCurso, Listos, Bloqueados, R, V
<1> QED BY <1>5, <1>6, <1>7, <1>8, <1>9 DEF InvLugares

\* THREAD_CREATE.
LEMMA CrearHiloLugares ==
  ASSUME InvNEW, InvLugares, cpu = "ejecuta", NEW prio \in Prioridades, crear_hilo(prio)
  PROVE  InvLugares' /\ Mueve /\ Conserva
<1>1. TypeOK /\ Tipos
  BY Partes DEF InvNEW
<1> PICK h \in Hilos : \E s \in {<<h>>, <<>>} :
      /\ h = <<hilo_EXEC[1], prox_tid[hilo_EXEC[1]]>>
      /\ cola_hilos_READY' = AgregarReady(cola_hilos_READY, s)
      /\ colas_multi_level' = AgregarNiveles(colas_multi_level, s, prioridad')
      /\ lista_hilos' = lista_hilos \cup ToSet(s)
  BY CrearHiloNEW
<1> PICK s \in {<<h>>, <<>>} :
      /\ h = <<hilo_EXEC[1], prox_tid[hilo_EXEC[1]]>>
      /\ cola_hilos_READY' = AgregarReady(cola_hilos_READY, s)
      /\ colas_multi_level' = AgregarNiveles(colas_multi_level, s, prioridad')
      /\ lista_hilos' = lista_hilos \cup ToSet(s)
  OBVIOUS
<1> DEFINE p == hilo_EXEC[1]
<1>2. /\ hilo_EXEC \in Hilos /\ p \in PIDs /\ hilo_EXEC[2] \in TIDs
      /\ hilo_EXEC \notin SinCrear(prox_tid)
  BY <1>1, EjecutaLugar, EjecutaHilo DEF Tipos
<1>3. /\ prox_tid' = [prox_tid EXCEPT ![p] = prox_tid[p] + 1]
      /\ prioridad' = [prioridad EXCEPT ![h] = prio]
      /\ cola_hilos_NEW' = cola_hilos_NEW /\ proximo_pid' = proximo_pid
      /\ UNCHANGED <<hilo_EXEC, cola_hilos_BLOCK, cola_hilos_EXIT, liberados, mutexs, hilos_bloqueados>>
  BY CrearHiloNEW DEF crear_hilo
<1>4. h \in SinCrear(prox_tid) /\ SinCrear(prox_tid') = SinCrear(prox_tid) \ {h}
  BY <1>1, <1>2, <1>3, NuevoLugar DEF Tipos
<1>5. SinTIDs(proximo_pid', prox_tid')
  <2>1. prox_tid[p] # 0
    <3>1. prox_tid[p] \in Int /\ hilo_EXEC[2] \in Nat
      BY <1>1, <1>2, ConstantesDelKernel DEF Tipos, TipoTCB, TIDs
    <3>2. ~(hilo_EXEC[2] >= prox_tid[p])
      BY <1>2 DEF SinCrear
    <3> QED BY <3>1, <3>2
  <2>2. ~(p >= proximo_pid)
    BY <1>2, <2>1 DEF InvLugares, SinTIDs
  <2> QED BY <1>1, <1>3, <2>2 DEF InvLugares, SinTIDs, Tipos, TipoTCB
<1>6. /\ s \in Seq(ONulo(Hilos)) /\ UnaVez(s, Hilos) /\ DeCola(s) \subseteq {h}
      /\ ToSet(s) \subseteq DeCola(s)
  <2>1. CASE s = <<h>>
    BY <2>1, UnSoloHilo DEF ONulo, DeHilo
  <2>2. CASE s = <<>>
    BY <2>2, NingunHilo
  <2> QED BY <2>1, <2>2
<1>7. UnaVez(cola_hilos_NEW', Hilos) /\ DeCola(cola_hilos_NEW') = DeCola(cola_hilos_NEW)
      /\ h \notin DeCola(cola_hilos_NEW)
  BY <1>3, <1>4 DEF InvLugares, LugaresAjenos, Ajenos
<1>8. DeCola(s) \cap DeCola(cola_hilos_NEW') = {}
      /\ DeCola(cola_hilos_NEW) \subseteq DeCola(s) \cup DeCola(cola_hilos_NEW')
      /\ lista_hilos' \subseteq lista_hilos \cup DeCola(s)
  BY <1>6, <1>7
<1> HIDE DEF p
<1> QED BY <1>1, <1>3, <1>4, <1>5, <1>6, <1>7, <1>8, NacerLugares

\* PROCESS_CREATE.
LEMMA CrearProcesoLugares ==
  ASSUME TypeOK, MismoLargo, InvLugares, cpu = "ejecuta", NEW prio \in Prioridades, crear_proceso(prio)
  PROVE  InvLugares' /\ Mueve /\ Conserva
<1> DEFINE p0 == proximo_pid
           h == <<p0, 0>>
           ps == Append(cola_procesos_NEW, p0)
           hs == Append(cola_hilos_NEW, h)
<1>1. Tipos /\ p0 \in PIDs /\ h \in Hilos
  BY Partes, ConstantesDelKernel DEF crear_proceso, Hilos, TIDs
<1> PICK k \in IF Len(ps) = 1 THEN {0, 1} ELSE {0} :
        /\ proximo_pid' = p0 + 1
        /\ prox_tid' = [prox_tid EXCEPT ![p0] = 1]
        /\ prioridad' = [prioridad EXCEPT ![h] = prio]
        /\ Admite(ps, hs, k)
        /\ cola_hilos_READY' = AgregarReady(cola_hilos_READY, SubSeq(hs, 1, k))
        /\ colas_multi_level' = AgregarNiveles(colas_multi_level, SubSeq(hs, 1, k), prioridad')
  BY DEF crear_proceso
<1>2. UNCHANGED <<hilo_EXEC, cola_hilos_BLOCK, cola_hilos_EXIT, liberados, mutexs, hilos_bloqueados,
                 lista_hilos>>
  BY DEF crear_proceso, SigueElMismo, fin
<1>3. p0 \in Nat /\ (\A q \in PIDs : q \in Nat) /\ prox_tid[p0] = 0
  BY <1>1 DEF InvLugares, SinTIDs, PIDs
<1>4. h \in SinCrear(prox_tid) /\ SinCrear(prox_tid') = SinCrear(prox_tid) \ {h}
  <2>1. h = <<p0, prox_tid[p0]>> /\ prox_tid' = [prox_tid EXCEPT ![p0] = prox_tid[p0] + 1]
    BY <1>3
  <2> HIDE DEF h, p0
  <2> QED BY <1>1, <2>1, NuevoLugar DEF Tipos
<1>5. SinTIDs(proximo_pid', prox_tid')
  BY <1>1, <1>3 DEF InvLugares, SinTIDs, Tipos, TipoTCB
<1> HIDE DEF h
<1>6. /\ cola_hilos_NEW \in Seq(Hilos) /\ UnaVez(cola_hilos_NEW, Hilos)
      /\ h \notin DeCola(cola_hilos_NEW) /\ h \notin ToSet(cola_hilos_NEW)
  <2>1. cola_hilos_NEW \in Seq(Hilos) /\ UnaVez(cola_hilos_NEW, Hilos)
    BY <1>1 DEF Tipos, TipoNEW, InvLugares
  <2>2. h \notin DeCola(cola_hilos_NEW)
    BY <1>4 DEF InvLugares, LugaresAjenos, Ajenos
  <2> QED BY <1>1, <2>1, <2>2 DEF DeCola
<1>7. hs \in Seq(Hilos) /\ UnaVez(hs, Hilos) /\ ToSet(hs) = ToSet(cola_hilos_NEW) \cup {h}
  BY <1>1, <1>6, AppendLugar
<1>8. k \in 0 .. Len(hs)
  BY <1>6
<1> HIDE DEF hs
<1> DEFINE a == SubSeq(hs, 1, k)
           b == SubSeq(hs, k + 1, Len(hs))
<1>9. /\ a \in Seq(ONulo(Hilos)) /\ UnaVez(a, Hilos) /\ UnaVez(b, Hilos)
      /\ DeCola(a) \subseteq DeCola(hs) /\ DeCola(b) \subseteq DeCola(hs)
      /\ DeCola(a) \cap DeCola(b) = {} /\ DeCola(hs) \subseteq DeCola(a) \cup DeCola(b)
  BY <1>7, <1>8, AdmitirLugar
<1>10. cola_hilos_NEW' = b
  BY DEF Admite, hs
<1>11. /\ cola_hilos_READY' = AgregarReady(cola_hilos_READY, a)
       /\ colas_multi_level' = AgregarNiveles(colas_multi_level, a, prioridad')
       /\ prioridad' = [prioridad EXCEPT ![h] = prio]
  BY DEF hs, h
<1>12. DeCola(hs) = DeCola(cola_hilos_NEW) \cup {h}
  BY <1>1, <1>7 DEF DeCola
<1> HIDE DEF a, b, p0
<1> QED BY <1>1, <1>2, <1>4, <1>5, <1>9, <1>10, <1>11, <1>12, NacerLugares

\* The end of a process: its threads are freed, wherever they were.
LEMMA FinalizarProcesoLugares ==
  ASSUME TypeOK, MismoLargo, InvLugares, cpu = "ejecuta", finalizar_proceso
  PROVE  InvLugares' /\ Mueve /\ Conserva
<1> DEFINE pid == hilo_EXEC[1]
           T == Terminan(pid)
           c == ReadySinProceso(pid)
           v == NivelesSinProceso(pid)
<1>1. Tipos /\ pid \in PIDs
  BY Partes, EjecutaHilo DEF Tipos
<1>2. CASE Cae
  BY <1>2, QuietoLugares
<1>3. ASSUME NEW k \in 0 .. Len(cola_procesos_NEW),
             Admite(cola_procesos_NEW, cola_hilos_NEW, k),
             elegir_hilo(AgregarReady(c, SubSeq(cola_hilos_NEW, 1, k)),
                         AgregarNiveles(v, SubSeq(cola_hilos_NEW, 1, k), prioridad)),
             cola_hilos_BLOCK' = cola_hilos_BLOCK \ T,
             cola_hilos_EXIT' = {},
             liberados' = liberados \cup cola_hilos_EXIT \cup T,
             hilos_bloqueados' = [h \in Hilos |-> IF h \in liberados' THEN <<>> ELSE hilos_bloqueados[h]],
             mutexs' = [mutexs EXCEPT ![pid] = SinMutexs],
             lista_hilos' = lista_hilos \ T,
             UNCHANGED tcbs
      PROVE  InvLugares' /\ Mueve /\ Conserva
  <2> DEFINE R == DeCola(cola_hilos_READY)
             V == DeNiveles(colas_multi_level)
             N == DeCola(cola_hilos_NEW)
             W == Esperan(mutexs)
             a == SubSeq(cola_hilos_NEW, 1, k)
             cola == AgregarReady(c, a)
             niveles == AgregarNiveles(v, a, prioridad)
  <2>1. /\ UnaVez(cola_hilos_READY, Hilos) /\ NivelesBien(colas_multi_level, prioridad)
        /\ EsperaBien(mutexs) /\ AnotadosUnaVez(hilos_bloqueados)
        /\ TipoListos /\ TipoTCB /\ TipoCPU /\ TipoMutexs /\ TipoEspera
        /\ cola_hilos_NEW \in Seq(Hilos) /\ UnaVez(cola_hilos_NEW, Hilos)
        /\ prioridad \in [Hilos -> Prioridades]
    BY <1>1 DEF Tipos, InvLugares, TipoNEW, TipoTCB
  <2>2. k \in 0 .. Len(cola_hilos_NEW)
    BY DEF MismoLargo
  <2>3. /\ a \in Seq(ONulo(Hilos)) /\ UnaVez(a, Hilos) /\ UnaVez(cola_hilos_NEW', Hilos)
        /\ DeCola(a) \subseteq N /\ DeCola(cola_hilos_NEW') \subseteq N
        /\ DeCola(a) \cap DeCola(cola_hilos_NEW') = {}
        /\ N \subseteq DeCola(a) \cup DeCola(cola_hilos_NEW')
    BY <1>3, <2>1, <2>2, AdmitirLugar DEF Admite
  <2>4. \A t \in T : t \in Hilos /\ t[1] = pid
                     /\ t \in DeHilo(hilo_EXEC) \cup (IF ALGORITMO = "CMN" THEN V ELSE R)
                              \cup cola_hilos_BLOCK \cup W
    <3> SUFFICES ASSUME NEW t \in T
                 PROVE  t \in Hilos /\ t[1] = pid
                     /\ t \in DeHilo(hilo_EXEC) \cup (IF ALGORITMO = "CMN" THEN V ELSE R)
                              \cup cola_hilos_BLOCK \cup W
      OBVIOUS
    <3>1. t \in Hilos /\ t[1] = pid /\ Encontrable(t)
      BY DEF Terminan
    <3>2. EnReady(t) => t \in IF ALGORITMO = "CMN" THEN V ELSE R
      BY <3>1 DEF EnReady, EnNiveles, DeCola, DeNiveles
    <3>3. EnBlock(t) => t \in cola_hilos_BLOCK \cup W
      BY <3>1 DEF EnBlock, EnEspera, Creados, Esperan
    <3>4. t = hilo_EXEC => t \in DeHilo(hilo_EXEC)
      BY <3>1 DEF DeHilo
    <3> QED BY <3>1, <3>2, <3>3, <3>4 DEF Encontrable
  <2>5. /\ c \in Seq(ONulo(Hilos)) /\ v \in NivelesDe(Hilos)
        /\ UnaVez(c, Hilos) /\ NivelesBien(v, prioridad)
        /\ DeCola(c) \subseteq R /\ DeNiveles(v) \subseteq V
        /\ R \ T \subseteq DeCola(c) /\ V \ T \subseteq DeNiveles(v)
        /\ IF ALGORITMO = "CMN" THEN DeNiveles(v) \cap T = {} ELSE DeCola(c) \cap T = {}
    BY <2>1, SinProcesoLugar
  <2>6. /\ EsperaBien(mutexs') /\ Esperan(mutexs') = {h \in W : h[1] # pid}
    BY <1>1, <1>3, <2>1, SinMutexsLugar
  <2>b. DeHilo(hilo_EXEC) \subseteq T /\ W \subseteq T \cup {h \in W : h[1] # pid}
    <3>1. \A h \in Hilos : h[2] \in Int /\ prox_tid[h[1]] \in Int
      BY <2>1, ConstantesDelKernel DEF TipoTCB, Hilos, TIDs
    <3>2. \A h \in Hilos : h \notin SinCrear(prox_tid) => h[2] < prox_tid[h[1]]
      BY <3>1 DEF SinCrear
    <3>3. (DeHilo(hilo_EXEC) \cup W) \cap SinCrear(prox_tid) = {}
      BY DEF InvLugares, LugaresAjenos, Ajenos
    <3>4. \A h \in W : Encontrable(h)
      BY DEF Esperan, Encontrable, EnBlock, EnEspera, Creados
    <3>5. DeHilo(hilo_EXEC) \subseteq Hilos /\ W \subseteq Hilos
          /\ \A h \in DeHilo(hilo_EXEC) : h[1] = pid /\ Encontrable(h)
      BY DEF DeHilo, Esperan, Encontrable
    <3> QED BY <3>2, <3>3, <3>4, <3>5 DEF Terminan
  <2>7. /\ AnotadosUnaVez(hilos_bloqueados')
        /\ Anotados(hilos_bloqueados') \subseteq Anotados(hilos_bloqueados)
    BY <1>3, <2>1, OlvidarLugar
  <2>8. UNCHANGED <<prox_tid, proximo_pid, prioridad>>
    BY <1>3 DEF tcbs
  <2> HIDE DEF T, c, v, pid
  <2>9. T \cap (SinCrear(prox_tid) \cup N \cup cola_hilos_EXIT \cup liberados) = {}
        /\ (IF ALGORITMO = "CMN" THEN T \cap R = {} ELSE T \cap V = {})
        /\ R \cap V = {} /\ N \cap R = {} /\ N \cap V = {}
    BY <2>4 DEF InvLugares, LugaresAjenos, Ajenos
  <2>10. /\ DeCola(c) \cap DeNiveles(v) = {} /\ (DeCola(c) \cup DeNiveles(v)) \cap T = {}
         /\ DeCola(a) \cap DeCola(c) = {} /\ DeCola(a) \cap DeNiveles(v) = {} /\ DeCola(a) \cap T = {}
    BY <2>3, <2>5, <2>9
  <2> HIDE DEF a
  <2>11. /\ UnaVez(cola, Hilos) /\ NivelesBien(niveles, prioridad)
         /\ DeCola(cola) \cap DeNiveles(niveles) = {}
         /\ DeCola(cola) \subseteq DeCola(c) \cup DeCola(a)
         /\ DeNiveles(niveles) \subseteq DeNiveles(v) \cup DeCola(a)
         /\ DeCola(c) \cup DeNiveles(v) \cup DeCola(a) \subseteq DeCola(cola) \cup DeNiveles(niveles)
         /\ cola \in Seq(ONulo(Hilos)) /\ niveles \in NivelesDe(Hilos)
    <3>1. cola \in Seq(ONulo(Hilos)) /\ niveles \in NivelesDe(Hilos)
      BY <2>3, <2>5, AgregarReadyTipo, AgregarNivelesTipo
    <3>2. /\ UnaVez(cola, Hilos) /\ NivelesBien(niveles, prioridad)
          /\ DeCola(cola) \cap DeNiveles(niveles) = {}
          /\ DeCola(cola) \subseteq DeCola(c) \cup DeCola(a)
          /\ DeNiveles(niveles) \subseteq DeNiveles(v) \cup DeCola(a)
          /\ DeCola(c) \subseteq DeCola(cola) /\ DeNiveles(v) \subseteq DeNiveles(niveles)
          /\ IF ALGORITMO = "CMN" THEN DeCola(a) \subseteq DeNiveles(niveles) ELSE DeCola(a) \subseteq DeCola(cola)
      BY <2>1, <2>3, <2>5, <2>10, AgregarLugar
    <3>3. DeCola(c) \cup DeNiveles(v) \cup DeCola(a) \subseteq DeCola(cola) \cup DeNiveles(niveles)
      <4> HIDE DEF cola, niveles
      <4> QED BY <3>2
    <3> QED BY <3>1, <3>2, <3>3
  <2>12. elegir_hilo(cola, niveles)
    BY <1>3 DEF a, c, v
  <2> HIDE DEF cola, niveles
  <2> DEFINE R1 == DeCola(cola_hilos_READY')
             V1 == DeNiveles(colas_multi_level')
             E1 == DeHilo(hilo_EXEC')
  <2>13. /\ UnaVez(cola_hilos_READY', Hilos) /\ NivelesBien(colas_multi_level', prioridad)
         /\ R1 \subseteq DeCola(cola) /\ V1 \subseteq DeNiveles(niveles)
         /\ E1 \subseteq DeCola(cola) \cup DeNiveles(niveles)
         /\ E1 \cap R1 = {} /\ E1 \cap V1 = {}
         /\ DeCola(cola) \cup DeNiveles(niveles) \subseteq R1 \cup V1 \cup E1
    BY <2>1, <2>11, <2>12, ElegirLugar
  <2>14. /\ R1 \cap V1 = {} /\ (R1 \cup V1 \cup E1) \cap T = {}
         /\ R1 \cup V1 \cup E1 \subseteq R \cup V \cup DeCola(a)
         /\ DeCola(a) \cap DeCola(cola_hilos_NEW') = {} /\ DeCola(a) \subseteq N
         /\ ((R \cup V) \ T) \cup DeCola(a) \subseteq R1 \cup V1 \cup E1
    BY <2>3, <2>5, <2>10, <2>11, <2>13
  <2>15. /\ Esperan(mutexs') \subseteq W /\ Esperan(mutexs') \cap T = {}
         /\ W \subseteq T \cup Esperan(mutexs')
    BY <2>4, <2>6, <2>b
  <2> HIDE DEF R, V, W, N, R1, V1, E1
  <2>a. /\ cola_hilos_BLOCK' = cola_hilos_BLOCK \ T /\ cola_hilos_EXIT' = {}
        /\ liberados' = liberados \cup cola_hilos_EXIT \cup T /\ prox_tid' = prox_tid
        /\ DeCola(cola_hilos_NEW') \subseteq N
        /\ E1 \cap R1 = {} /\ E1 \cap V1 = {}
        /\ T \cap (SinCrear(prox_tid) \cup N \cup cola_hilos_EXIT \cup liberados) = {}
    BY <1>3, <2>3, <2>8, <2>9, <2>13 DEF T, N
  <2>16. LugaresAjenos'
    BY ONLY InvLugares, <2>a, <2>14, <2>15
    DEF InvLugares, LugaresAjenos, Ajenos, R, V, W, N, R1, V1, E1
  <2>17. Anotados(hilos_bloqueados') \cap NoBloqueados' = {}
    BY <2>3, <2>7, <2>8, <2>14, <2>15 DEF InvLugares, NoBloqueados, R, V, W, N, R1, V1, E1
  <2>c. /\ N \subseteq DeCola(a) \cup DeCola(cola_hilos_NEW') /\ DeHilo(hilo_EXEC) \subseteq T
        /\ lista_hilos' = lista_hilos \ T
    BY <1>3, <2>3, <2>b
  <2>18. Mueve
    BY ONLY <2>a, <2>c, <2>14, <2>15
    DEF Mueve, EnCurso, Listos, Bloqueados, R, V, W, N, R1, V1, E1
  <2>19. Conserva
    BY ONLY <2>a, <2>c, <2>14, <2>15
    DEF Conserva, EnCurso, Listos, Bloqueados, R, V, W, N, R1, V1, E1
  <2> QED BY <2>3, <2>6, <2>7, <2>8, <2>13, <2>16, <2>17, <2>18, <2>19 DEF InvLugares
<1> QED BY <1>2, <1>3 DEF finalizar_proceso

\* At the start the only thread is the first of the first process.
LEMMA InitLugares == Init => InvLugares
<1> SUFFICES ASSUME Init PROVE InvLugares
  OBVIOUS
<1> USE DEF Init
<1> DEFINE h == <<1, 0>>
<1>1. 1 \in PIDs /\ h \in Hilos /\ \A p \in PIDs : p \in Int
  BY ConstantesDelKernel DEF PIDs, TIDs, Hilos
<1>2. h \notin SinCrear(prox_tid)
  BY <1>1 DEF SinCrear
<1>3. DeCola(cola_hilos_READY) = {} /\ UnaVez(cola_hilos_READY, Hilos)
  BY NingunHilo
<1>4. DeNiveles(colas_multi_level) = {} /\ NivelesBien(colas_multi_level, prioridad)
  BY NingunHilo DEF DeNiveles, NivelesBien
<1>5. Esperan(mutexs) = {} /\ EsperaBien(mutexs)
  <2>1. \A p \in PIDs : \A n \in Nombres : mutexs[p][n] = Nadie
    BY DEF SinMutexs
  <2>2. \A g \in Hilos : g[1] \in PIDs
    BY DEF Hilos
  <2> QED BY <2>1, <2>2 DEF Esperan, EsperaBien
<1>6. Anotados(hilos_bloqueados) = {} /\ AnotadosUnaVez(hilos_bloqueados)
  <2>1. \A g \in Hilos : hilos_bloqueados[g] = <<>> /\ DOMAIN hilos_bloqueados[g] = {}
    OBVIOUS
  <2> QED BY <2>1 DEF Anotados, AnotadosUnaVez
<1>7. SinTIDs(proximo_pid, prox_tid)
  BY <1>1 DEF SinTIDs
<1>8. /\ DeCola(cola_hilos_NEW) \cup DeHilo(hilo_EXEC) \subseteq {h} /\ UnaVez(cola_hilos_NEW, Hilos)
      /\ DeCola(cola_hilos_NEW) = {} \/ DeHilo(hilo_EXEC) = {}
  <2>1. CASE cola_hilos_NEW = <<>> /\ hilo_EXEC = h
    BY <2>1, NingunHilo DEF DeHilo
  <2>2. CASE cola_hilos_NEW = <<h>> /\ hilo_EXEC = Nadie
    <3>1. h \in ONulo(Hilos)
      BY <1>1 DEF ONulo
    <3>2. DeCola(<<h>>) = DeHilo(h) /\ UnaVez(<<h>>, Hilos)
      BY <3>1, UnSoloHilo
    <3>3. DeHilo(Nadie) = {} /\ DeHilo(h) \subseteq {h}
      BY ConstantesDelKernel DEF DeHilo
    <3> QED BY <2>2, <3>2, <3>3
  <2> QED BY <2>1, <2>2
<1>9. cola_hilos_BLOCK = {} /\ cola_hilos_EXIT = {} /\ liberados = {}
  OBVIOUS
<1> HIDE DEF h, Init
<1>10. LugaresAjenos
  BY <1>2, <1>3, <1>4, <1>5, <1>8, <1>9 DEF LugaresAjenos, Ajenos
<1> QED BY <1>3, <1>4, <1>5, <1>6, <1>7, <1>8, <1>10 DEF InvLugares

\* Every step keeps the invariant.
LEMMA NextLugares ==
  ASSUME InvNEW, MismoLargo, InvLugares, [Next]_vars
  PROVE  InvLugares' /\ Mueve /\ (Disciplina => Conserva)
<1> USE DEF Peticion
<1>0. TypeOK
  BY DEF InvNEW
<1>1. CASE ProcessCreate
  BY <1>0, <1>1, CrearProcesoLugares DEF ProcessCreate
<1>2. CASE ThreadCreate
  BY <1>2, CrearHiloLugares DEF ThreadCreate
<1>3. CASE ThreadJoin
  BY <1>0, <1>3, JoinLugares DEF ThreadJoin
<1>4. CASE ThreadCancel \/ ThreadExit
  <2>1. hilo_EXEC[2] \in TIDs
    BY <1>0, <1>4, EjecutaHilo, Partes DEF ThreadCancel, ThreadExit, Tipos
  <2> QED BY <1>0, <1>4, <2>1, FinalizarHiloLugares DEF ThreadCancel, ThreadExit
<1>5. CASE ProcessExit \/ SegmentationFault
  BY <1>0, <1>5, FinalizarProcesoLugares DEF ProcessExit, SegmentationFault
<1>6. CASE MutexCreate
  BY <1>0, <1>6, CrearMutexLugares DEF MutexCreate
<1>7. CASE MutexLock
  BY <1>0, <1>7, BloquearMutexLugares DEF MutexLock, Creado
<1>8. CASE MutexUnlock
  BY <1>0, <1>8, DesbloquearMutexLugares DEF MutexUnlock, Tomado, Creado
<1>9. CASE FinQuantum
  BY <1>0, <1>9, FinQuantumLugares DEF FinQuantum
<1>10. CASE UNCHANGED vars
  <2>1. UNCHANGED <<prox_tid, proximo_pid, prioridad, cola_hilos_NEW, listos, hilo_EXEC,
                    cola_hilos_BLOCK, cola_hilos_EXIT, liberados, lista_hilos, hilos_bloqueados, mutexs>>
    BY <1>10 DEF vars, colas, listos, tcbs, fin
  <2> QED BY <2>1, SinMoverLugares DEF InvLugares
<1> QED BY <1>1, <1>2, <1>3, <1>4, <1>5, <1>6, <1>7, <1>8, <1>9, <1>10 DEF Next

-----------------------------------------------------------------------------
(* The properties *)

\* Each kind of place of a thread that is in one.
LEMMA LugarDe ==
  ASSUME TypeOK, EsperaBien(mutexs), NEW h \in Hilos, NEW a \in Lugares(h)
  PROVE  \/ a = <<"EXEC", 0, 1>> /\ h \in DeHilo(hilo_EXEC)
         \/ a = <<"BLOCK", 0, 1>> /\ h \in cola_hilos_BLOCK
         \/ a = <<"EXIT", 0, 1>> /\ h \in cola_hilos_EXIT
         \/ h \in DeCola(cola_hilos_NEW) /\ \E i \in En(cola_hilos_NEW, h) : a = <<"NEW", 0, i>>
         \/ h \in DeCola(cola_hilos_READY) /\ \E i \in En(cola_hilos_READY, h) : a = <<"READY", 0, i>>
         \/ h \in DeNiveles(colas_multi_level) /\ \E l \in Prioridades :
              \E i \in En(colas_multi_level[l], h) : a = <<"NIVEL", l, i>>
         \/ h \in Esperan(mutexs) /\ \E n \in Creados(h[1]) :
              \E i \in En(mutexs[h[1]][n].espera, h) : a = <<"ESPERA", n, i>>
<1> DEFINE Ejecucion == {<<"EXEC", 0, 1>> : x \in {hilo_EXEC} \cap {h}}
<1> DEFINE Bloqueo == {<<"BLOCK", 0, 1>> : x \in cola_hilos_BLOCK \cap {h}}
<1> DEFINE Salida == {<<"EXIT", 0, 1>> : x \in cola_hilos_EXIT \cap {h}}
<1> DEFINE Nuevo == {<<"NEW", 0, i>> : i \in En(cola_hilos_NEW, h)}
<1> DEFINE Listo == {<<"READY", 0, i>> : i \in En(cola_hilos_READY, h)}
<1> DEFINE Nivel == UNION {{<<"NIVEL", l, i>> : i \in En(colas_multi_level[l], h)} : l \in Prioridades}
<1> DEFINE Espera == UNION {UNION {{<<"ESPERA", n, i>> : i \in En(mutexs[p][n].espera, h)} :
                              n \in Creados(p)} : p \in PIDs}
<1>0. \/ a \in Ejecucion \/ a \in Bloqueo \/ a \in Salida \/ a \in Nuevo
      \/ a \in Listo \/ a \in Nivel \/ a \in Espera
  <2>1. Lugares(h) = Ejecucion \cup Bloqueo \cup Salida \cup Nuevo \cup Listo \cup Nivel \cup Espera
    BY Zenon DEF Lugares
  <2> HIDE DEF Ejecucion, Bloqueo, Salida, Nuevo, Listo, Nivel, Espera
  <2> QED BY <2>1
<1>1. ASSUME NEW s, NEW i \in En(s, h) PROVE h \in ToSet(s)
  BY Zenon DEF En, ToSet
<1>2. CASE a \in Ejecucion
  BY <1>2 DEF DeHilo
<1>3. CASE a \in Bloqueo
  <2>1. h \in cola_hilos_BLOCK /\ a = <<"BLOCK", 0, 1>>
    BY <1>3
  <2> QED BY <2>1
<1>4. CASE a \in Salida
  BY <1>4
<1>5. CASE a \in Nuevo
  BY <1>1, <1>5 DEF DeCola
<1>6. CASE a \in Listo
  BY <1>1, <1>6 DEF DeCola
<1>7. CASE a \in Nivel
  BY <1>1, <1>7 DEF DeNiveles
<1>8. CASE a \in Espera
  <2>1. PICK p \in PIDs : a \in UNION {{<<"ESPERA", n, i>> : i \in En(mutexs[p][n].espera, h)} :
                         n \in Creados(p)}
    BY <1>8
  <2>2. PICK n \in Creados(p) : a \in {<<"ESPERA", n, i>> : i \in En(mutexs[p][n].espera, h)}
    BY <2>1
  <2>3. PICK i \in En(mutexs[p][n].espera, h) : a = <<"ESPERA", n, i>>
    BY <2>2
  <2>4. TipoMutexs
    BY Partes DEF Tipos
  <2>5. h \in ToSet(mutexs[p][n].espera) /\ h[1] = p /\ h \in Esperan(mutexs)
    <3>1. h \in ToSet(mutexs[p][n].espera)
      BY <1>1
    <3>2. EsperanEn(mutexs, p, n) = ToSet(mutexs[p][n].espera)
          /\ EsperanEn(mutexs, p, n) \subseteq Esperan(mutexs)
          /\ \A g \in ToSet(mutexs[p][n].espera) : g[1] = p
      BY <2>4, MutexLugar
    <3> QED BY <3>1, <3>2
  <2> QED BY <2>3, <2>5
<1> QED BY <1>0, <1>2, <1>3, <1>4, <1>5, <1>6, <1>7, <1>8, Zenon

\* A thread of a queue that repeats none is at one position of it.
LEMMA UnaPosicion ==
  ASSUME NEW s, UnaVez(s, Hilos), NEW h \in Hilos, NEW i \in En(s, h), NEW j \in En(s, h)
  PROVE  i = j
BY DEF En, UnaVez

\* No thread is in two places, and none that was freed is in any: whatever the algorithm and the
\* requests are, each handler takes the TCB out of one queue before it puts it in another.
LEMMA InvLugaresUnSoloLugar ==
  ASSUME TypeOK, InvLugares
  PROVE  UnSoloLugar
<1>1. /\ UnaVez(cola_hilos_NEW, Hilos) /\ UnaVez(cola_hilos_READY, Hilos)
      /\ NivelesBien(colas_multi_level, prioridad) /\ EsperaBien(mutexs) /\ LugaresAjenos
  BY DEF InvLugares
<1>2. ASSUME NEW h \in Hilos, h \in liberados, NEW a \in Lugares(h)
      PROVE  FALSE
  <2>1. h \notin DeCola(cola_hilos_NEW) \cup DeCola(cola_hilos_READY) \cup DeNiveles(colas_multi_level)
          \cup DeHilo(hilo_EXEC) \cup cola_hilos_BLOCK \cup Esperan(mutexs) \cup cola_hilos_EXIT
    BY <1>1, <1>2 DEF LugaresAjenos, Ajenos
  <2> QED BY <1>1, <2>1, LugarDe
<1>3. ASSUME NEW h \in Hilos, NEW a \in Lugares(h), NEW b \in Lugares(h)
      PROVE  a = b
  <2> DEFINE Lugar(c) ==
         \/ c = <<"EXEC", 0, 1>> /\ h \in DeHilo(hilo_EXEC)
         \/ c = <<"BLOCK", 0, 1>> /\ h \in cola_hilos_BLOCK
         \/ c = <<"EXIT", 0, 1>> /\ h \in cola_hilos_EXIT
         \/ h \in DeCola(cola_hilos_NEW) /\ \E i \in En(cola_hilos_NEW, h) : c = <<"NEW", 0, i>>
         \/ h \in DeCola(cola_hilos_READY) /\ \E i \in En(cola_hilos_READY, h) : c = <<"READY", 0, i>>
         \/ h \in DeNiveles(colas_multi_level) /\ \E l \in Prioridades :
              \E i \in En(colas_multi_level[l], h) : c = <<"NIVEL", l, i>>
         \/ h \in Esperan(mutexs) /\ \E n \in Creados(h[1]) :
              \E i \in En(mutexs[h[1]][n].espera, h) : c = <<"ESPERA", n, i>>
  <2>1. Lugar(a) /\ Lugar(b)
    BY <1>1, LugarDe
  <2>2. /\ h \in DeCola(cola_hilos_NEW) => h \notin DeCola(cola_hilos_READY) \cup DeNiveles(colas_multi_level)
             \cup DeHilo(hilo_EXEC) \cup cola_hilos_BLOCK \cup Esperan(mutexs) \cup cola_hilos_EXIT
        /\ h \in DeCola(cola_hilos_READY) => h \notin DeNiveles(colas_multi_level)
             \cup DeHilo(hilo_EXEC) \cup cola_hilos_BLOCK \cup Esperan(mutexs) \cup cola_hilos_EXIT
        /\ h \in DeNiveles(colas_multi_level) => h \notin
             DeHilo(hilo_EXEC) \cup cola_hilos_BLOCK \cup Esperan(mutexs) \cup cola_hilos_EXIT
        /\ h \in DeHilo(hilo_EXEC) => h \notin cola_hilos_BLOCK \cup Esperan(mutexs) \cup cola_hilos_EXIT
        /\ h \in cola_hilos_BLOCK => h \notin Esperan(mutexs) \cup cola_hilos_EXIT
        /\ h \in Esperan(mutexs) => h \notin cola_hilos_EXIT
    BY <1>1 DEF LugaresAjenos, Ajenos
  <2>3. CASE h \in DeHilo(hilo_EXEC) \cup cola_hilos_BLOCK \cup cola_hilos_EXIT
    BY <2>1, <2>2, <2>3
  <2>4. CASE h \in DeCola(cola_hilos_NEW)
    BY <1>1, <2>1, <2>2, <2>4, UnaPosicion
  <2>5. CASE h \in DeCola(cola_hilos_READY)
    BY <1>1, <2>1, <2>2, <2>5, UnaPosicion
  <2>6. CASE h \in DeNiveles(colas_multi_level)
    <3>1. ASSUME NEW l \in Prioridades, NEW i \in En(colas_multi_level[l], h)
          PROVE  prioridad[h] = l /\ UnaVez(colas_multi_level[l], Hilos)
      BY <1>1 DEF NivelesBien, En, ToSet
    <3>2. PICK l \in Prioridades, i \in En(colas_multi_level[prioridad[h]], h) :
                a = <<"NIVEL", l, i>> /\ l = prioridad[h]
      BY <2>1, <2>2, <2>6, <3>1
    <3>3. PICK m \in Prioridades, j \in En(colas_multi_level[prioridad[h]], h) :
                b = <<"NIVEL", m, j>> /\ m = prioridad[h]
      BY <2>1, <2>2, <2>6, <3>1
    <3>4. UnaVez(colas_multi_level[l], Hilos) /\ i = j
      BY <3>1, <3>2, <3>3, UnaPosicion
    <3> QED BY <3>2, <3>3, <3>4
  <2>7. CASE h \in Esperan(mutexs)
    <3>0. h[1] \in PIDs /\ Creados(h[1]) \subseteq Nombres
          /\ \A n \in Creados(h[1]) : mutexs[h[1]][n] # Nadie
      BY DEF Hilos, Creados
    <3>1. PICK n \in Creados(h[1]) : \E i \in En(mutexs[h[1]][n].espera, h) : a = <<"ESPERA", n, i>>
      BY <2>1, <2>2, <2>7
    <3>2. PICK i \in En(mutexs[h[1]][n].espera, h) : a = <<"ESPERA", n, i>>
      BY <3>1
    <3>3. PICK m \in Creados(h[1]) : \E j \in En(mutexs[h[1]][m].espera, h) : b = <<"ESPERA", m, j>>
      BY <2>1, <2>2, <2>7
    <3>4. PICK j \in En(mutexs[h[1]][m].espera, h) : b = <<"ESPERA", m, j>>
      BY <3>3
    <3>5. h \in ToSet(mutexs[h[1]][n].espera) /\ h \in ToSet(mutexs[h[1]][m].espera)
      BY DEF En, ToSet
    <3>6. n = m
      BY <1>1, <3>0, <3>5 DEF EsperaBien
    <3>7. UnaVez(mutexs[h[1]][n].espera, Hilos)
      BY <1>1, <3>0 DEF EsperaBien
    <3>8. i = j
      BY <3>6, <3>7, UnaPosicion
    <3> QED BY <3>2, <3>4, <3>6, <3>8
  <2> QED BY <2>1, <2>3, <2>4, <2>5, <2>6, <2>7
<1> QED BY <1>2, <1>3 DEF UnSoloLugar

\* A TCB is in one place at most, and one given to free() is in none, for any number of processes
\* and threads, the three algorithms and every request: no thread runs twice and no queue keeps a
\* pointer to a TCB that was freed.
THEOREM UnSoloLugarSiempre == Spec => []UnSoloLugar
<1>1. Init => InvNEW /\ MismoLargo /\ InvLugares
  BY InitInv, InitLugares
<1>2. InvNEW /\ MismoLargo /\ InvLugares /\ [Next]_vars => (InvNEW /\ MismoLargo /\ InvLugares)'
  BY NextInv, NextLugares
<1>3. InvNEW /\ InvLugares => UnSoloLugar
  BY InvLugaresUnSoloLugar DEF InvNEW
<1> QED BY <1>1, <1>2, <1>3, PTL DEF Spec

\* A thread blocked by a join is noted once, in the list of one thread, so one end wakes it.
THEOREM EsperaUnicaSiempre == Spec => []EsperaUnica
<1>1. Init => InvNEW /\ MismoLargo /\ InvLugares
  BY InitInv, InitLugares
<1>2. InvNEW /\ MismoLargo /\ InvLugares /\ [Next]_vars => (InvNEW /\ MismoLargo /\ InvLugares)'
  BY NextInv, NextLugares
<1>3. InvNEW /\ InvLugares => EsperaUnica
  <2> SUFFICES ASSUME InvNEW, InvLugares, NEW h \in cola_hilos_BLOCK,
                      NEW a \in UNION {{<<t, i>> : i \in En(hilos_bloqueados[<<h[1], t>>], h[2])} : t \in TIDs},
                      NEW b \in UNION {{<<t, i>> : i \in En(hilos_bloqueados[<<h[1], t>>], h[2])} : t \in TIDs}
               PROVE  a = b
    BY Zenon DEF EsperaUnica
  <2>a. PICK t \in TIDs : a \in {<<t, i>> : i \in En(hilos_bloqueados[<<h[1], t>>], h[2])}
    OBVIOUS
  <2>b. PICK i \in En(hilos_bloqueados[<<h[1], t>>], h[2]) : a = <<t, i>>
    BY <2>a
  <2>c. PICK u \in TIDs : b \in {<<u, j>> : j \in En(hilos_bloqueados[<<h[1], u>>], h[2])}
    OBVIOUS
  <2>d. PICK j \in En(hilos_bloqueados[<<h[1], u>>], h[2]) : b = <<u, j>>
    BY <2>c
  <2>1. h \in Hilos /\ h[1] \in PIDs
    BY Partes DEF InvNEW, Tipos, TipoEspera, Hilos
  <2> DEFINE g == <<h[1], t>>
             k == <<h[1], u>>
  <2>2. g \in Hilos /\ k \in Hilos /\ g[1] = h[1] /\ k[1] = h[1]
    BY <2>1 DEF Hilos
  <2>3. i \in DOMAIN hilos_bloqueados[g] /\ j \in DOMAIN hilos_bloqueados[k]
        /\ hilos_bloqueados[g][i] = hilos_bloqueados[k][j]
    BY DEF En
  <2>4. Anotado(hilos_bloqueados, g, i) = Anotado(hilos_bloqueados, k, j)
    BY <2>2, <2>3 DEF Anotado
  <2>5. g = k => t = u
    OBVIOUS
  <2> HIDE DEF g, k
  <2>6. g = k /\ i = j
    BY <2>2, <2>3, <2>4 DEF InvLugares, AnotadosUnaVez
  <2> QED BY <2>b, <2>d, <2>5, <2>6
<1> QED BY <1>1, <1>2, <1>3, PTL DEF Spec
=============================================================================
