------------------------------ MODULE Memoria ------------------------------
(***************************************************************************)
(* The memory module: the partitions of the user memory, fixed or dynamic, *)
(* the three search algorithms, and the processes and threads it keeps.    *)
(*                                                                         *)
(* Every request of the kernel is answered by a thread of its own, but the *)
(* dispatch thread of the kernel waits for each answer before it asks      *)
(* again, so one action is one request (gestionar_peticion_kernel). What   *)
(* the kernel asks for is its own protocol: CREAR_PROCESO and INICIAR_HILO *)
(* of thread 0 for the head of its queue NEW, again when one is refused,   *)
(* and the other requests for processes that run.                          *)
(***************************************************************************)
EXTENDS Integers, Sequences, FiniteSets, SequencesExt

CONSTANTS
  MaxPid,             \* bound: processes the scripts create
  MaxTid,             \* bound: the greatest TID of a process
  Tamanios,           \* sizes of the processes
  TAM_MEMORIA,
  PARTICIONES,        \* sizes of the fixed partitions
  Faltantes           \* processes whose first script may be missing

PIDs  == 1 .. MaxPid
TIDs  == 0 .. MaxTid
Nadie == -1           \* PID of a free partition

ASSUME ConstantesDeMemoria ==
  /\ MaxPid \in Nat /\ MaxTid \in Nat
  /\ Tamanios \subseteq Nat \ {0}
  /\ TAM_MEMORIA \in Nat \ {0}
  /\ PARTICIONES \in Seq(Nat \ {0})
  /\ Faltantes \subseteq PIDs

VARIABLES
  ESQUEMA,            \* configuration, read once: "FIJAS" or "DINAMICAS"
  ALGORITMO_BUSQUEDA, \* configuration, read once: "FIRST", "BEST" or "WORST"
  lista_particiones,
  lista_procesos,
  memoria,            \* "caida" after dereferencing a NULL partition
  cabeza,             \* kernel: process at the head of NEW, or the next to be created
  iniciando,          \* kernel: memory admitted cabeza, its thread 0 comes next
  activos,            \* kernel: processes that run
  prox_tid,           \* kernel: TID of the next thread of each process
  tam,                \* scripts: size of each process
  script              \* scripts: whether the first script of each process exists

fijo    == <<ESQUEMA, ALGORITMO_BUSQUEDA, tam, script>>
pedidos == <<cabeza, iniciando, activos, prox_tid>>
vars    == <<fijo, lista_particiones, lista_procesos, memoria, pedidos>>

-----------------------------------------------------------------------------
(* Partitions *)

Particion(pid, base, limite, tamanio, ocupada) ==
  [PID |-> pid, base |-> base, limite |-> limite, tamanio |-> tamanio,
   esta_ocupado |-> ocupada]

Particiones ==
  [PID : PIDs \cup {Nadie}, base : Int, limite : Int, tamanio : Int,
   esta_ocupado : BOOLEAN]

\* Base of each fixed partition: the sizes before it.
BaseFija[i \in Nat] == IF i <= 1 THEN 0 ELSE BaseFija[i - 1] + PARTICIONES[i - 1]

\* The code does not compare them: a configuration is expected to.
ASSUME FijasEntran == BaseFija[Len(PARTICIONES) + 1] <= TAM_MEMORIA

iniciar_estructuras ==
  IF ESQUEMA = "FIJAS"
  THEN [i \in 1 .. Len(PARTICIONES) |->
          Particion(Nadie, BaseFija[i], PARTICIONES[i] - 1, PARTICIONES[i], FALSE)]
  ELSE <<Particion(Nadie, 0, TAM_MEMORIA - 1, TAM_MEMORIA, FALSE)>>

\* Mutant: occupied partitions count.
EntranOcupadas(s, t) == {i \in 1 .. Len(s) : t <= s[i].tamanio}

\* Free partitions where t bytes fit.
Entran(s, t) == {i \in 1 .. Len(s) : ~s[i].esta_ocupado /\ t <= s[i].tamanio}

\* Partition i leaves less (BEST) or more (WORST) unused than k.
Mejor(s, i, k) ==
  \/ ALGORITMO_BUSQUEDA = "BEST"  /\ s[i].tamanio < s[k].tamanio
  \/ ALGORITMO_BUSQUEDA = "WORST" /\ s[i].tamanio > s[k].tamanio

\* The partition first_fit, best_fit or worst_fit takes: the first of the best.
Elegida(s, t) ==
  CHOOSE i \in Entran(s, t) :
    \A k \in Entran(s, t) : ~Mejor(s, k, i) /\ (k < i => Mejor(s, i, k))

\* Mutant: the partition is not marked as occupied.
ActualizarSinOcupar(s, i, pid) ==
  [s EXCEPT ![i] = Particion(pid, @.base, @.limite, @.tamanio, FALSE)]

actualizar_estatica(s, i, pid) ==
  [s EXCEPT ![i] = Particion(pid, @.base, @.limite, @.tamanio, TRUE)]

\* Mutants: an empty remainder is dropped; the remainder keeps its base.
PartirSinVacia(s, i, pid, t) ==
  LET nueva == Particion(pid, s[i].base, t - 1, t, TRUE)
      resto == Particion(Nadie, s[i].base + t, s[i].limite - (t - 2), s[i].tamanio - t, FALSE)
  IN  SubSeq(s, 1, i - 1) \o (IF resto.tamanio = 0 THEN <<nueva>> ELSE <<nueva, resto>>)
        \o SubSeq(s, i + 1, Len(s))
PartirSinMover(s, i, pid, t) ==
  LET nueva == Particion(pid, s[i].base, t - 1, t, TRUE)
      resto == Particion(Nadie, s[i].base + t - 1, s[i].limite - (t - 2), s[i].tamanio - t, FALSE)
  IN  SubSeq(s, 1, i - 1) \o <<nueva, resto>> \o SubSeq(s, i + 1, Len(s))

\* actualizar_dinamica: the new partition takes the first t bytes of partition i.
\* The remainder stays after it even when it is empty, and its limite ends up
\* greater than its size.
Partir(s, i, pid, t) ==
  LET nueva == Particion(pid, s[i].base, t - 1, t, TRUE)
      resto == Particion(Nadie, s[i].base + t, s[i].limite - (t - 2),
                         s[i].tamanio - t, FALSE)
  IN  [n \in 1 .. Len(s) + 1 |->
         IF n < i THEN s[n] ELSE IF n = i THEN nueva
         ELSE IF n = i + 1 THEN resto ELSE s[n - 1]]

asignar_particion(s, pid, t) ==
  LET i == Elegida(s, t)
  IN  IF ESQUEMA = "FIJAS" THEN actualizar_estatica(s, i, pid) ELSE Partir(s, i, pid, t)

\* Mutants: the partition stays occupied; it is given to PID 0.
LiberarOcupada(s, i) ==
  [s EXCEPT ![i] = Particion(Nadie, @.base, @.limite, @.tamanio, TRUE)]
LiberarConCero(s, i) ==
  [s EXCEPT ![i] = Particion(0, @.base, @.limite, @.tamanio, FALSE)]

Liberar(s, i) ==
  [s EXCEPT ![i] = Particion(Nadie, @.base, @.limite, @.tamanio, FALSE)]

\* Mutant: the size of the absorbed partition is not added.
UnirSinSumar(s, i) == RemoveAt(s, i + 1)

\* Partition i absorbs the one after it.
Unir(s, i) ==
  [n \in 1 .. Len(s) - 1 |->
     IF n < i THEN s[n]
     ELSE IF n = i
     THEN Particion(s[i].PID, s[i].base, s[i].limite + s[i + 1].tamanio,
                    s[i].tamanio + s[i + 1].tamanio, s[i].esta_ocupado)
     ELSE s[n + 1]]

\* Mutant: the merge with the previous partition is forgotten.
ConAnteriorNunca(s, i) == s

\* Merge of the freed partition i with the next one and then with the previous.
ConSiguiente(s, i) == IF i = Len(s) \/ s[i + 1].esta_ocupado THEN s ELSE Unir(s, i)
ConAnterior(s, i)  == IF i = 1 \/ s[i - 1].esta_ocupado THEN s ELSE Unir(s, i - 1)
Consolidar(s, i)   == IF ESQUEMA = "FIJAS" THEN s ELSE ConAnterior(ConSiguiente(s, i), i)

\* The partition of pid: the processes that end have one (UnaParticion).
IndiceDe(s, pid) == CHOOSE i \in 1 .. Len(s) : s[i].PID = pid

\* The test i + 1 <= list_size before the first merge is always true, so freeing
\* the last dynamic partition dereferences NULL.
liberar_particion(pid) ==
  LET s == lista_particiones
      i == IndiceDe(s, pid)
  IN  /\ lista_particiones' = Consolidar(Liberar(s, i), i)
      /\ memoria' = IF ESQUEMA = "DINAMICAS" /\ i = Len(s) THEN "caida" ELSE memoria

-----------------------------------------------------------------------------
(* Processes and threads *)

Proceso(pid, base, limite, tamanio, hilos) ==
  [PID |-> pid, base |-> base, limite |-> limite, tamanio |-> tamanio, hilos |-> hilos]

Procesos ==
  [PID : PIDs, base : Int, limite : Int, tamanio : Int, hilos : SUBSET TIDs]

\* Position of the first process with this PID.
buscar_proceso(pid) ==
  CHOOSE n \in 1 .. Len(lista_procesos) :
    /\ lista_procesos[n].PID = pid
    /\ \A m \in 1 .. Len(lista_procesos) : lista_procesos[m].PID = pid => n <= m

\* Mutant: the process keeps base 0.
UbicarSinBase(s, pid, t) == Proceso(pid, 0, t - 1, t, {})

\* The new process, placed where its first partition is.
Ubicar(s, pid, t) ==
  LET i == CHOOSE i \in 1 .. Len(s) :
             s[i].PID = pid /\ \A k \in 1 .. Len(s) : s[k].PID = pid => i <= k
  IN  Proceso(pid, s[i].base, s[i].limite, t, {})

crear_proceso(pid, t) ==
  LET s == asignar_particion(lista_particiones, pid, t)
  IN  /\ lista_particiones' = s
      /\ lista_procesos' = Append(lista_procesos, Ubicar(s, pid, t))

ConHilos(pid, hilos) ==
  LET n == buscar_proceso(pid)
      p == lista_procesos[n]
  IN  [lista_procesos EXCEPT ![n] = Proceso(pid, p.base, p.limite, p.tamanio, hilos)]

HilosDe(pid) == lista_procesos[buscar_proceso(pid)].hilos

\* Mutant: the process stays in the list.
SinProcesoNunca(pid) == lista_procesos

SinProceso(pid) == RemoveAt(lista_procesos, buscar_proceso(pid))

finalizar_proceso(pid) ==
  /\ liberar_particion(pid)
  /\ lista_procesos' = SinProceso(pid)

-----------------------------------------------------------------------------
Init ==
  /\ ESQUEMA \in {"FIJAS", "DINAMICAS"}
  /\ ALGORITMO_BUSQUEDA \in {"FIRST", "BEST", "WORST"}
  /\ lista_particiones = iniciar_estructuras
  /\ lista_procesos = <<>>
  /\ memoria = "activa"
  /\ cabeza = 1 /\ iniciando = FALSE /\ activos = {}
  /\ prox_tid = [p \in PIDs |-> 1]
  /\ tam \in [PIDs -> Tamanios]
  /\ script \in {f \in [PIDs -> BOOLEAN] : \A p \in PIDs \ Faltantes : f[p]}

\* The kernel has no request waiting for an answer.
Libre == memoria = "activa" /\ ~iniciando

\* CREAR_PROCESO of the head of NEW: admitted, or answered 0.
CrearProceso ==
  /\ Libre /\ cabeza \in PIDs
  /\ \/ /\ Entran(lista_particiones, tam[cabeza]) # {}
        /\ crear_proceso(cabeza, tam[cabeza])
        /\ iniciando' = TRUE
     \/ /\ Entran(lista_particiones, tam[cabeza]) = {}
        /\ UNCHANGED <<lista_particiones, lista_procesos, iniciando>>
  /\ UNCHANGED <<fijo, memoria, cabeza, activos, prox_tid>>

\* INICIAR_HILO of thread 0. Refused, the process stays at the head of NEW and
\* memory keeps what CREAR_PROCESO gave it.
IniciarHiloCero ==
  /\ memoria = "activa" /\ iniciando
  /\ iniciando' = FALSE
  /\ \/ /\ script[cabeza]
        /\ lista_procesos' = ConHilos(cabeza, HilosDe(cabeza) \cup {0})
        /\ activos' = activos \cup {cabeza}
        /\ cabeza' = cabeza + 1
     \/ ~script[cabeza] /\ UNCHANGED <<lista_procesos, activos, cabeza>>
  /\ UNCHANGED <<fijo, lista_particiones, memoria, prox_tid>>

\* INICIAR_HILO of another thread (THREAD_CREATE): its script may be missing.
IniciarHilo ==
  /\ Libre
  /\ \E p \in activos :
       /\ prox_tid[p] \in TIDs
       /\ prox_tid' = [prox_tid EXCEPT ![p] = @ + 1]
       /\ \/ lista_procesos' = ConHilos(p, HilosDe(p) \cup {prox_tid[p]})
          \/ UNCHANGED lista_procesos
  /\ UNCHANGED <<fijo, lista_particiones, memoria, cabeza, iniciando, activos>>

FinalizarHilo ==
  /\ Libre
  /\ \E p \in activos : \E t \in HilosDe(p) :
       lista_procesos' = ConHilos(p, HilosDe(p) \ {t})
  /\ UNCHANGED <<fijo, lista_particiones, memoria, pedidos>>

\* FINALIZAR_PROCESO. It also comes from the dump thread of the kernel, which waits
\* for nobody.
FinalizarProceso ==
  /\ memoria = "activa"
  /\ \E p \in activos : finalizar_proceso(p) /\ activos' = activos \ {p}
  /\ UNCHANGED <<fijo, cabeza, iniciando, prox_tid>>

Next ==
  CrearProceso \/ IniciarHiloCero \/ IniciarHilo \/ FinalizarHilo \/ FinalizarProceso

Spec == Init /\ [][Next]_vars

-----------------------------------------------------------------------------
(* Properties *)

\* The lists and what the kernel asked for keep their types (estructuras.h).
TypeOK ==
  /\ ESQUEMA \in {"FIJAS", "DINAMICAS"}
  /\ ALGORITMO_BUSQUEDA \in {"FIRST", "BEST", "WORST"}
  /\ lista_particiones \in Seq(Particiones)
  /\ lista_procesos \in Seq(Procesos)
  /\ memoria \in {"activa", "caida"}
  /\ cabeza \in 1 .. MaxPid + 1
  /\ iniciando \in BOOLEAN
  /\ iniciando => cabeza \in PIDs
  /\ activos \subseteq 1 .. cabeza - 1
  /\ prox_tid \in [PIDs -> 1 .. MaxTid + 1]
  /\ tam \in [PIDs -> Tamanios]
  /\ script \in [PIDs -> BOOLEAN]

\* The dynamic partitions tile the memory, in the order of the list: the splits
\* and the merges of any history lose no byte and give none twice.
Teselan ==
  ESQUEMA = "DINAMICAS" =>
    LET s == lista_particiones
    IN  /\ s # <<>> /\ s[1].base = 0
        /\ \A i \in 1 .. Len(s) : s[i].tamanio >= 0
        /\ \A i \in 1 .. Len(s) - 1 : s[i + 1].base = s[i].base + s[i].tamanio
        /\ s[Len(s)].base + s[Len(s)].tamanio = TAM_MEMORIA

\* Memory survives: liberar_particion_dinamica reads the partition after the one
\* it frees, and the test that should protect it is always true ("para evitar
\* accesos invalidos a la lista"), so only the shape of the list protects it.
MemoriaActiva == memoria = "activa"

\* With dynamic partitions a process is refused only when no run of free bytes is
\* long enough: the merges leave no two free neighbours, whatever the order of
\* the ends, so a refusal is never the fault of a forgotten merge.
BytesDe(i) ==
  lista_particiones[i].base
    .. lista_particiones[i].base + lista_particiones[i].tamanio - 1
Ocupados ==
  UNION {BytesDe(i) : i \in {n \in DOMAIN lista_particiones : lista_particiones[n].esta_ocupado}}
RechazoJusto ==
  ESQUEMA = "DINAMICAS" =>
    \A t \in Tamanios :
      Entran(lista_particiones, t) = {} =>
        \A a \in 0 .. TAM_MEMORIA - t : (a .. a + t - 1) \cap Ocupados # {}

\* A process that runs has one partition, and the base and the limit the CPU gets
\* (obtenerCDE) are those of that partition, where the process fits. The wrong
\* limite of a remainder never reaches a process.
UnaParticion ==
  \A p \in activos :
    LET suyas == {i \in DOMAIN lista_particiones : lista_particiones[i].PID = p}
        pr    == lista_procesos[buscar_proceso(p)]
    IN  /\ Cardinality(suyas) = 1
        /\ \A i \in suyas :
             /\ lista_particiones[i].esta_ocupado
             /\ pr.base = lista_particiones[i].base
             /\ pr.limite = lista_particiones[i].tamanio - 1
             /\ pr.tamanio <= lista_particiones[i].tamanio

\* When no process runs and none is starting, all the memory is free again: nothing
\* leaks in any history of creations, refusals and ends. The exception is what the
\* code does lose: a process whose first script is missing stays at the head of NEW
\* and keeps what each of its retries was given.
MemoriaDevuelta ==
  activos = {} /\ ~iniciando =>
    /\ \A n \in DOMAIN lista_procesos : ~script[lista_procesos[n].PID]
    /\ \A i \in DOMAIN lista_particiones :
         lista_particiones[i].esta_ocupado => ~script[lista_particiones[i].PID]

\* Memory implements the allocator of Reserva, with every configuration: bytes are
\* given to one process at a time, in one run, and come back all together.
BytesDelProceso(p) ==
  UNION {BytesDe(i) : i \in {n \in DOMAIN lista_particiones : lista_particiones[n].PID = p}}
Asignador == INSTANCE Reserva WITH ocupa <- [p \in PIDs |-> BytesDelProceso(p)]
ImplementaReserva == Asignador!Spec
=============================================================================
