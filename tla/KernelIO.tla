------------------------------ MODULE KernelIO ------------------------------
(***************************************************************************)
(* The kernel threads that end an IO or a dump, beside the dispatch        *)
(* thread, under FIFO: who wakes the blocked threads and who elects the    *)
(* next one. Nothing in the code excludes them from each other, so a step  *)
(* here is one access to what they share: a queue, hilo_EXEC, hilo_IO or   *)
(* hilo_DUMP_MEMORY. A queue operation with the use of its result is one   *)
(* step, and so are the reads of hilo_EXEC that fill one argument.         *)
(*                                                                         *)
(* Kernel thread 0 is the dispatch thread and n >= 1 the one that serves   *)
(* the n-th request. Assumed of the scripts: no thread is cancelled, none  *)
(* joins, and no process ends while it has a thread in IO or in a dump.    *)
(* Memory accepts every end. A TCB freed while a queue still has it is     *)
(* read as it was.                                                         *)
(***************************************************************************)
EXTENDS Integers, Sequences, FiniteSets, SequencesExt

CONSTANTS
  Hilos,       \* the threads there are, pairs <<PID, TID>>
  MaxPedidos,  \* bound: IO and DUMP_MEMORY requests
  MaxVolcados, \* bound: the requests that may be dumps are the first so many
  Clases,      \* of those two, the ones the scripts use
  Nadie        \* NULL

ASSUME ConstantesDeIO ==
  /\ <<1, 0>> \in Hilos /\ IsFiniteSet(Hilos)
  /\ MaxPedidos \in Nat /\ MaxVolcados \in Nat
  /\ Clases \subseteq {"IO", "DUMP"}
  /\ Nadie \notin Hilos \cup Nat \cup [clase : Clases, hilo : Hilos \cup {Nadie}]

Pedidos == 1 .. MaxPedidos
KHilos  == 0 .. MaxPedidos

VARIABLES
  hilo_EXEC, cola_hilos_READY, cola_hilos_BLOCK,
  cola_procesos_READY,   \* its PIDs
  cola_hilos_BLOCK_IO, hilo_IO,
  cola_hilos_BLOCK_DUMP_MEMORY, hilo_DUMP_MEMORY,
  args,      \* class and thread of each request, until its thread reads it no more
  rta,       \* what memoria answered to each dump
  hechos,    \* requests so far
  victima,   \* the thread finalizar_hilo ends, until memoria has answered
  pc,        \* where each kernel thread is
  kernel,
  canal,     \* threads sent to the cpu; it executes the first until its next request
  pedidos,   \* requests on the way to the dispatch thread
  solapado   \* history: two kernel threads were among their shared accesses at once

esperas  == <<cola_hilos_BLOCK_IO, cola_hilos_BLOCK_DUMP_MEMORY>>
colas    == <<cola_hilos_BLOCK, cola_hilos_BLOCK_IO, cola_hilos_BLOCK_DUMP_MEMORY,
              cola_procesos_READY>>
turnos   == <<hilo_IO, hilo_DUMP_MEMORY>>
locales  == <<args, rta, hechos, victima>>
cpus     == <<canal, pedidos>>
eleccion == <<hilo_EXEC, cola_hilos_READY>>
vars     == <<eleccion, colas, turnos, locales, pc, kernel, cpus, solapado>>

\* Accesses to the shared state. The first step of a dump thread is left out: it
\* only clears hilo_DUMP_MEMORY.
Fuera      == {"recibe", "nada", "duerme", "arranca", "volcando", "fin"}
EnReposo   == \A k \in KHilos : pc[k] \in Fuera
Anota      == solapado' = (solapado \/ Cardinality({k \in KHilos : pc'[k] \notin Fuera}) > 1)
Pasa(k, p) == pc' = [pc EXCEPT ![k] = p] /\ Anota
Termina(k) == Pasa(k, IF k = 0 THEN "recibe" ELSE "fin")
Olvida(n)  ==
  args' = [args EXCEPT ![n] = Nadie] /\ rta' = [rta EXCEPT ![n] = Nadie]
  /\ UNCHANGED <<hechos, victima>>
En(k, p)   == kernel = "activo" /\ pc[k] = p

Cae == kernel' = "caido" /\ UNCHANGED <<eleccion, colas, turnos, locales, pc, cpus, solapado>>

-----------------------------------------------------------------------------
(* elegir_hilo, one access at a time *)

Elegir_limpia(k) ==
  /\ En(k, "elige") /\ hilo_EXEC' = Nadie /\ Pasa(k, "elige_mira")
  /\ UNCHANGED <<cola_hilos_READY, colas, turnos, locales, kernel, cpus>>

Elegir_mira(k) ==
  /\ En(k, "elige_mira")
  /\ IF cola_hilos_READY = <<>> THEN Termina(k) ELSE Pasa(k, "elige_saca")
  /\ UNCHANGED <<eleccion, colas, turnos, locales, kernel, cpus>>

\* A pop of an empty queue is NULL.
Elegir_saca(k) ==
  /\ En(k, "elige_saca") /\ Pasa(k, "elige_envia")
  /\ \/ cola_hilos_READY = <<>> /\ hilo_EXEC' = Nadie /\ UNCHANGED cola_hilos_READY
     \/ /\ cola_hilos_READY # <<>>
        /\ hilo_EXEC' = Head(cola_hilos_READY) /\ cola_hilos_READY' = Tail(cola_hilos_READY)
  /\ UNCHANGED <<colas, turnos, locales, kernel, cpus>>

\* Mutant: what the election left is sent without a look.
enviar_a_ejecucion_nulo(k) ==
  /\ canal' = Append(canal, hilo_EXEC) /\ Termina(k)
  /\ UNCHANGED <<eleccion, colas, turnos, locales, kernel, pedidos>>

\* enviar_a_ejecucion, of what hilo_EXEC is by then.
enviar_a_ejecucion(k) ==
  \/ hilo_EXEC = Nadie /\ Cae
  \/ /\ hilo_EXEC # Nadie /\ canal' = Append(canal, hilo_EXEC) /\ Termina(k)
     /\ UNCHANGED <<eleccion, colas, turnos, locales, kernel, pedidos>>

Elegir_envia(k) == En(k, "elige_envia") /\ enviar_a_ejecucion(k)

elegir_hilo(k) == Elegir_limpia(k) \/ Elegir_mira(k) \/ Elegir_saca(k) \/ Elegir_envia(k)

-----------------------------------------------------------------------------
(* The IO turn *)

\* Mutant: whoever waits starts, whatever the one before does.
Hay_turno_de_IO_sin_mirar == cola_hilos_BLOCK_IO # <<>>

HayTurnoDeIO == hilo_IO = Nadie /\ cola_hilos_BLOCK_IO # <<>>

\* revisar_cola_IO: the dispatch thread goes on to elegir_hilo, an IO thread to the
\* test of hilo_EXEC.
TrasRevisarIO(k) == IF k = 0 THEN "elige" ELSE "prueba"

RevisarIO(k) ==
  /\ En(k, "revisa_io")
  /\ Pasa(k, IF HayTurnoDeIO THEN "toma_io" ELSE TrasRevisarIO(k))
  /\ UNCHANGED <<eleccion, colas, turnos, locales, kernel, cpus>>

TomarIO(k) ==
  /\ En(k, "toma_io")
  /\ \/ /\ cola_hilos_BLOCK_IO = <<>>
        /\ hilo_IO' = Nadie /\ Pasa(k, TrasRevisarIO(k)) /\ UNCHANGED cola_hilos_BLOCK_IO
     \/ /\ cola_hilos_BLOCK_IO # <<>>
        /\ hilo_IO' = Head(cola_hilos_BLOCK_IO)
        /\ cola_hilos_BLOCK_IO' = Tail(cola_hilos_BLOCK_IO)
        /\ pc' = [pc EXCEPT ![k] = TrasRevisarIO(k), ![hilo_IO'] = "duerme"] /\ Anota
  /\ UNCHANGED <<eleccion, cola_hilos_BLOCK, cola_hilos_BLOCK_DUMP_MEMORY, cola_procesos_READY,
                 hilo_DUMP_MEMORY, locales, kernel, cpus>>

\* Mutant: the turn is not given back.
SoltarIO_sin_soltar(n) ==
  /\ En(n, "suelta_io") /\ UNCHANGED hilo_IO /\ Pasa(n, "revisa_io")
  /\ UNCHANGED <<eleccion, colas, hilo_DUMP_MEMORY, locales, kernel, cpus>>

SoltarIO(n) ==
  /\ En(n, "suelta_io") /\ hilo_IO' = Nadie /\ Pasa(n, "revisa_io")
  /\ UNCHANGED <<eleccion, colas, hilo_DUMP_MEMORY, locales, kernel, cpus>>

\* usleep, and desbloquear_hilo: the first blocked thread with that TID, of any PID. A NULL
\* that comes before it is read.
desbloquear_hilo(n) ==
  LET i == SelectInSeq(cola_hilos_BLOCK, LAMBDA h : h = Nadie \/ h[2] = args[n].hilo[2])
  IN  /\ En(n, "duerme")
      /\ \/ i # 0 /\ cola_hilos_BLOCK[i] = Nadie /\ Cae
         \/ /\ (i # 0 => cola_hilos_BLOCK[i] # Nadie) /\ Pasa(n, "encola_ready")
            /\ cola_hilos_BLOCK' =
                 IF i = 0 THEN cola_hilos_BLOCK ELSE RemoveAt(cola_hilos_BLOCK, i)
            /\ UNCHANGED <<eleccion, esperas, cola_procesos_READY, turnos, locales, kernel, cpus>>

\* agregar_hilo_a_ready, of a NULL TCB too.
AgregarReady(n) ==
  /\ En(n, "encola_ready")
  /\ cola_hilos_READY' = Append(cola_hilos_READY, args[n].hilo)
  /\ Pasa(n, IF args[n].clase = "IO" THEN "suelta_io" ELSE "prueba")
  /\ Olvida(n)
  /\ UNCHANGED <<hilo_EXEC, colas, turnos, kernel, cpus>>

\* Mutants: the test of hilo_EXEC always fails, or always succeeds.
Ocupada_siempre == TRUE
Ocupada_nunca   == FALSE

Ocupada == hilo_EXEC # Nadie

Probar(n) ==
  /\ En(n, "prueba") /\ Pasa(n, IF Ocupada THEN "fin" ELSE "elige")
  /\ UNCHANGED <<eleccion, colas, turnos, locales, kernel, cpus>>

revisar_fin_io(n) == desbloquear_hilo(n) \/ SoltarIO(n)

-----------------------------------------------------------------------------
(* Dumps *)

TrasRevisarDump(k) ==
  IF k = 0 THEN "elige" ELSE IF rta[k] = 1 THEN "saca_de_block" ELSE "finaliza"

RevisarDump(k) ==
  /\ En(k, "revisa_dump")
  /\ Pasa(k, IF hilo_DUMP_MEMORY = Nadie /\ cola_hilos_BLOCK_DUMP_MEMORY # <<>>
             THEN "toma_dump" ELSE TrasRevisarDump(k))
  /\ UNCHANGED <<eleccion, colas, turnos, locales, kernel, cpus>>

\* What memoria is asked to dump is hilo_EXEC, whoever made the request.
TomarDump(k) ==
  /\ En(k, "toma_dump")
  /\ \/ /\ cola_hilos_BLOCK_DUMP_MEMORY = <<>>
        /\ hilo_DUMP_MEMORY' = Nadie /\ Pasa(k, TrasRevisarDump(k))
        /\ UNCHANGED <<eleccion, colas, hilo_IO, locales, kernel, cpus>>
     \/ cola_hilos_BLOCK_DUMP_MEMORY # <<>> /\ hilo_EXEC = Nadie /\ Cae
     \/ /\ cola_hilos_BLOCK_DUMP_MEMORY # <<>> /\ hilo_EXEC # Nadie
        /\ LET n == Head(cola_hilos_BLOCK_DUMP_MEMORY)
           IN  /\ hilo_DUMP_MEMORY' = n
               /\ pc' = [pc EXCEPT ![k] = TrasRevisarDump(k), ![n] = "arranca"] /\ Anota
        /\ cola_hilos_BLOCK_DUMP_MEMORY' = Tail(cola_hilos_BLOCK_DUMP_MEMORY)
        /\ UNCHANGED <<eleccion, cola_hilos_BLOCK, cola_hilos_BLOCK_IO, cola_procesos_READY,
                       hilo_IO, locales, kernel, cpus>>

\* hilo_DUMP_MEMORY is cleared before the answer is awaited, and again after it.
Arrancar(n) ==
  /\ En(n, "arranca") /\ hilo_DUMP_MEMORY' = Nadie /\ Pasa(n, "volcando")
  /\ UNCHANGED <<eleccion, colas, hilo_IO, locales, kernel, cpus>>
SoltarDump(n) ==
  /\ En(n, "suelta_dump") /\ hilo_DUMP_MEMORY' = Nadie /\ Pasa(n, "revisa_dump")
  /\ UNCHANGED <<eleccion, colas, hilo_IO, locales, kernel, cpus>>

EnBlock(h) == h \in ToSet(cola_hilos_BLOCK)

\* The threads whose process is still there.
ConProceso == {h \in Hilos : h[1] \in cola_procesos_READY}

\* A search of BLOCK reads each TCB up to the one it looks for, NULL too, and then goes on to
\* the mutexes of proceso_EXEC: a NULL without hilo_EXEC, or when its process has ended.
BusquedaNula(h) ==
  LET i == SelectInSeq(cola_hilos_BLOCK, LAMBDA g : g \in {h, Nadie})
  IN  IF i # 0 THEN cola_hilos_BLOCK[i] = Nadie
      ELSE hilo_EXEC \notin ConProceso

UnicoDelProceso(h) == \A g \in Hilos : g[1] = h[1] => g = h

\* The answer of memoria, and buscar_tcb_en_block. A failed dump ends the process.
\* Assumed: it has no other thread.
Responder(n) ==
  /\ En(n, "volcando")
  /\ \/ BusquedaNula(args[n].hilo) /\ Cae
     \/ /\ ~BusquedaNula(args[n].hilo)
        /\ \E r \in {1} \cup {x \in {0} : UnicoDelProceso(args[n].hilo)} :
             rta' = [rta EXCEPT ![n] = IF EnBlock(args[n].hilo) \/ r = 1 THEN r ELSE Nadie]
        /\ Pasa(n, "suelta_dump")
        /\ UNCHANGED <<eleccion, colas, turnos, args, hechos, victima, kernel, cpus>>

\* buscar_y_eliminar_tcb_en_block: a thread that is not there becomes a NULL.
Sacar(n) ==
  LET h == args[n].hilo
  IN  /\ En(n, "saca_de_block")
      /\ \/ BusquedaNula(h) /\ Cae
         \/ /\ ~BusquedaNula(h) /\ Pasa(n, "encola_ready")
            /\ cola_hilos_BLOCK' = RemoveFirst(cola_hilos_BLOCK, h)
            /\ args' = [args EXCEPT ![n].hilo = IF EnBlock(h) THEN h ELSE Nadie]
            /\ UNCHANGED <<eleccion, esperas, cola_procesos_READY, turnos, rta, hechos, victima,
                           kernel, cpus>>

\* The end of the process: a TCB or PCB that was not found is read.
Finalizar(n) ==
  /\ En(n, "finaliza")
  /\ \/ (rta[n] = Nadie \/ args[n].hilo \notin ConProceso) /\ Cae
     \/ /\ rta[n] # Nadie /\ args[n].hilo \in ConProceso /\ Pasa(n, "busca_exec")
        /\ UNCHANGED <<eleccion, colas, turnos, locales, kernel, cpus>>

\* ... once its thread is out of its queue. No process waits in NEW to be admitted. The TCB is
\* freed: as hilo_EXEC, it may be read and bring the kernel down.
Retirar(n) ==
  /\ En(n, "retira")
  /\ \/ hilo_EXEC = args[n].hilo /\ Cae
     \/ /\ cola_procesos_READY' = cola_procesos_READY \ {args[n].hilo[1]}
        /\ Pasa(n, "prueba") /\ Olvida(n)
        /\ UNCHANGED <<eleccion, cola_hilos_BLOCK, esperas, turnos, kernel, cpus>>

revisar_rta_volcado(n) ==
  Arrancar(n) \/ Responder(n) \/ SoltarDump(n) \/ Sacar(n) \/ Finalizar(n) \/ Retirar(n)

-----------------------------------------------------------------------------
(* The search for a thread that ends: by THREAD_EXIT (finalizar_hilo, the  *)
(* dispatch thread) or with its process (eliminar_hilo_de_un_proceso_a_    *)
(* finalizar, a dump thread).                                              *)

Buscado(k) == IF k = 0 THEN victima ELSE args[k].hilo

TrasBuscar(k, esta) == IF k # 0 THEN "retira" ELSE IF esta THEN "avisa" ELSE "reenvia"

BuscarExec(k) ==
  /\ En(k, "busca_exec")
  /\ \/ k = 0 /\ hilo_EXEC = Nadie /\ Cae
     \/ /\ k = 0 => hilo_EXEC # Nadie
        /\ Pasa(k, IF hilo_EXEC = Buscado(k) THEN TrasBuscar(k, TRUE) ELSE "busca_ready")
        /\ UNCHANGED <<eleccion, colas, turnos, locales, kernel, cpus>>

\* buscar_y_eliminar_tcb_en_ready, which looks at each TCB before it reads it.
BuscarReady(k) ==
  /\ En(k, "busca_ready")
  /\ cola_hilos_READY' = RemoveFirst(cola_hilos_READY, Buscado(k))
  /\ Pasa(k, IF Buscado(k) \in ToSet(cola_hilos_READY) THEN TrasBuscar(k, TRUE) ELSE "busca_block")
  /\ UNCHANGED <<hilo_EXEC, colas, turnos, locales, kernel, cpus>>

BuscarBlock(k) ==
  /\ En(k, "busca_block")
  /\ \/ BusquedaNula(Buscado(k)) /\ Cae
     \/ /\ ~BusquedaNula(Buscado(k)) /\ Pasa(k, TrasBuscar(k, EnBlock(Buscado(k))))
        /\ cola_hilos_BLOCK' = RemoveFirst(cola_hilos_BLOCK, Buscado(k))
        /\ UNCHANGED <<eleccion, esperas, cola_procesos_READY, turnos, locales, kernel, cpus>>

buscar_hilo(k) == BuscarExec(k) \/ BuscarReady(k) \/ BuscarBlock(k)

-----------------------------------------------------------------------------
(* Dispatch thread *)

\* IO and DUMP_MEMORY: the message, and its log, which reads hilo_EXEC.
Recibir(c) ==
  /\ En(0, "recibe") /\ pedidos # <<>> /\ Head(pedidos) = c
  /\ \/ hilo_EXEC = Nadie /\ Cae
     \/ /\ hilo_EXEC # Nadie /\ pedidos' = Tail(pedidos) /\ Pasa(0, "bloquea")
        /\ hechos' = hechos + 1
        /\ args' = [args EXCEPT ![hechos'] = [clase |-> c, hilo |-> Nadie]]
        /\ UNCHANGED <<eleccion, colas, turnos, rta, victima, kernel, canal>>

\* bloquear_hilo_por_io and volcado_memoria: hilo_EXEC to BLOCK, NULL if it is NULL by then,
Bloquear ==
  /\ En(0, "bloquea") /\ cola_hilos_BLOCK' = Append(cola_hilos_BLOCK, hilo_EXEC)
  /\ Pasa(0, "anota_args")
  /\ UNCHANGED <<eleccion, esperas, cola_procesos_READY, turnos, locales, kernel, cpus>>

\* ... to the argument of the request,
AnotarArgs ==
  /\ En(0, "anota_args")
  /\ \/ hilo_EXEC = Nadie /\ Cae
     \/ /\ hilo_EXEC # Nadie /\ args' = [args EXCEPT ![hechos].hilo = hilo_EXEC]
        /\ Pasa(0, "encola")
        /\ UNCHANGED <<eleccion, colas, turnos, rta, hechos, victima, kernel, cpus>>

\* ... and the request to the queue of its class.
Encolar ==
  /\ En(0, "encola")
  /\ \/ /\ args[hechos].clase = "IO" /\ Pasa(0, "revisa_io")
        /\ cola_hilos_BLOCK_IO' = Append(cola_hilos_BLOCK_IO, hechos)
        /\ UNCHANGED cola_hilos_BLOCK_DUMP_MEMORY
     \/ /\ args[hechos].clase = "DUMP" /\ Pasa(0, "revisa_dump")
        /\ cola_hilos_BLOCK_DUMP_MEMORY' = Append(cola_hilos_BLOCK_DUMP_MEMORY, hechos)
        /\ UNCHANGED cola_hilos_BLOCK_IO
  /\ UNCHANGED <<eleccion, cola_hilos_BLOCK, cola_procesos_READY, turnos, locales, kernel, cpus>>

\* THREAD_EXIT: the thread to end is the one of hilo_EXEC when the message is handled ...
TerminarHilo ==
  /\ En(0, "recibe") /\ pedidos # <<>> /\ Head(pedidos) = "EXIT"
  /\ \/ hilo_EXEC = Nadie /\ Cae
     \/ /\ hilo_EXEC # Nadie /\ pedidos' = Tail(pedidos) /\ Pasa(0, "busca_exec")
        /\ victima' = hilo_EXEC
        /\ UNCHANGED <<eleccion, colas, turnos, args, rta, hechos, kernel, canal>>

\* ... and, when memoria has answered, whose turn it is depends on the TID of hilo_EXEC by then.
AvisarFin ==
  /\ En(0, "avisa")
  /\ \/ hilo_EXEC = Nadie /\ Cae
     \/ /\ hilo_EXEC # Nadie
        /\ Pasa(0, IF hilo_EXEC[2] = victima[2] THEN "elige" ELSE "revisa_exec")
        /\ victima' = Nadie
        /\ UNCHANGED <<eleccion, colas, turnos, args, rta, hechos, kernel, cpus>>

RevisarExec ==
  /\ En(0, "revisa_exec") /\ Pasa(0, IF hilo_EXEC = Nadie THEN "recibe" ELSE "reenvia")
  /\ UNCHANGED <<eleccion, colas, turnos, locales, kernel, cpus>>

Reenviar == En(0, "reenvia") /\ enviar_a_ejecucion(0)

finalizar_hilo == TerminarHilo \/ AvisarFin \/ RevisarExec \/ Reenviar

-----------------------------------------------------------------------------
(* cpu. Requests still to be received count for the bounds. *)
Pedir(c) ==
  /\ canal # <<>> /\ canal' = Tail(canal)
  /\ c # "EXIT" => hechos + Len(pedidos) < MaxPedidos
  /\ c = "DUMP" => hechos + Len(pedidos) < MaxVolcados
  /\ pedidos' = Append(pedidos, c)
  /\ UNCHANGED <<eleccion, colas, turnos, locales, pc, kernel, solapado>>

-----------------------------------------------------------------------------
Init ==
  /\ hilo_EXEC = <<1, 0>> /\ cola_hilos_READY = SetToSeq(Hilos \ {<<1, 0>>})
  /\ cola_hilos_BLOCK = <<>> /\ cola_hilos_BLOCK_IO = <<>> /\ hilo_IO = Nadie
  /\ cola_hilos_BLOCK_DUMP_MEMORY = <<>> /\ hilo_DUMP_MEMORY = Nadie
  /\ args = [n \in Pedidos |-> Nadie]
  /\ cola_procesos_READY = {h[1] : h \in Hilos} /\ victima = Nadie
  /\ rta = [n \in Pedidos |-> Nadie] /\ hechos = 0
  /\ pc = [k \in KHilos |-> IF k = 0 THEN "recibe" ELSE "nada"]
  /\ kernel = "activo" /\ canal = <<<<1, 0>>>> /\ pedidos = <<>>
  /\ solapado = FALSE

KHilo(k) ==
  \/ elegir_hilo(k) \/ RevisarIO(k) \/ TomarIO(k) \/ RevisarDump(k) \/ TomarDump(k)
  \/ buscar_hilo(k)
  \/ k # 0 /\ (revisar_fin_io(k) \/ revisar_rta_volcado(k) \/ AgregarReady(k) \/ Probar(k))
  \/ k = 0 /\ (Bloquear \/ AnotarArgs \/ Encolar \/ finalizar_hilo \/ \E c \in Clases : Recibir(c))

NextKernel == \E k \in KHilos : KHilo(k)

Next == NextKernel \/ \E c \in Clases \cup {"EXIT"} : Pedir(c)

\* The kernel threads are scheduled, memoria answers and IO ends: while some kernel
\* thread has a step, one of them takes a step. The requests being bounded, every
\* thread then gets to its end.
Spec == Init /\ [][Next]_vars /\ WF_vars(NextKernel)

-----------------------------------------------------------------------------
(* Properties *)

\* The requests whose kernel thread still uses the TCB and the class of its argument.
ConArgumento ==
  {n \in Pedidos : n <= hechos /\ pc[n] \in
     {"nada", "duerme", "arranca", "volcando", "encola_ready", "suelta_dump", "revisa_dump",
      "toma_dump", "saca_de_block", "finaliza", "busca_exec", "busca_ready", "busca_block",
      "retira"}}

\* Types; NULL TCBs reach READY and BLOCK only, and a kernel thread has an argument only
\* until it has dealt with it.
TypeOK ==
  /\ hilo_EXEC \in Hilos \cup {Nadie}
  /\ {cola_hilos_READY, cola_hilos_BLOCK} \subseteq Seq(Hilos \cup {Nadie})
  /\ cola_hilos_BLOCK_IO \in Seq(Pedidos) /\ cola_hilos_BLOCK_DUMP_MEMORY \in Seq(Pedidos)
  /\ {hilo_IO, hilo_DUMP_MEMORY} \subseteq Pedidos \cup {Nadie}
  /\ {n \in Pedidos : args[n] # Nadie} = ConArgumento
  /\ \A n \in ConArgumento : args[n].clase \in Clases /\ args[n].hilo \in Hilos \cup {Nadie}
  /\ rta \in [Pedidos -> {0, 1, Nadie}] /\ hechos \in 0 .. MaxPedidos
  /\ victima \in Hilos \cup {Nadie} /\ cola_procesos_READY \subseteq {h[1] : h \in Hilos}
  /\ canal \in Seq(Hilos) /\ pedidos \in Seq(Clases \cup {"EXIT"})
  /\ kernel \in {"activo", "caido"} /\ solapado \in BOOLEAN

CpuParada == canal = <<>> /\ pedidos = <<>>

\* No wake-up is lost, in any interleaving: once every kernel thread is out of its
\* accesses, a ready thread finds the cpu busy, a request of IO finds one being served,
\* a request of dump finds a dump thread that will look at the queue. The test and the
\* act are apart in all of elegir_hilo, revisar_cola_IO and revisar_cola_dump.
NadieOlvidado ==
  kernel = "activo" /\ EnReposo =>
    /\ cola_hilos_READY # <<>> => ~CpuParada
    /\ cola_hilos_BLOCK_IO # <<>> => \E n \in Pedidos : pc[n] = "duerme"
    /\ cola_hilos_BLOCK_DUMP_MEMORY # <<>> =>
         \E n \in Pedidos : pc[n] \in {"arranca", "volcando"}

\* While the accesses of two kernel threads have not overlapped, kernel and cpu mean
\* the same thread and there is one election at a time.
KernelYCpuDeAcuerdo ==
  kernel = "activo" /\ ~solapado /\ EnReposo =>
    /\ hilo_EXEC = Nadie => CpuParada
    /\ hilo_EXEC # Nadie =>
         \/ canal = <<hilo_EXEC>> /\ pedidos = <<>>
         \/ canal = <<>> /\ Len(pedidos) = 1

\* Under the same condition there is one IO at a time, the one hilo_IO says.
UnaIO ==
  kernel = "activo" /\ ~solapado /\ EnReposo =>
    \A n \in Pedidos : pc[n] = "duerme" => hilo_IO = n

\* The requests of IO, bounded here, are all served in any interleaving, unless the
\* kernel falls: a time comes when every thread that asked for one has been queued.
EnIO(n) ==
  \/ n \in ToSet(cola_hilos_BLOCK_IO)
  \/ pc[n] = "duerme"
  \/ pc[n] = "encola_ready" /\ args[n].clase = "IO"
SinIO == \A n \in Pedidos : ~EnIO(n)
IOAtendida == []<>(kernel = "caido" \/ SinIO)

\* A thread that asked for a dump is blocked until memoria answers ("Esta syscall
\* bloqueara al hilo que la invoco hasta que el modulo memoria confirme"), even while no
\* accesses have overlapped.
BloqueadoHastaRespuesta ==
  \A n \in Pedidos :
    kernel = "activo" /\ ~solapado /\ args[n] # Nadie /\ pc[n] = "volcando" =>
      EnBlock(args[n].hilo)

\* Two kernel threads never are inside elegir_hilo at once.
EleccionExclusiva ==
  \A j, k \in KHilos :
    {pc[j], pc[k]} \subseteq {"elige_mira", "elige_saca", "elige_envia"} => j = k
=============================================================================
