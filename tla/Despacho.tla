------------------------------ MODULE Despacho ------------------------------
(***************************************************************************)
(* A turn of a thread on the cpu, message by message: kernel, cpu and the  *)
(* contexts that memoria keeps, under CMN with one priority. The dispatch  *)
(* and interrupt connections carry the words of Paquete; the requests the  *)
(* cpu makes to memoria are synchronous and are part of its steps.         *)
(*                                                                         *)
(* What the kernel decides about joins, mutexes and admissions is module   *)
(* Kernel's; here each answer it may give is a disjunct. Elections of two  *)
(* kernel threads do not overlap: when they do is module KernelIO's.       *)
(*                                                                         *)
(* Assumed of the scripts: no thread cancels itself, none ends its process *)
(* or a sibling while a sibling is in IO.                                  *)
(***************************************************************************)
EXTENDS Paquete, FiniteSets, SequencesExt, Filtro

CONSTANTS
  Hilos,          \* bound: the threads there may be, pairs <<PID, TID>>
  Largo,          \* bound: instructions a script executes before an exit
  MaxVerificados, \* bound: quantum threads between their check and their send
  MaxEnVuelo,     \* bound: words on the interrupt connection
  Instrucciones,  \* instructions the scripts use
  Nadie,          \* the NULL TCB
  NoHay           \* no such thread in memoria

PIDs == {h[1] : h \in Hilos}
TIDs == {h[2] : h \in Hilos}

ASSUME ConstantesDelDespacho ==
  /\ Hilos \subseteq Nat \X Nat /\ IsFiniteSet(Hilos)
  /\ <<1, 0>> \in Hilos /\ \A h \in Hilos : <<h[1], 0>> \in Hilos
  /\ Largo \in Nat
  /\ MaxVerificados \in Nat /\ MaxEnVuelo \in Nat
  /\ Nadie \notin Hilos /\ NoHay \notin Nat

VARIABLES
  hilo_EXEC,
  cola_READY,     \* the level of colas_multi_level
  en_io,          \* in cola_hilos_BLOCK until another kernel thread brings them back
  en_espera,      \* blocked by a join or a mutex
  procesos_NEW,   \* processes memoria refused so far
  creados,        \* threads there have been
  kernel,         \* where the dispatch thread is
  cronometro,     \* the quantum thread of timestamp_q_actual still sleeps
  verificados,    \* quantum threads that saw their timestamp and did not send yet
  a_kernel, a_cpu, interrupciones,  \* the connections: cpu to kernel, kernel to cpu
  cpu_pc,         \* where the main loop of the cpu is
  actual,         \* PID and TID
  registros,      \* instructions whose effects are in the nine registers
  ejecutando_proceso, interrupt_flag,
  contextos,      \* registros of each thread in memoria
  avanzo,         \* history: some instruction executed since the last election
  ajeno           \* history: a mutex of another thread was unlocked

colas    == <<cola_READY, en_io, en_espera, procesos_NEW, creados>>
quantum  == <<cronometro, verificados, interrupciones>>
enKernel == <<hilo_EXEC, colas, kernel, ajeno>>
enCpu    == <<cpu_pc, actual, registros, ejecutando_proceso>>
vars     == <<enKernel, quantum, a_kernel, a_cpu, enCpu, interrupt_flag, contextos, avanzo>>

Encontrable(h) == h = hilo_EXEC \/ h \in ToSet(cola_READY) \/ h \in en_io \cup en_espera
Vivos == {h \in Hilos : contextos[h] # NoHay}
DelProceso(S, pid) == {h \in S : h[1] = pid}

\* The next PID and the next TID of a process, while the bounds leave one.
PidLibre ==
  {p \in PIDs : \A q \in PIDs : q < p <=> <<q, 0>> \in creados \/ q \in procesos_NEW}
TidLibre(pid) ==
  {t \in TIDs : <<pid, t>> \in Hilos /\ \A u \in TIDs : u < t <=> <<pid, u>> \in creados}

-----------------------------------------------------------------------------
(* cpu: what each syscall sends. A name is the word 0. *)

dump_memory       == enviar_operacion(OP_DUMP_MEM)
io                == enviar_int(0, OP_IO)
process_create    == enviar_paquete(agregar_a_paquete(agregar_a_paquete(agregar_a_paquete(
                       crear_paquete(OP_CREAR_PROCESO), <<0>>), <<0>>), <<0>>))
thread_create     == enviar_paquete(agregar_a_paquete(agregar_a_paquete(
                       crear_paquete(OP_CREAR_HILO), <<0>>), <<0>>))
thread_join(tid)  == enviar_int(tid, OP_THREAD_JOIN)
\* Mutant: the packet of the version in comments, a field with its length.
thread_cancel_como_paquete(tid) ==
  enviar_paquete(agregar_a_paquete(crear_paquete(OP_CANCELAR_HILO), <<tid>>))
thread_cancel(tid) == enviar_int(tid, OP_CANCELAR_HILO)
mutex_create      == enviar_string(0, OP_MUTEX_CREATE)
mutex_lock        == enviar_string(0, OP_MUTEX_LOCK)
mutex_unlock      == enviar_string(0, OP_MUTEX_UNLOCK)
thread_exit       == enviar_operacion(OP_FINALIZAR_HILO)
process_exit      == enviar_operacion(OP_FINALIZAR_PROCESO)
motivo(op)        == enviar_int(actual[2], op)

\* Mutant: the syscall leaves the context in memoria as it was.
actualizar_contexto_sin_registros(n) == ejecutando_proceso' = FALSE /\ UNCHANGED contextos

\* memoria's handler of OP_MEMCONTEXT_UPDATE is actualizarCDE.
actualizar_contexto(n) ==
  /\ ejecutando_proceso' = FALSE
  /\ contextos' = [contextos EXCEPT ![actual] = n]

\* One instruction, its fetch included, that makes a request to the kernel.
Pedido(nombre, mensaje) ==
  /\ cpu_pc = "execute" /\ nombre \in Instrucciones
  /\ registros < Largo \/ nombre \in {"THREAD_EXIT", "PROCESS_EXIT"}
  /\ registros' = registros + 1 /\ avanzo' = TRUE
  /\ actualizar_contexto(registros + 1)
  /\ a_kernel' = a_kernel \o mensaje
  /\ UNCHANGED <<enKernel, quantum, a_cpu, actual, interrupt_flag>>

\* The thread leaves the cpu: no answer is expected.
Cede(nombre, mensaje) ==
  Pedido(nombre, mensaje) /\ cpu_pc' = "interrupcion"

\* recuperar_contexto_urgente: the same thread, most likely, comes back at once.
Continua(nombre, mensaje) == Pedido(nombre, mensaje) /\ cpu_pc' = "urgente"

\* revisar_bloqueante follows.
Consulta(nombre, mensaje) == Pedido(nombre, mensaje) /\ cpu_pc' = "bloqueante"

SinHermanosEnIO == DelProceso(en_io, actual[1]) = {}

\* execute, and the MMU for an address out of the partition.
Execute ==
  \/ Cede("DUMP_MEMORY", dump_memory) \/ Cede("IO", io)
  \/ PidLibre # {} /\ Continua("PROCESS_CREATE", process_create)
  \/ TidLibre(actual[1]) # {} /\ Continua("THREAD_CREATE", thread_create)
  \/ Continua("MUTEX_CREATE", mutex_create)
  \/ Consulta("MUTEX_LOCK", mutex_lock) \/ Consulta("MUTEX_UNLOCK", mutex_unlock)
  \/ \E tid \in TIDs : Consulta("THREAD_JOIN", thread_join(tid))
  \/ \E tid \in TIDs \ {actual[2]} :
       <<actual[1], tid>> \notin en_io /\ Continua("THREAD_CANCEL", thread_cancel(tid))
  \/ Cede("THREAD_EXIT", thread_exit)
  \/ SinHermanosEnIO /\ Cede("PROCESS_EXIT", process_exit)
  \/ SinHermanosEnIO /\ Cede("SEGMENTATION_FAULT", motivo(OP_SEGMENTATION_FAULT))

\* The instructions that make no request.
ExecuteLocal ==
  /\ cpu_pc = "execute" /\ registros < Largo
  /\ registros' = registros + 1 /\ avanzo' = TRUE
  /\ cpu_pc' = "interrupcion"
  /\ UNCHANGED <<enKernel, quantum, a_kernel, a_cpu, actual, ejecutando_proceso, interrupt_flag, contextos>>

-----------------------------------------------------------------------------
(* cpu: main loop and interrupt thread *)

\* Top of the loop.
Inicio ==
  /\ cpu_pc = "inicio"
  /\ \/ ejecutando_proceso /\ cpu_pc' = "execute" /\ UNCHANGED interrupt_flag
     \/ ~ejecutando_proceso /\ cpu_pc' = "espera" /\ interrupt_flag' = FALSE
  /\ UNCHANGED <<enKernel, quantum, a_kernel, a_cpu, actual, registros, ejecutando_proceso, contextos, avanzo>>

\* OP_EJECUTAR_HILO, and pedir_contexto: memoria answers obtenerCDE.
RecibirHilo(despues) ==
  LET p == recibir_paquete(Tail(a_cpu))
      h == <<p.valores[1][1], p.valores[2][1]>>
  IN  /\ a_cpu # <<>> /\ HayBuffer(Tail(a_cpu))
      /\ Head(a_cpu) = OP_EJECUTAR_HILO
      /\ h \in Vivos
      /\ a_cpu' = p.resto
      /\ actual' = h /\ registros' = contextos[h]
      /\ ejecutando_proceso' = TRUE
      /\ cpu_pc' = despues
      /\ UNCHANGED <<enKernel, quantum, a_kernel, interrupt_flag, contextos, avanzo>>

\* Mutant: the interrupt is looked at before the first instruction of the turn.
RecibirTurnoConInterrupcion ==
  cpu_pc = "espera" /\ RecibirHilo("interrupcion")

RecibirTurno == cpu_pc = "espera" /\ RecibirHilo("execute")

RecuperarContexto == cpu_pc = "urgente" /\ RecibirHilo("interrupcion")

\* Mutant: the acknowledgment is sent only when the thread goes on.
Acuse_solo_si_sigue(rta) == IF rta = 0 THEN enviar_operacion(OP_ES_BLOQUEANTE) ELSE <<>>

Acuse(rta) == enviar_operacion(OP_ES_BLOQUEANTE)

revisar_bloqueante ==
  LET rta == recibir_int(Tail(a_cpu))
  IN  /\ cpu_pc = "bloqueante"
      /\ a_cpu # <<>> /\ HayBuffer(Tail(a_cpu))
      /\ a_cpu' = rta.resto
      /\ a_kernel' = a_kernel \o Acuse(rta.valor)
      /\ cpu_pc' = IF rta.valor = 0 THEN "urgente" ELSE "interrupcion"
      /\ UNCHANGED <<enKernel, quantum, actual, registros, ejecutando_proceso,
                     interrupt_flag, contextos, avanzo>>

\* Mutant: a thread that has left the cpu is preempted.
Interrumpible_siempre == interrupt_flag

Interrumpible == interrupt_flag /\ ejecutando_proceso

\* Check interrupt.
RevisarInterrupcion ==
  /\ cpu_pc = "interrupcion" /\ cpu_pc' = "inicio"
  /\ \/ /\ Interrumpible
        /\ actualizar_contexto(registros)
        /\ a_kernel' = a_kernel \o motivo(OP_INTERRUPT)
        /\ interrupt_flag' = FALSE
     \/ ~Interrumpible /\ UNCHANGED <<a_kernel, ejecutando_proceso, interrupt_flag, contextos>>
  /\ UNCHANGED <<enKernel, quantum, a_cpu, actual, registros,
                 avanzo>>

\* The thread of the interrupt connection: only the TID is compared.
recibir_interrupciones ==
  LET i == recibir_int(Tail(interrupciones))
  IN  /\ interrupciones # <<>>
      /\ interrupciones' = i.resto
      /\ interrupt_flag' = (interrupt_flag \/ i.valor = actual[2])
      /\ UNCHANGED <<enKernel, cronometro, verificados, a_kernel, a_cpu, enCpu, contextos,
                     avanzo>>

-----------------------------------------------------------------------------
(* kernel: dispatch thread *)

enviar_a_ejecucion(h) ==
  enviar_paquete(agregar_a_paquete(agregar_a_paquete(
    crear_paquete(OP_EJECUTAR_HILO), <<h[1]>>), <<h[2]>>))

Bloqueante   == enviar_int(1, OP_ES_BLOQUEANTE)
NoBloqueante == enviar_int(0, OP_ES_BLOQUEANTE)

Sigue == a_cpu' = a_cpu \o enviar_a_ejecucion(hilo_EXEC) /\ kernel' = "recibe" /\ UNCHANGED hilo_EXEC

\* elegir_hilo is split where other threads may read hilo_EXEC: it is NULL first.
DejaDeEjecutar == hilo_EXEC' = Nadie /\ kernel' = "elige" /\ UNCHANGED a_cpu

\* enviar_bloqueante_y_esperar: the acknowledgment is awaited, then the handler goes on.
Responde(mensaje, despues) ==
  a_cpu' = a_cpu \o mensaje /\ kernel' = despues /\ UNCHANGED hilo_EXEC

EncolarReady(S) == cola_READY' = cola_READY \o SetToSeq(S)

\* The operation and its data leave the connection. The handlers dereference
\* hilo_EXEC: that it is not NULL is DeAcuerdo.
Recibe(op) ==
  /\ kernel = "recibe" /\ hilo_EXEC # Nadie
  /\ a_kernel # <<>> /\ Head(a_kernel) = op
  /\ UNCHANGED <<quantum, enCpu, interrupt_flag, avanzo>>
Datos == Tail(a_kernel)
SinDatos(op)   == Recibe(op) /\ a_kernel' = Datos
ConInt(op)     == Recibe(op) /\ HayBuffer(Datos) /\ a_kernel' = recibir_int(Datos).resto
ConString(op)  == Recibe(op) /\ HayBuffer(Datos) /\ a_kernel' = recibir_string(Datos).resto
ConPaquete(op) == Recibe(op) /\ HayBuffer(Datos) /\ a_kernel' = recibir_paquete(Datos).resto
Entero == recibir_int(Datos).valor

\* The process stays in NEW when memoria refuses it or another one waits there.
crear_proceso ==
  /\ ConPaquete(OP_CREAR_PROCESO)
  /\ \E p \in PidLibre :
       \/ procesos_NEW' = procesos_NEW \cup {p} /\ UNCHANGED <<cola_READY, creados, contextos>>
       \/ /\ procesos_NEW = {} /\ UNCHANGED procesos_NEW
          /\ creados' = creados \cup {<<p, 0>>}
          /\ contextos' = [contextos EXCEPT ![<<p, 0>>] = 0]
          /\ EncolarReady({<<p, 0>>})
  /\ Sigue
  /\ UNCHANGED <<en_io, en_espera, ajeno>>

\* When memoria refuses the thread its TID is used all the same.
crear_hilo ==
  /\ ConPaquete(OP_CREAR_HILO)
  /\ \E t \in TidLibre(hilo_EXEC[1]) :
       LET h == <<hilo_EXEC[1], t>>
       IN  /\ creados' = creados \cup {h}
           /\ \/ UNCHANGED <<cola_READY, contextos>>
              \/ contextos' = [contextos EXCEPT ![h] = 0] /\ EncolarReady({h})
  /\ Sigue
  /\ UNCHANGED <<en_io, en_espera, procesos_NEW, ajeno>>

crear_mutex ==
  ConString(OP_MUTEX_CREATE) /\ Sigue /\ UNCHANGED <<colas, contextos, ajeno>>

bloquear_hilo_por_thread_join ==
  /\ ConInt(OP_THREAD_JOIN)
  /\ \/ /\ <<hilo_EXEC[1], Entero>> \in Vivos
        /\ en_espera' = en_espera \cup {hilo_EXEC}
        /\ Responde(Bloqueante, "elige_tras_acuse")
     \/ Responde(NoBloqueante, "sigue_tras_acuse") /\ UNCHANGED en_espera
  /\ UNCHANGED <<cola_READY, en_io, procesos_NEW, creados, contextos, ajeno>>

\* Taken, free, or no such mutex: the thread goes to EXIT and memoria is not told.
bloquear_mutex ==
  /\ ConString(OP_MUTEX_LOCK)
  /\ \/ en_espera' = en_espera \cup {hilo_EXEC} /\ Responde(Bloqueante, "elige_tras_acuse")
     \/ UNCHANGED en_espera /\ Responde(NoBloqueante, "sigue_tras_acuse")
     \/ UNCHANGED en_espera /\ Responde(Bloqueante, "elige_tras_acuse")
  /\ UNCHANGED <<cola_READY, en_io, procesos_NEW, creados, contextos, ajeno>>

\* Owner, no such mutex, or the mutex of another thread: then nothing is answered.
desbloquear_mutex ==
  /\ ConString(OP_MUTEX_UNLOCK)
  /\ \/ /\ \E S \in SUBSET DelProceso(en_espera, hilo_EXEC[1]) :
             Cardinality(S) <= 1 /\ en_espera' = en_espera \ S /\ EncolarReady(S)
        /\ Responde(NoBloqueante, "sigue_tras_acuse")
        /\ UNCHANGED ajeno
     \/ Responde(Bloqueante, "elige_tras_acuse") /\ UNCHANGED <<cola_READY, en_espera, ajeno>>
     \/ /\ ajeno' = TRUE
        /\ UNCHANGED <<cola_READY, en_espera, hilo_EXEC, kernel, a_cpu>>
  /\ UNCHANGED <<en_io, procesos_NEW, creados, contextos>>

\* The threads of S end; D, of those that wait, are woken.
Terminan(S, D) ==
  /\ contextos' = [h \in Hilos |-> IF h \in S THEN NoHay ELSE contextos[h]]
  /\ cola_READY' = Filtrar(cola_READY, Hilos \ S) \o SetToSeq(D)
  /\ en_espera' = en_espera \ (S \cup D)

\* A thread that memoria knows and no queue holds, left in EXIT by a mutex that does
\* not exist, is not found either.
finalizar_hilo(h) ==
  \/ /\ h \notin Vivos \/ ~Encontrable(h)
     /\ Sigue /\ UNCHANGED <<contextos, cola_READY, en_espera>>
  \/ /\ h \in Vivos /\ Encontrable(h)
     /\ \E D \in SUBSET (DelProceso(en_espera, h[1]) \ {h}) : Terminan({h}, D)
     /\ IF h = hilo_EXEC THEN DejaDeEjecutar ELSE Sigue

THREAD_EXIT ==
  /\ SinDatos(OP_FINALIZAR_HILO) /\ finalizar_hilo(hilo_EXEC)
  /\ UNCHANGED <<en_io, procesos_NEW, creados, ajeno>>
THREAD_CANCEL ==
  /\ ConInt(OP_CANCELAR_HILO) /\ finalizar_hilo(<<hilo_EXEC[1], Entero>>)
  /\ UNCHANGED <<en_io, procesos_NEW, creados, ajeno>>

\* The end of the process may admit those that wait in NEW.
finalizar_proceso ==
  /\ SinDatos(OP_FINALIZAR_PROCESO) \/ ConInt(OP_SEGMENTATION_FAULT)
  /\ \E P \in SUBSET procesos_NEW :
       LET nuevos  == {<<p, 0>> : p \in P}
           mueren  == DelProceso(Hilos, hilo_EXEC[1])
           quedan  == Filtrar(cola_READY, Hilos \ mueren)
       IN  /\ procesos_NEW' = procesos_NEW \ P
           /\ creados' = creados \cup nuevos
           /\ contextos' = [h \in Hilos |-> IF h \in mueren THEN NoHay
                                            ELSE IF h \in nuevos THEN 0 ELSE contextos[h]]
           /\ cola_READY' = quedan \o SetToSeq(nuevos)
           /\ en_espera' = en_espera \ mueren
  /\ DejaDeEjecutar
  /\ UNCHANGED <<en_io, ajeno>>

\* bloquear_hilo_por_io and volcado_memoria.
BloquearPorIO ==
  /\ ConInt(OP_IO) \/ SinDatos(OP_DUMP_MEM)
  /\ en_io' = en_io \cup {hilo_EXEC}
  /\ DejaDeEjecutar
  /\ UNCHANGED <<cola_READY, en_espera, procesos_NEW, creados, contextos, ajeno>>

\* Mutant: hilo_EXEC is cleared before it is queued.
cambiar_hilo_exec_fin_Q_tarde ==
  /\ ConInt(OP_INTERRUPT)
  /\ DejaDeEjecutar
  /\ EncolarReady({hilo_EXEC'})
  /\ UNCHANGED <<en_io, en_espera, procesos_NEW, creados, contextos, ajeno>>

cambiar_hilo_exec_fin_Q ==
  /\ ConInt(OP_INTERRUPT)
  /\ EncolarReady({hilo_EXEC})
  /\ DejaDeEjecutar
  /\ UNCHANGED <<en_io, en_espera, procesos_NEW, creados, contextos, ajeno>>

\* recibir_operacion in enviar_bloqueante_y_esperar takes any operation.
RecibirAcuse ==
  /\ kernel \in {"sigue_tras_acuse", "elige_tras_acuse"}
  /\ a_kernel # <<>> /\ a_kernel' = Datos
  /\ \/ kernel = "sigue_tras_acuse" /\ Sigue
     \/ kernel = "elige_tras_acuse" /\ DejaDeEjecutar
  /\ UNCHANGED <<colas, quantum, enCpu, interrupt_flag, contextos, avanzo, ajeno>>

\* The rest of elegir_hilo, up to the send.
elegir_hilo ==
  /\ kernel = "elige"
  /\ \/ /\ cola_READY = <<>> /\ kernel' = "recibe"
        /\ UNCHANGED <<hilo_EXEC, cola_READY, a_cpu, avanzo>>
     \/ /\ cola_READY # <<>> /\ kernel' = "cuenta"
        /\ hilo_EXEC' = Head(cola_READY) /\ cola_READY' = Tail(cola_READY)
        /\ a_cpu' = a_cpu \o enviar_a_ejecucion(hilo_EXEC')
        /\ avanzo' = FALSE
  /\ UNCHANGED <<en_io, en_espera, procesos_NEW, creados, ajeno, quantum, a_kernel, enCpu,
                 interrupt_flag, contextos>>

-----------------------------------------------------------------------------
(* kernel: quantum threads, and the threads that end an IO *)

\* A new timestamp: the quantum threads of the earlier elections do not match it.
iniciar_conteo_q ==
  /\ kernel = "cuenta" /\ kernel' = "recibe"
  /\ cronometro' = TRUE
  /\ UNCHANGED <<hilo_EXEC, colas, ajeno, verificados, interrupciones, a_kernel, a_cpu, enCpu,
                 interrupt_flag, contextos, avanzo>>

\* desalojar_hilo_fin_Q, the check. Without a running thread it just ends.
VenceQuantum ==
  /\ cronometro /\ cronometro' = FALSE
  /\ \/ hilo_EXEC # Nadie /\ verificados < MaxVerificados /\ verificados' = verificados + 1
     \/ hilo_EXEC = Nadie /\ UNCHANGED verificados
  /\ UNCHANGED <<enKernel, interrupciones, a_kernel, a_cpu, enCpu, interrupt_flag, contextos,
                 avanzo>>

\* desalojar_hilo_fin_Q, the send: hilo_EXEC is read again.
EnviaInterrupcion ==
  /\ verificados > 0 /\ verificados' = verificados - 1
  /\ \/ /\ hilo_EXEC # Nadie /\ Len(interrupciones) < MaxEnVuelo
        /\ interrupciones' = interrupciones \o enviar_int(hilo_EXEC[2], OP_INTERRUPT)
        /\ UNCHANGED kernel
     \/ hilo_EXEC = Nadie /\ kernel' = "caido" /\ UNCHANGED interrupciones
  /\ UNCHANGED <<hilo_EXEC, colas, ajeno, cronometro, a_kernel, a_cpu, enCpu, interrupt_flag,
                 contextos, avanzo>>

\* revisar_fin_io, and revisar_rta_volcado when the dump succeeds.
VolverDeIO ==
  /\ kernel \notin {"elige", "caido"}
  /\ \E h \in en_io : en_io' = en_io \ {h} /\ EncolarReady({h})
  /\ IF hilo_EXEC = Nadie THEN DejaDeEjecutar ELSE UNCHANGED <<hilo_EXEC, kernel, a_cpu>>
  /\ UNCHANGED <<en_espera, procesos_NEW, creados, ajeno, quantum, a_kernel, enCpu,
                 interrupt_flag, contextos, avanzo>>

-----------------------------------------------------------------------------
Init ==
  /\ hilo_EXEC = <<1, 0>> /\ creados = {<<1, 0>>}
  /\ cola_READY = <<>> /\ en_io = {} /\ en_espera = {} /\ procesos_NEW = {}
  /\ kernel = "cuenta" /\ cronometro = FALSE /\ verificados = 0
  /\ a_cpu = enviar_a_ejecucion(<<1, 0>>) /\ a_kernel = <<>> /\ interrupciones = <<>>
  /\ cpu_pc = "inicio" /\ actual = <<0, 0>> /\ registros = 0
  /\ ejecutando_proceso = FALSE /\ interrupt_flag = FALSE
  /\ contextos = [h \in Hilos |-> IF h = <<1, 0>> THEN 0 ELSE NoHay]
  /\ avanzo = FALSE /\ ajeno = FALSE

gestionar_peticiones_cpu_dispatch ==
  \/ crear_proceso \/ crear_hilo \/ crear_mutex
  \/ bloquear_hilo_por_thread_join \/ bloquear_mutex \/ desbloquear_mutex
  \/ THREAD_EXIT \/ THREAD_CANCEL \/ finalizar_proceso
  \/ BloquearPorIO \/ cambiar_hilo_exec_fin_Q
  \/ RecibirAcuse \/ elegir_hilo \/ iniciar_conteo_q

BuclePrincipal ==
  \/ Inicio \/ RecibirTurno \/ Execute \/ ExecuteLocal
  \/ revisar_bloqueante \/ RecuperarContexto \/ RevisarInterrupcion

Next ==
  \/ gestionar_peticiones_cpu_dispatch \/ BuclePrincipal \/ recibir_interrupciones
  \/ VenceQuantum \/ EnviaInterrupcion \/ VolverDeIO

\* The dispatch thread and the main loop of the cpu go on while they can: their
\* threads are scheduled and the connections deliver. Timers and IO owe nothing.
Spec ==
  /\ Init /\ [][Next]_vars
  /\ WF_vars(gestionar_peticiones_cpu_dispatch) /\ WF_vars(BuclePrincipal)

-----------------------------------------------------------------------------
(* Properties *)

EsInt(s)        == Len(s) = 3 /\ s[2] = SIZEOF_INT
EsPaquete(s, n) ==
  /\ Len(s) > 1 /\ HayBuffer(Tail(s))
  /\ Len(recibir_paquete(Tail(s)).valores) = n /\ recibir_paquete(Tail(s)).resto = <<>>

EsPedido(s) ==
  \/ s \in {<<op>> : op \in {OP_FINALIZAR_PROCESO, OP_FINALIZAR_HILO, OP_DUMP_MEM}}
  \/ /\ Head(s) \in {OP_THREAD_JOIN, OP_CANCELAR_HILO, OP_IO, OP_INTERRUPT, OP_MUTEX_CREATE,
                     OP_SEGMENTATION_FAULT, OP_MUTEX_LOCK, OP_MUTEX_UNLOCK}
     /\ EsInt(s)
  \/ Head(s) = OP_CREAR_PROCESO /\ EsPaquete(s, 3)
  \/ Head(s) = OP_CREAR_HILO /\ EsPaquete(s, 2)

EsperaAcuse == kernel \in {"sigue_tras_acuse", "elige_tras_acuse"}

\* Types: no NULL TCB is queued, and the TIDs and the lengths on the connections are
\* words.
TypeOK ==
  /\ hilo_EXEC \in Hilos \cup {Nadie}
  /\ cola_READY \in Seq(Hilos) /\ en_io \cup en_espera \cup creados \subseteq Hilos
  /\ procesos_NEW \subseteq PIDs
  /\ kernel \in {"recibe", "elige", "cuenta", "sigue_tras_acuse", "elige_tras_acuse", "caido"}
  /\ cronometro \in BOOLEAN /\ verificados \in 0 .. MaxVerificados
  /\ {a_kernel, a_cpu, interrupciones} \subseteq Seq(Int)
  /\ cpu_pc \in {"inicio", "espera", "execute", "bloqueante", "urgente", "interrupcion"}
  /\ actual \in Hilos \cup {<<0, 0>>} /\ registros \in Nat
  /\ {ejecutando_proceso, interrupt_flag, avanzo, ajeno} \subseteq BOOLEAN
  /\ contextos \in [Hilos -> Nat \cup {NoHay}]

\* Each connection holds at most one message, whole, and of the form that the place
\* where its reader is (or where it will read next) takes apart: nothing in a message
\* says whether enviar_int, enviar_paquete or enviar_operacion wrote it, and one word
\* left behind would be read as the next operation.
Sincronizados ==
  /\ a_kernel # <<>> => IF EsperaAcuse THEN a_kernel = <<OP_ES_BLOQUEANTE>> ELSE EsPedido(a_kernel)
  /\ a_cpu # <<>> =>
       IF cpu_pc = "bloqueante" THEN Head(a_cpu) = OP_ES_BLOQUEANTE /\ EsInt(a_cpu)
       ELSE Head(a_cpu) = OP_EJECUTAR_HILO /\ EsPaquete(a_cpu, 2)

\* While the cpu executes, or its request is on the way, kernel and cpu mean the same
\* thread, and it exists in memoria: the requests carry no PID and no TID (the kernel
\* attributes them to hilo_EXEC), so a late or repeated one would act on another thread.
DeAcuerdo ==
  /\ ejecutando_proceso \/ a_kernel # <<>> \/ cpu_pc = "bloqueante" =>
       actual = hilo_EXEC /\ actual \in Vivos
  /\ a_cpu # <<>> /\ cpu_pc # "bloqueante" =>
       hilo_EXEC \in Vivos /\ a_cpu = enviar_a_ejecucion(hilo_EXEC)

\* Kernel and cpu wait for each other only when there is nothing to run, except after
\* the UNLOCK of a mutex of another thread, which is never answered (mutex.c:71).
EsperaDeLosDos ==
  /\ kernel = "recibe" \/ EsperaAcuse
  /\ cpu_pc \in {"espera", "urgente", "bloqueante"}
  /\ a_kernel = <<>> /\ a_cpu = <<>>
SinAbrazo ==
  EsperaDeLosDos =>
    \/ ajeno
    \/ kernel = "recibe" /\ hilo_EXEC = Nadie /\ cola_READY = <<>> /\ cpu_pc = "espera"

\* No turn is empty: the interrupt of an earlier turn, which only its TID names and
\* which may arrive at any time, never preempts a thread before its first instruction,
\* so late interrupts cannot keep the threads rotating without advancing.
TurnoNoVacio == a_kernel # <<>> /\ Head(a_kernel) = OP_INTERRUPT => avanzo

\* Kernel, cpu and the contexts of memoria implement the turns: no instruction is lost
\* or repeated across a syscall, a preemption or an IO.
Turno == INSTANCE Turnos WITH
  titular <- hilo_EXEC,
  avance  <- [h \in Hilos |-> IF ejecutando_proceso /\ h = actual THEN registros ELSE contextos[h]]
ImplementaTurnos == Turno!Spec

\* A turn that begins comes to execute an instruction, whatever timers and IO do
\* meanwhile.
ElegidoEjecuta == hilo_EXEC # Nadie /\ ~avanzo ~> avanzo
=============================================================================
