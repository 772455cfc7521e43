# A TLA+ model of the distributed operating-system simulator

The repository simulates an operating system with four processes that talk over
TCP: a **kernel**, a **cpu**, a **memoria** and a **filesystem** (plus **utils**,
the library of packets and sockets). This directory holds TLA+ modules translated
from that code, TLC configurations that check them on small instances, and
proofs for TLAPS. Definitions keep the names of the C functions and variables.

Contents: [1 the system](#1-the-system) · [2 the modules](#2-the-modules) ·
[3 the runs](#3-the-runs) · [4 the disagreements](#4-where-the-code-and-its-words-disagree) ·
[5 the proofs](#5-the-proofs) · [6 limits](#6-what-is-not-modelled-and-what-is-assumed) ·
[7 the plan](#7-the-plan)

Running it:

    tlc -workers 2 -config kernel_cmn.cfg MCKernel.tla     # one run of section 3
    tlapm KernelProofs.tla                                 # one proof module

## 1. The system

### 1.1 Kernel (`src/kernel/src`)

*State.* Processes (PCB: PID, mutexes, next TID) and threads (TCB: PID, TID,
priority, the TIDs that joined it). Queues of pointers: `cola_procesos_NEW`,
`cola_procesos_READY`, `cola_hilos_NEW`, `cola_hilos_READY` (FIFO, PRIORIDADES),
`colas_multi_level` (CMN), `cola_hilos_BLOCK`, `cola_hilos_EXIT`, the list
`lista_hilos` of threads a join may wait for, and `hilo_EXEC`.

*Threads.* The dispatch thread (main.c 116-230) answers the syscalls. An IO thread
(planificacion.c 101-167) serves a queue of sleeps, a dump thread (main.c 294-394) a
queue of MEMORY_DUMP, and a thread per quantum (planificacion.c 214-235) sends the
interrupt.

*Operations.* PROCESS_CREATE, PROCESS_EXIT, THREAD_CREATE, THREAD_JOIN,
THREAD_CANCEL, THREAD_EXIT, MUTEX_CREATE, MUTEX_LOCK, MUTEX_UNLOCK, IO, DUMP_MEMORY,
end of quantum, segmentation fault.

*Interactions.* The cpu sends one request and waits until the kernel names a thread
(or answers OP_NO_ES_BLOQUEANTE). The kernel opens one connection to memoria per
request and waits for its answer.

*Hard.* Every handler moves pointers between queues by hand, and a thread may
be waited for, cancelled, or killed with its process from any queue. Joiners are
woken by a loop that removes from the list it walks. The hand-over of a mutex and
the three planning algorithms use different queues. The IO and the dump threads
touch the same queues without a lock.

*Correct when* a TCB is in one queue at most and in none once freed; a ready thread is
never forgotten by an idle CPU; nobody is overtaken in its queue; a mutex that is
free has no waiters; an end wakes the joiners; the process memory admits is the one
whose thread 0 starts.

### 1.2 Memoria (`src/memoria/src`)

*State.* `lista_particiones` over one array of bytes (fixed or dynamic
partitions), `lista_procesos` (base, limit and size of each process, and its threads
with their registers and instructions).

*Operations.* From the kernel: CREAR_PROCESO, FINALIZAR_PROCESO, INICIAR_HILO,
FINALIZAR_HILO, DUMP_MEMORY. From the cpu: the context of a thread, the next
instruction, READ_MEM, WRITE_MEM.

*Hard.* The split and the merge of partitions in any order of creations and ends, the
retry of a creation that was refused half way, the limit copied from a partition to a
process and from there to the cpu.

*Correct when* the partitions tile the memory; a process is refused only without room;
each process has one partition, which its context describes, and returns it.

### 1.3 Cpu (`src/cpu/src`)

*State.* PC and registers of the running thread, base and limit of its process, the
flag of the pending interrupt. *Operations.* Fetch, decode, execute, the MMU, the
interrupt check. *Hard.* An interrupt that arrives between two dispatches, a request in one
form and its answer in another, who talks next, the context saved before each request, the
width of the registers against the `int` of the MMU. *Correct when* an access stays in
the partition of its process, kernel and cpu mean the same thread, no instruction is lost
or repeated, and a late interrupt cannot keep a thread from advancing.

### 1.4 Filesystem (`src/filesystem/src/main.c`)

*State.* A bitmap in a mapped file, `bloques.dat`, and one metadata file per dump.
*Operations.* One detached thread per dump: count the free blocks, assign them, write
the index block and the data blocks, create the metadata, answer. *Hard.* Several
dumps at once with no lock around the bitmap, the socket handed to the threads by
the address of a loop variable, a crash half way, a dump whose size is not a multiple
of the block. *Correct when* every file with metadata can be read whole, no block
belongs to two dumps, a refusal leaves nothing behind and every dump is answered.

### 1.5 How they meet

    script -> cpu --syscall--> kernel --CREAR_PROCESO, INICIAR_HILO, ...--> memoria
              cpu <--thread--- kernel --DUMP_MEMORY-----------------------> memoria --dump--> filesystem
              cpu ----context, fetch, READ_MEM, WRITE_MEM-----------------> memoria
              cpu <--interrupt (its own socket)--- kernel, quantum thread

The order of the messages of one connection is the order of TCP; nothing in the code
retries or times out, except the creation of the process at the head of NEW.

## 2. The modules

| Module | Stands for | Extends / instantiates |
|---|---|---|
| `Kernel` | what the dispatch thread of the kernel decides | instantiates `CicloDeVida` |
| `CicloDeVida` | what a kernel promises about its threads | |
| `KernelProofs` | theorems about `Kernel`: its types, its NEW queues and the threads of a process that ends | extends `Kernel`, `LemasDeColas` |
| `KernelLugaresProofs` | theorems about `Kernel`: each thread in one place, once | extends `KernelProofs` |
| `KernelCicloProofs` | theorems about `Kernel`: the mutexes, the work of the CPU, the order of the ready queues, and `CicloDeVida` | extends `KernelLugaresProofs` |
| `KernelIO` | the threads of the kernel that end an IO or a dump, beside the dispatch thread | |
| `KernelIOProofs` | theorems about `KernelIO` | extends `KernelIO`, `LemasDeColas` |
| `Despacho` | kernel, cpu and the contexts of memoria, message by message | extends `Paquete`, `Filtro`, instantiates `Turnos` |
| `DespachoProofs` | what the reader of a packet gets, and theorems about `Despacho` | extends `Despacho`, `LemasDeColas` |
| `Filtro` | what is left of a queue without some of its TCBs, for `Kernel` and `Despacho` | |
| `Paquete` | the packets of utils: what is written on a connection and read from it | |
| `Turnos` | what dispatching promises to the threads | |
| `Memoria` | partitions, processes and threads of memoria | instantiates `Reserva` |
| `MemoriaProofs` | theorems about `Memoria` and `Proteccion`: the tiling, who has which bytes, `Reserva`, and what a write touches | extends `Proteccion`, `LemasDeColas` |
| `LemasDeColas` | least elements, and what the operators on queues return, for the proofs | extends `Filtro` |
| `Reserva` | what a memory promises to its processes | |
| `Proteccion` | MMU, READ_MEM and WRITE_MEM in front of `Memoria` | extends `Memoria` |
| `FileSystem` | the filesystem | |
| `FileSystemProofs` | theorems about `FileSystem`: types, whose the blocks are, and that there is room for all when the sum says so | extends `FileSystem`, `LemasDeColas` |
| `MCKernel`, `MCKernelIO`, `MCDespacho`, `MCMemoria`, `MCProteccion`, `MCFileSystem` | values of the constants for TLC | extend theirs |

Operators marked *Mutant* in a module are plausible bugs of the definition that
follows them. No specification uses them: substituted for that definition, they
make the property named in PROJECT.json fail, which shows that the property can.

The kernel is modelled three times, at three grains, because one module with all of it
would be out of TLC's reach. Each assumes what another checks:

- `Kernel` takes a request as one step and knows every queue, mutex and algorithm. That a request
  comes from `hilo_EXEC`, once, is what `Despacho!DeAcuerdo` says.
- `Despacho` takes a message as one step. What the kernel decides about joins, mutexes
  and admissions is a choice, and elections do not overlap.
- `KernelIO` takes one access to a queue or a pointer as one step, and so shows what happens when
  elections do overlap.

### 2.1 Kernel

**Grain.** One action is one iteration of the `switch` of
`gestionar_peticiones_cpu_dispatch`, with all its handler calls. This is exact
for the requests modelled: the cpu runs one thread and sends nothing more until it is
answered, the dispatch thread waits for each answer of memoria, and without IO
and DUMP_MEMORY, which are in `KernelIO`, no other thread of the kernel writes the queues. (The
quantum thread only sends a message to the cpu, which comes back as the request INTERRUPT:
`Despacho`.)

**State.** A TCB is the pair `<<PID, TID>>` (`Hilos`), a NULL TCB is `Nadie`. Queues are
sequences, and sets where the code never looks at the order (BLOCK, EXIT, `lista_hilos`,
`cola_procesos_READY`, only searched by PID). `mutexs[p][n]` is the mutex of
process p found by name, with `valor`, `propietario` and the queue `espera`. `cpu` tells
whether the cpu runs `hilo_EXEC`, waits in `recibir_operacion` for a thread to run,
or waits for an answer nobody will send. `kernel = "caido"` stands for the end of the kernel process
after a NULL dereference.

**Memory as a partner.** `revisar_cola_procesos_new` admits some prefix of NEW (`\E k`):
memory may refuse any process, and when one is refused the loop ends. THREAD_CREATE may
be refused too.

**Scripts.** A script makes any request with any argument at any time. `Llamadas` restricts
the kinds of request in a run. `Disciplina = TRUE` restricts scripts to lock mutexes their
process created and unlock those they hold.

**Handlers worth reading.** `Despertados` / `NoVisitados`: the loop of
`desbloquear_hilos_bloqueados_por_otro` removes element i and then increments i, so it visits the
joiners at odd positions. `finalizar_proceso`: the threads end in the order of their TIDs,
so a joiner with a smaller TID is no longer in BLOCK when its turn comes; under CMN the
NULL is dereferenced at once (`Cae`), under FIFO and PRIORIDADES it is queued in READY and
dereferenced when elected (`EligeNulo`). `desbloquear_mutex`: the new owner is queued in
`colas_multi_level` under every algorithm, and a thread that does not own the mutex gets no answer.

**Abstract specification.** `CicloDeVida` knows only the state of each thread (NEW, READY,
EXEC, BLOCK, EXIT), the legal changes, one CPU, and that the CPU is not idle while a thread is
ready. `EstadoDe` reads the state of a thread from the place that holds it.

### 2.2 Memoria and Reserva

**Grain.** One action is one request of the kernel. Memoria creates a thread per request,
but the kernel waits for each answer. The one exception is the end of a process after a
failed dump, which the dump thread of the kernel asks for on its own: this is why
`FinalizarProceso` is enabled between the two requests that create a process.

**Environment.** `cabeza`, `iniciando`, `activos`, `prox_tid`, `tam` and `script` are what the
kernel and the scripts know: the process at the head of NEW, whether it was admitted and
its thread 0 comes next, the processes that run. When INICIAR_HILO of thread 0 is refused
(its script is missing) the process stays at the head, and CREAR_PROCESO is sent for it
again (kernel estructuras.c 85-118). `ESQUEMA` and `ALGORITMO_BUSQUEDA` are variables that no action
changes: the configuration, read once.

**Algorithms.** `Elegida` is the index that first_fit, best_fit or worst_fit picks: the first
of the best. `Partir` is the split with its quirks: the remainder is kept when it
is empty, and its limit is wrong by 2 and more (`limite - (t - 2)`). `Consolidar`
merges with the next partition and then with the previous one. `liberar_particion` also says when the code reads past the end
of the list: the guard `i + 1 <= list_size` is always true, so only an empty or free partition at the
end saves it.

**Abstract specification.** In `Reserva` what a process receives is a run of bytes that nobody holds,
and it returns all it has at once. The mapping takes the bytes of the partitions with the PID of the process.

### 2.3 Proteccion

Adds the bytes (`memoria_usuario`, abstracted to who wrote each) and the accesses
to `Memoria`. `ConSigno` is the conversion of the unsigned register to the `int` of the MMU;
`Dentro` is its test, on the first byte of the access only, with no lower bound.
A refused access makes the kernel end the process (`FallaDeSegmento`).

### 2.4 FileSystem

**Grain.** One action is one access to what the threads share: the variable of the accepting
loop, with what is received on the connection it names (`Aceptar`, `Saludar`, `Recibir`), one bit of the
bitmap (`ContarBit`, then the comparison `Contar`; `Mirar`), the file of
blocks (`EscribirIndice`, one `EscribirBloque` per block), the directory of metadata, where the file is
created (`crear_metadata`, `vacios`) and then written (`EscribirMetadata`), and the answer (`Responder`). Setting a bit reads
a byte (`LeerByte`) and writes it back (`Marcar`), so it may undo what another thread wrote in between
(`visto`, `ConByte`). Three things are coarser. The writes of the pointers into the index block are one step: no other
thread writes that block unless the two share it, which section 4 describes. So is each data block. And a request
or a handshake is received whole.
`Caer` is the end and restart of the process at any point: the mapped bitmap and the
files survive, the threads do not.

**Why several at once.** Memoria opens a connection per dump, and the dump thread of the
kernel clears `hilo_DUMP_MEMORY` before the answer comes (main.c 341), so a second dump
can start while the first is written.

### 2.5 Despacho, Paquete and Turnos

**Grain.** A step of the cpu is one arm of its main loop: the top, where a thread is awaited
and `interrupt_flag` is reset (`Inicio`), the arrival of the thread with `pedir_contexto`
(`RecibirTurno`, `RecuperarContexto`), one instruction with its fetch (`Execute` for those that make a
request, `ExecuteLocal` for the others), `revisar_bloqueante`, and the check of the interrupt.
The requests of the cpu to memoria are synchronous and belong to these steps. A step of the kernel
is one message received and what its handler does until it has to wait; `elegir_hilo` is split after
`hilo_EXEC = NULL` and after the send, because the quantum thread reads `hilo_EXEC` there. A
quantum thread has two steps, the check of its timestamp and the send of the interrupt, which
dereferences `hilo_EXEC` again (planificacion.c 227-233).

**State.** `a_kernel`, `a_cpu` and `interrupciones` are the connections, as sequences of words: an
operation is a word, a buffer is its size and its words, a field of a packet is its length and its
words. The sending operators are those of `Paquete`, so each instruction writes exactly the words its
C function writes, and each handler takes what its `recibir_*` takes. `registros` stands for the nine
registers: it counts the executed instructions, which is enough to see one lost or repeated.
`contextos` is what memoria holds for each thread. `verificados` counts quantum threads between
their two steps. `avanzo` and `ajeno` are history variables that only properties read.

**What the kernel decides** is left open: a join may block or not, an UNLOCK may wake a waiter of the
process, memoria may refuse. Those choices are narrowed by `Kernel`.

**Abstract specification.** `Turnos` has neither messages nor registers. A thread advances one
instruction at a time in its own turn, others may appear or end, and what a thread has executed is never
undone. `avance` is `registros` for the thread that the cpu executes and what memoria holds for the others.

### 2.6 KernelIO

**Grain.** One access to what the threads of the kernel share, under FIFO: a queue, `hilo_EXEC`,
`hilo_IO`, `hilo_DUMP_MEMORY`. The dispatch thread is 0 and n >= 1 is the thread that serves the n-th
request; `pc[k]` says where each is. `elegir_hilo` is four steps (clear, look at READY, pop, send),
`revisar_cola_IO` two (test, take), and so on. A queue operation together with the use of its
result is one step: splitting it too would only show that the queues of the commons library are not
thread-safe, which is what C says of any unsynchronised access.

**How it maps.** `args[n]` is the argument a kernel thread got from `malloc`: the TCB and, for IO, how
long to sleep. `Recibir` is the message, `Bloquear`, `AnotarArgs` and `Encolar` are `bloquear_hilo_por_io` and
`volcado_memoria`: each reads `hilo_EXEC` anew, so another thread of the kernel may have changed it
in between, and NULL may be pushed to BLOCK. Then the
dispatch thread looks at the turn (`RevisarIO`, `TomarIO`, `RevisarDump`, `TomarDump`) and elects.
`desbloquear_hilo`, `AgregarReady`, `SoltarIO`, `Probar` are `revisar_fin_io`; `Arrancar` to
`Retirar` are `revisar_rta_volcado`.
`TerminarHilo` is THREAD_EXIT: the thread that ends is looked for in `hilo_EXEC`, READY and BLOCK (`buscar_hilo`, shared
with a process that ends because its dump failed), and after the round trip to memoria `AvisarFin` compares the TID of
`hilo_EXEC`, which may be another thread by then: it elects, or sends that one again (`RevisarExec`, `Reenviar`).
A search of BLOCK reads every TCB before the one it wants, and then the mutexes of the process of
`hilo_EXEC`: `BusquedaNula` is where it would read a NULL, and the kernel falls. The cpu executes the first thread of `canal` until that thread makes
its next request, which goes to the end of `pedidos`. `solapado` is a history variable: the accesses
of two kernel threads have overlapped.

## 3. The runs

CHECK_DEADLOCK is FALSE everywhere because each system may really stop: every thread has ended
or is blocked (Kernel), every process was created and ended (Memoria, Proteccion), every dump was
answered (FileSystem).

| Run | Shows | Bounds and why they are enough |
|---|---|---|
| `kernel_cmn` | types, NEW queues aligned, `UnSoloLugar`, `SinHuerfanos`, `TrabajoConservado`, `EsperadosVivos`, `SinAdelantarse`, and that the handlers implement `CicloDeVida` | two processes of two threads, two priorities, one mutex, every request. Two processes are needed for NEW to hold one while the other runs, two threads for joins and waits, two levels for the election. 60 930 states |
| `kernel_prioridades` | `EleccionPorPrioridad`, with NULLs in READY | two processes of three threads, two priorities, no mutexes (section 4): ties and better ones at once. Among threads of equal priority the election is that of FIFO. 428 820 states |
| `kernel_mutex` | `ContabilidadMutex`, `EsperaSoloSiTomado`, `EsperaUnica`, `SinColarse` and `SinPostergar`, with undisciplined scripts | one process of four threads and one level: an owner and three waiters, or three joiners of one thread, the smallest case where the loop that wakes them visits two and leaves one; no cancellation (section 4). 34 779 states |
| `memoria` | types, `Teselan`, `MemoriaActiva`, `RechazoJusto`, `UnaParticion`, `MemoriaDevuelta`, implements `Reserva` | both schemes and the three searches; four processes of sizes 2 and 5 in 9 bytes (fixed: 2, 5, 2) with threads: exact fits and so empty remainders, merges on both sides, refusals, and one process whose script may be missing and so is created again and again. 301 392 states |
| `proteccion` | `EscrituraPropia`, with sizes and addresses multiples of the word | 6-bit registers in a memory of 14 bytes, three processes that come and go. 188 992 states |
| `filesystem` | `ArchivosLegibles`, `SinDobleAsignacion`, `SinFugas`, types, and `TodoRespondido` under `SpecJusta` | three dumps one at a time, blocks of two pointers, six blocks: three small dumps or two large ones fill the disk, and in every other mix one is refused; one crash anywhere, also between the creation of a metadata file and its contents. 62 200 states |
| `fs_concurrente` | `SinRechazos` | two dumps at once, five blocks: room for both in some sizes and not in others. 117 910 states |
| `despacho` | types, `Sincronizados`, `DeAcuerdo`, `SinAbrazo`, `TurnoNoVacio`, that the three programs implement `Turnos`, and `ElegidoEjecuta` under `Spec` | every instruction; threads 0 and 1 of a process and thread 0 of another, so there are equal TIDs in two processes, siblings to cancel and join, and someone to elect; two instructions and an exit per thread; one quantum thread between its check and its send (`MaxVerificados`) and one interrupt on its way (`MaxEnVuelo` words, 3 per interrupt), which stays as long as it likes and so crosses turns. 526 336 states |
| `kernel_io` | types, `NadieOlvidado`, `KernelYCpuDeAcuerdo`, `UnaIO`, and `IOAtendida` under `Spec` | the same three threads, three requests (`MaxPedidos`), of which the first two may be dumps (`MaxVolcados`) and all may be IO: one served, one queued behind it and the dispatch thread with a third. 1 021 626 states, some two minutes |
| `v_joiners`, `v_bloqueo`, `v_doble_eleccion` | the disagreements of section 4 | the smallest instance that has them, or that of `kernel_io` |

**Fairness.** Nothing is assumed of the quantum. The timer of CMN is sent once per election and the cpu may
drop its interrupt (section 4), so a thread that never calls the kernel may keep the cpu, and the code does not promise
that a ready thread is elected. `SinPostergar` therefore has the turns as its hypothesis: if the cpu changes hands
for ever, nobody stays ready for ever. `Despacho` does not assume that an interrupt arrives either. `SpecJusta` assumes WF of each thread of the filesystem:
they are POSIX threads that block only in `recv`, which is not enabled when there is nothing to
receive. `Despacho!Spec` assumes WF of the dispatch thread and of the main loop of the cpu, for the same
reason; timers, interrupts and the end of an IO owe nothing, so `ElegidoEjecuta` says that they
cannot get in the way. `KernelIO!Spec` assumes WF of the kernel threads as a whole: with a bounded number of
requests that is enough for each of them to reach its end. No other run uses fairness.

**What the runs restrict.** `kernel_*` runs take an uninitialised `hilo_propietario` to be NULL
(`Basura = {Nadie}`); with `Disciplina` it makes no difference. `kernel_cmn` has disciplined scripts,
`kernel_mutex` has not. `proteccion` takes sizes and addresses multiples of the word and `filesystem` sizes
multiples of the block with at most two pointers: section 4 says what happens without these restrictions. The
scripts of `despacho` and `kernel_io` end no thread that is in IO, for the reason given there too.

## 4. Where the code and its words disagree

Each of these runs checks one property that a comment or the README of the repository states, and TLC finds it
violated by what the code does. The quotations are in PROJECT.json.

| Run | What happens |
|---|---|
| `v_joiners` | of two threads that joined a third, the second is never woken (kernel estructuras.c 419-434) |
| `v_bloqueo` | the end of an IO compares TIDs only, so it wakes a thread of another process that waits for its dump (kernel planificacion.c 158-166) |
| `v_doble_eleccion` | the dispatch thread and the thread that ends an IO are inside `elegir_hilo` at once (kernel planificacion.c 149) |

The modules contain other sequences that a reader of the code may not expect. They are the reason why some run
is restricted, or why some property is stated as it is.

- Under FIFO and PRIORIDADES the thread that receives a mutex is queued in `colas_multi_level`, where the election never looks
  (mutex.c 84). `TrabajoConservado` fails there, so `kernel_prioridades` makes no mutex.
- PROCESS_EXIT of a process with a joined thread dereferences NULL under CMN, and queues a NULL under the
  others (estructuras.c 419-434): action `Cae`.
- MUTEX_UNLOCK by a thread that is not the owner returns before the answer the cpu waits for (mutex.c 71): `cpu = "espera_rta"`.
- THREAD_CANCEL of a thread that waits for a mutex leaves `valor` one too low, and later threads wait for a
  free mutex (estructuras.c 340-349). `EsperaSoloSiTomado` fails there, so `kernel_mutex` cancels nobody.
- A thread ended by the LOCK of an unknown mutex stays in `lista_hilos` and may be joined for ever (mutex.c 20-27):
  `EsperadosVivos` needs `Disciplina`.
- A process whose first script is missing takes one more partition at each retry (kernel estructuras.c 85-118):
  the exception in `MemoriaDevuelta`.
- More pointers than fit in the index block run into the first data block (filesystem main.c 284): the sizes of
  `filesystem` stop at two blocks.
- Two connections in a row: both threads may read the second socket, and the first dump is never answered; or the
  thread of the first takes the handshake of the second, and the loop accepts no more
  (filesystem main.c 43-53): `TodoRespondido` needs dumps one at a time.
- A crash between the creation of a metadata file and its contents leaves an empty file (filesystem main.c 246-255). It is
  in `vacios` and not in `archivos`, and `ArchivosLegibles` says nothing of it.
- A dump whose size is not a multiple of the block: `ceil` of an integer division counts one block
  too few and the tail falls on the next block (filesystem main.c 75). `ArchivosLegibles` needs whole blocks.
- Two dumps at once may take the same block, as the bit is tested and set in two steps (filesystem main.c 213-227):
  `SinDobleAsignacion` needs dumps one at a time.
- A word that starts inside the partition and ends after it is written (cpu execute.c 276): `EscrituraPropia` needs
  aligned addresses.
- An interrupt is matched by TID only, against a TID that the cpu updates when the thread arrives, and the flag is reset
  at the top of the loop (cpu main.c 13-24, 190-203). So an interrupt may be lost, when it comes before the thread it is
  for (and the quantum is not counted again before the next election: that thread keeps the cpu until it makes a request), or preempt the next thread with the same TID. What holds is `TurnoNoVacio`: nobody is preempted before executing.
- `recuperar_contexto_urgente` (cpu execute.c 285-293) keeps that flag across a syscall that continues. It is why the
  quantum ends although the script does nothing but syscalls.
- The quantum thread tests `hilo_EXEC` and dereferences it again to send (planificacion.c 227-233): if the thread blocks in
  between it is NULL and the kernel ends (`kernel = "caido"`, with nobody elected; `DeAcuerdo` holds even then).
- Two elections at once: both see one ready thread, the second pop is NULL and its use ends the kernel
  (`enviar_a_ejecucion`); or two threads are sent and the first request is attributed to the second (`KernelYCpuDeAcuerdo`
  needs `~solapado`).
- A request that is being prepared while another thread of the kernel elects may block that other thread, or NULL
  (planificacion.c 103-105, main.c 297-300): `Bloquear`, `AnotarArgs`. A NULL in BLOCK ends the kernel at the next
  search that reaches it. For the same reason finalizar_hilo may find, after its round trip to memoria, another thread in `hilo_EXEC`
  (estructuras.c 249), and send it a second time: `Reenviar`.
- A dump whose thread was taken out of BLOCK by `v_bloqueo` pushes a NULL to READY when it is answered (`Sacar`).
- A dump that was queued is sent for `hilo_EXEC`, not for the thread that asked for it (main.c 323), and with NULL
  there the kernel ends: `TomarDump`.
- THREAD_CANCEL or PROCESS_EXIT of a thread in IO frees its TCB, and the IO thread queues it in READY when it wakes up
  (planificacion.c 138).
- A failed dump ends its process from the dump thread (main.c 374). If another thread of that process runs,
  `hilo_EXEC` is left pointing to a freed TCB.

## 5. The proofs

The theorems hold for every value of the constants that satisfies the assumption of the module
(`ConstantesDelKernel`, `ConstantesDeIO`, `ConstantesDeMemoria` with `FijasEntran`, `ConstantesDeProteccion`, `ConstantesDelDespacho`,
`ConstantesDelFileSystem`): any number of processes, threads,
priorities, mutexes and bytes, the three planning algorithms and any use of the requests; for `KernelIO`, any finite set of
threads, any number of requests and every interleaving of their accesses; for `Despacho`, any set of
threads where each process has its thread 0, any length of the scripts and any number of interrupts on the way; for `FileSystem`, any number of dumps, blocks and crashes.

**`KernelProofs!TipoCorrecto`: Spec => []TypeOK.** TypeOK is nearly inductive. It is not a
matter of types alone: it says that the cpu idles exactly when `hilo_EXEC` is NULL, and that no NULL is
ever queued in a level of `colas_multi_level`. The missing conjunct is `MismoLargo` (the two NEW
queues have the same length): without it the prefix that memory admits might end beyond
one of them. The lemmas under it: `Filtrar` keeps the type of a sequence,
the choice of the level and of the position in READY finds an element (a minimum
exists in a finite non-empty set of naturals), and the first element of a queue with a given PID exists
when the new TCB was appended to it. Then one step per request.

**`KernelProofs!NEWAlineadas`: Spec => []ColasNEWAlineadas.** The two queues of NEW hold the i-th process and
its own thread 0. THREAD_CREATE appends the new TCB to the queue and takes the first TCB of its process it finds
there: if a process that memory has not admitted could run, that would be the thread 0 which still waits, and the queues
would shift. So the inductive invariant (`InvNEW`) adds that every thread that runs, waits for a mutex or is in a queue
the algorithm elects from belongs to an admitted process (`SoloDe(HilosDe(Admitidos))`), and that no
process is twice in NEW. BLOCK needs no clause: a request only wakes threads of the process that runs. `SoloDe` is
monotonic, and the lemmas say that each helper keeps it; one step per request.

**`KernelProofs!SinHuerfanosSiempre`: Spec => []SinHuerfanos.** No thread that runs, is ready or is blocked
belongs to a process that ended. `finalizar_proceso` (estructuras.c 439-526) walks the TIDs handed out, those
below `prox_tid`, and takes each from wherever it is, so the invariant (`InvVivos`, together with `InvNEW`) says that each place
holds only threads that walk reaches: `SoloDe(Listables)`, where a thread of `Listables` has its process in
`cola_procesos_READY` and a TID below `prox_tid`; the same of BLOCK; and of the waiters of a mutex, that they belong
to the process that owns the mutex, since its mutexes are dropped with it. Two more conjuncts say that a process in
`cola_procesos_READY` was created and that a created process has its thread 0, so that admission keeps the rest.
The queues the algorithm does not elect from are left out, and must be: under FIFO and PRIORIDADES the levels keep TCBs
that ended (section 4). The lemmas: every thread of the process in one of those places is found by the search
(`ListosEncontrables`), so none is left (`FinalizarProcesoVivos`).

**`KernelLugaresProofs`: `UnSoloLugar` and `EsperaUnica`**, with no hypothesis beyond the assumption of the module: the
three algorithms, NULLs in READY, scripts that lock and unlock what they like. `UnSoloLugar` looks at one thread in the places it
may be; what a handler needs to know is that the places have nobody in common. So the invariant (`InvLugares`, on top of
`InvVivos`) says that nine sets are pairwise disjoint (`Ajenos`): the threads not created yet, those of NEW, READY and the
levels, the one that runs, the ones a join blocked, those that wait for a mutex, those of EXIT and those freed. The first set is
what makes it inductive: a TID handed out is new to every queue, because it was not below `prox_tid`. The second half is that no
queue repeats a thread (`UnaVez`), or else taking it out once would leave it there; NULLs may repeat. The third is that each joiner is
noted once and is in no queue, so that the end that wakes it moves it and no other end does; `EsperaUnica` is that part. Each handler's lemma
says which sets it takes from and which it gives to. It also says where a thread may come from in one step
(`Mueve`: a thread runs or is ready only if it was in course, in NEW or not created yet, so none comes back from EXIT) and that a thread in course stays
in some place (`Conserva`); the next module uses both.

**`KernelCicloProofs`: `ContabilidadMutex`, `EsperaSoloSiTomado`, `SinColarse`.** One lemma (`CambiaMutex`) says all that a step may do to
one mutex: nothing, drop it with its process, create it, give it, queue a waiter, hand it over, or take a waiter that is cancelled out of
its queue. What the counter says is inductive over that list (`Cuadra`, `Cupo`), once `InvLugares` says who the waiters are. The hypotheses are
those of section 4: `hilo_propietario` is never initialised, so a mutex may be born with an owner, and a cancelled waiter leaves
`valor` one too low. `SinColarse` needs less, disciplined scripts or mutexes that start without an owner, and holds with cancellations: only a LOCK
that finds a unit or an UNLOCK changes the owner, and a LOCK finds none while somebody waits.

**`KernelCicloProofs`: `TrabajoConservado`, `EsperadosVivos` and `Spec => ImplementaCiclo`.** `Ocupada` says that while nobody runs
the queue the algorithm elects from is empty, and `ColaAjenaVacia` that the other one always is. A request that wakes somebody does it
while a thread runs, and a request that takes the thread off the CPU ends in `elegir_hilo`, which leaves the CPU idle only over an empty queue
(`ElegirOcioso`, `PasoElige`). Under FIFO and PRIORIDADES it needs that no thread unlocks a mutex, because the new owner is
queued in a level that those algorithms never look at (section 4). `EsperadosVivos` adds `Disciplina` and follows from
`Conserva`: a thread in `lista_hilos` is in a place where its end finds it, and no step loses it.

In the implementation of `CicloDeVida`, under CMN, the state of a thread is the one of the nine sets it is in (`EstadoDeLugares`); since
they are disjoint, what `EstadoDe` reads place after place is the same. `Mueve` then says that each change is a legal one
(`MueveEsPaso`), one `hilo_EXEC` says that one thread runs, and `Ocupada` that the CPU is not idle over a ready one.

**`KernelCicloProofs`: `SinAdelantarse` and `EleccionPorPrioridad`.** Who joins a ready queue was in another of the nine sets before,
by `InvLugares`, so it was not in that queue and goes behind everybody (`RespetanAgregar`). What leaves a queue leaves the
rest in order (`RespetaSubcola`), however many are cancelled or woken. So every request leaves either queues in order or queues in order that
`elegir_hilo` then looks at (`Ordenado`, `PasoOrdenado`; one lemma per request, `CreacionOrdenada`, `FinOrdenado`, ...). `SinAdelantarse` has no hypothesis.
`EleccionPorPrioridad` has the one that the algorithm is PRIORIDADES, as the others elect by another rule: it adds that the position the search
stops at is that of the first of the best threads (`PosicionMejor`), and that no thread is twice in the queue, so the one left behind
with the same priority was not ahead.

**`KernelIOProofs`: TypeOK, `NadieOlvidado`, `KernelYCpuDeAcuerdo`, `UnaIO`.** A test and the act that follows it are two steps, and other
threads go in between, so none of these is inductive. `InvTipos` adds to TypeOK where each kernel thread may be: the one of a request
starts when the request is taken from its queue, a queue holds only requests whose thread has not started, each once, and of one
class. `NadieOlvidado` speaks of a kernel at rest; the invariant (`Avisos`) says the same of every state, with one more way out for each
queue: some kernel thread has still to look. If the cpu is stopped with a thread in `hilo_EXEC`, some thread is on its way to
send to it or to elect; if it is stopped with nobody in `hilo_EXEC` and somebody is ready, some kernel thread will still look at one of
the two (one that sees `hilo_EXEC` taken may finish, because then there is another, and so may the dispatch thread that sees it NULL
after the end of a thread, which is not counted); if a queue of IO or of dumps is not empty, or its turn is taken, some thread is being
served or is about to look at that queue. It holds with two elections inside each other, which is why no wake-up is lost in them.

The other two theorems are about the states before two kernel threads overlap. `Anota` counts the threads among their
accesses, so until then there is one at most (`UnoSolo`, over the cardinality of a set with two elements). What that thread has tested is therefore still true
when it acts, and each invariant follows it: `CpuDeAcuerdo` says that the thread that received a request, or cleared
`hilo_EXEC`, finds the cpu stopped until it sends, and that when nobody is electing the cpu has the thread of `hilo_EXEC` or one request
of its is on the way; `TurnoDeIO`, that who serves an IO, from the sleep until it gives the turn back, is `hilo_IO`, and that who is
about to take the turn has it free.

**`MemoriaProofs!Tiling`: Spec => []Teselan** and **`MemoriaProofs!NuncaCae`: Spec => []MemoriaActiva.** The
invariant `Inv` strengthens the tiling (`Bien`) in three ways. A free partition has no PID (`SinPIDLibre`), so that a
merge never absorbs the partition of a process. The last partition is always free, perhaps empty: a split leaves its
remainder after the new partition even when it has no bytes, which is what keeps
`list_get(lista_particiones, i + 1)` inside the list. And every process that memory may be asked to free (`ConMemoria`)
has a partition, so the index exists. The lemmas are one per operation on the list: `ElegidaEntra` (the search
finds a free partition, with a least key for BEST, WORST and FIRST), `PartirBien`, `LiberarBien`, `UnirBien`,
`ConsolidarBien`.

**`MemoriaProofs`: TypeOK, `UnaParticion`, `RechazoJusto`, `MemoriaDevuelta`, and `Spec => ImplementaReserva`**, for both
schemes. The requests move, split and merge partitions by position, which makes an invariant over positions hard to
follow. The invariant (`IInv`, on top of `Inv`) looks instead at the partitions in use as a set (`EnUso`): an admission adds
one element, an end removes one, and a merge changes nothing, because free partitions are not in it. `Ordenada` says that the list of
either scheme is in order and inside the memory, that a partition has a PID exactly when it is in use, and that one in use has
some bytes and the right limit (the remainders keep a wrong one, section 2.2). `SinVecinas` says that no two neighbours
are free. `Repartida` says that a process that runs, or that memory has admitted, has one partition in the set and one
entry in the list of processes that describes it, and that any other has none. Processes whose script is missing are left out of it, since
they do take one partition per retry. The lemmas are one per operation: on the partitions (`PartirReparte`, `ActualizarReparte`,
`LiberarReparte`, `UnirReparte`, `ConsolidarReparte`; between the two merges of an end the free pairs are counted by
`SinVecinasSalvo`) and on the processes (`FichaNueva`, `FichaConHilos`, `FichaFuera`). TLC checked `IInv` on the instance of `memoria` before it was
proved. `RechazoJusto` then follows: a run of free bytes begins in a free partition, which is too short, and the next one is in
use. In the implementation of `Reserva`, an admission is `Reservar`, an end is `Devolver`, and the requests
about threads are stutters. The fixed partitions of the configuration need one more assumption, `FijasEntran`: together they fit in the
memory. The code does not compare them (estructuras.c only adds the sizes), so a configuration that breaks it would give bytes past the
array; those under `src/memoria/cfg` all satisfy it. As their bases are a recursive function (`BaseFija`), `BasesFijas` first shows that a function satisfies the
definition.

**`MemoriaProofs!EscrituraSiemprePropia`: SpecProteccion => EscrituraPropia**, when addresses and sizes are of whole words and no address is
negative as an `int` (`PalabrasEnteras`; the run `proteccion` has such an instance, and section 4 says what an unaligned address does; the MMU has no
lower bound either). Every step of `Proteccion` is a step of `Memoria` or leaves the partitions alone, a segmentation fault being an end, so
`IInv` holds with no further proof. It needs one more conjunct, that what a process has is of whole words (`Enteras`): with dynamic partitions
because an admission takes just the size of the process, with fixed ones because their sizes never change. Then the base and the limit the
CPU works with are those of the partition (`UnaParticionVale`), the MMU accepts a first byte inside it, and a word that
starts inside whole words ends inside them (`UltimaPalabra`).

**`DespachoProofs!TomaPaquete`.** What `recibir_paquete` makes of the packets of the protocol, of two and of three
fields: the same fields, and nothing left of them. `Campos` is a recursive function over the words that remain, and a
recursive definition says something only if a function satisfies it. So `HayVuelta` builds one, for the
few words of these packets, and `CamposVuelta` says that the packets of these lengths are read as it says.

**`DespachoProofs`: TypeOK, `Sincronizados`, `DeAcuerdo`, `SinAbrazo`, `TurnoNoVacio`, and `Spec => ImplementaTurnos`.**
None of these is inductive: each says something of what is on one connection in one state, and what the next message
will do depends on who wrote the last one and on what the other side remembers. The invariant (`IInv`) says instead that the
system is in one of seven phases (`Fase`): the cpu executes (`Corriendo`), a request is on the way (`Pedida`), the kernel has said
whether the thread blocks (`Contestada`), the cpu has acknowledged it (`Acusada`), the turn is on its way to the cpu
(`TurnoEnCamino`), nobody has it (`SinNadie`), or both wait after the UNLOCK of another's mutex (`Ajena`). A phase fixes the control
of both sides, all that is on the two connections and whose turn it is; so there is never more than one
message between them. The rest of `IInv` is what a phase needs from elsewhere. `Lugares`: each
thread that is ready, in IO or waiting for a mutex or a join is alive and in that place only, once, so an election or a cancellation is
never about the thread that runs. `EnNEW`: a PID that waits for admission has had no thread, so the thread that an
admission adds is new. `Avisados`: the interrupt connection holds whole messages, whatever the cpu has read.
TLC checked `IInv` on the instance of `despacho` before it was proved. The proof has one lemma per action, over lemmas on what arrives
in each phase (`LlegaPedido`, `LlegaTurno`, ...) and on how phases follow each other (`FaseSigue`,
`FaseDeja`, `FaseResponde`). From it each property is a short consequence.

In the implementation of `Turnos`, an instruction (`Pedido`, `ExecuteLocal`) is `Ejecutar`; a request handled
by the kernel, with the end, the births and the answers it brings, is `Pedir`; `elegir_hilo` is `Elegir`; messages, timers,
interrupts and contexts saved and restored are stutters. The last is the point of the theorem: when the cpu saves
the registers and when it takes them back, `avance` does not change.

**`FileSystemProofs`: TypeOK, `SinDobleAsignacion`, `SinFugas`, `ArchivosLegibles`.** The invariants are in three layers.
`InvTipos`, for any number of dumps at once, adds to TypeOK that a thread takes increasing blocks, so no more than
there are, and that it knows its connection once it has received the request. The other three have the hypothesis of
the run `filesystem`, dumps one at a time (`Simultaneos = 1`): section 4 says what happens otherwise. `InvBloques` says that
the thread that marks a bit has read the byte as it still is, and that a thread that answers without a file has no blocks: a
refusal comes before the first one is taken. From it, no block is given twice, also after a crash, and none is lost without
one. `InvArchivos` says what is on the blocks. The dump in progress finds in front of it at least as many free
blocks as it still needs (`PorVer`): it counts them, bit by bit, before it takes the first. If it were one short, its last write would go
past the end of its last block. Then every write is inside one block of the thread (`EscribirEnBloque`, `IndiceEscrito`,
`BloqueEscrito`), which is neither one it wrote before, as it takes each once, nor one of another file (`SinDobleAsignacion`),
so what a file holds stays (`EscritoQueda`). A thread that writes has at least the index block, so the head of its list is
never NULL. `ArchivosLegibles` needs two more hypotheses on the sizes (`BloquesEnteros`): whole blocks, and pointers that fit in the
index block. Each is a line of section 4, where the code breaks the property without it. TLC checked `InvArchivos` on the instance of `filesystem` before it
was proved. The arithmetic is in lemmas of its own: a byte is in one block at one offset (`UnByte`), and a byte of a
pointer in one position of the index (`Puntero`).

**`FileSystemProofs!NadieRechazado`: Spec => SinRechazos**, for any number of dumps at once, of crashes, and of bits that two threads undo
of each other. Then a block may be given twice and the bitmap says little, so the invariant (`InvLugar`, on top of `InvTipos`)
does not say whose the marked blocks are. It says only that each one is in the list of some thread (`DeAlguno`), and so are those that a thread
counted, read or passed over before,
that a request is served by one thread (`UnoPorPedido`: the one that found it in nobody's hands), and that no thread takes more blocks than its dump
needs. So the blocks seen marked, whenever each was seen, are at most the sum of what the other dumps need (`HayLugar`). A thread with no blocks has that sum minus
its own in front of it, so it is not refused, and it finds a first block. The sum is a fold of the community modules over the set of
dumps. `SumaPorPasos` shows that a function satisfies its recursive definition, the number of pairs of a dump and one of
its blocks, by the smallest set for which it would not (`MenorConjunto`), and so needs no induction over an operator; `CabenEn`
bounds the union of the lists by it.

What stays with TLC: liveness: `SinPostergar`, and `TodoRespondido`, `ElegidoEjecuta` and `IOAtendida`, which need fairness
and ENABLED. Every invariant, action property and refinement of the
passing runs is proved, under the hypotheses given with each.

## 6. What is not modelled, and what is assumed

- **IO and dumps beside everything else.** `KernelIO` has FIFO, no mutexes, no joins and no cancellation; `Despacho` has
  the other requests with IO, but its elections do not overlap. The end of a thread in IO is in neither: it uses freed
  memory (section 4). A dump fails in `KernelIO` only for a process of one thread, there are no processes in NEW to
  admit when it ends, and memoria accepts every end of a thread or of a process. A TCB that is freed while a queue
  still has it is read there as it was; as `hilo_EXEC` it may also bring the kernel down (`Retirar`). The reads of `hilo_EXEC`
  that fill one argument are one step.
- **The inside of a queue operation.** Two threads inside one `queue_push` or `list_remove` are a data race on the
  pointers and the length of the list. `KernelIO` takes each operation as one step, a pop of an empty queue being NULL.
- **What `Despacho` leaves open**: the decisions of the kernel (those of `Kernel`), the arithmetic of the registers
  (a count), two elections in the same millisecond, which share a timestamp (planificacion.c 214-235), the names and paths inside a message (a word). No thread cancels itself. The first process is the one
  memoria admits at the start.
- **The races of memoria.** It creates a thread per request and locks nothing, but the kernel sends one at a time. What
  remains is a failed dump, whose `FINALIZAR_PROCESO` may come beside another request: `Memoria` orders
  them, it does not interleave their accesses.
- **Addresses of freed TCBs.** `malloc` may give a new TCB the address of one that was freed.
  `Kernel` names TCBs by PID and TID, so a dangling pointer in `lista_hilos` is either inert or ends the
  kernel (third disjunct of `bloquear_hilo_por_thread_join`), never another thread.
- **Registers and instructions of a thread** in memoria, which change no decision of it.
- **Several partitions of one PID.** The loop of the code that releases every partition of a process is modelled for
  one: a process that runs has one (`UnaParticion`), and one that took several by retries never runs, as its
  script stays missing.
- **Sizes are greater than 0** in Memoria: a script of size 0 would take an empty partition.
- **Packets** arrive whole: `recibir_paquete` reads a length and then waits for that many bytes (`HayBuffer`). Their
  layout is in `Paquete`, in words of 4 bytes: a string of any length is one word.
- **Configuration, logs, consoles**: read once or write-only.

## 7. The plan

In order of importance.

1. `Kernel` with its abstract specification, `Memoria`, `Proteccion`, `FileSystem`: done, with the
   theorems of section 5 (`TypeOK` and `ColasNEWAlineadas` for every algorithm, FIFO included).
2. `Paquete`, `Despacho` with `Turnos`, and `KernelIO`: done, with the theorems of section 5.
3. Theorems for every invariant, action property and refinement of the passing runs: done.
4. A mutex without queues (free, or owned by one of those that asked) and `Kernel` shown to implement it under
   `Disciplina` without cancellations.
5. `Volcado`: MEMORY_DUMP from the script to the file and back, composing `KernelIO`, `Memoria` and `FileSystem`
   (kernel main.c 294-394, memoria 335-379, filesystem 60-100).
