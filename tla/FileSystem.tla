----------------------------- MODULE FileSystem -----------------------------
(***************************************************************************)
(* The file system module: one detached thread per dump, over one bitmap   *)
(* and one file of blocks, without a lock. One action is one access to     *)
(* what the threads share: the socket variable of the accepting loop, the  *)
(* bitmap, the file of blocks, the directory of metadata.                  *)
(*                                                                         *)
(* A dump is named by its connection. A byte of the disk holds the pair    *)
(* <<dump, k>>: byte k of its content or, when k < 0, a byte of pointer    *)
(* number -k of its index block.                                           *)
(***************************************************************************)
EXTENDS Integers, Sequences, FiniteSets, FiniteSetsExt, SequencesExt

CONSTANTS
  Volcados,      \* bound: dumps memory asks for
  Tamanios,      \* sizes of the processes dumped
  BLOCK_SIZE,
  BLOCK_COUNT,
  PUNTERO,       \* bytes of a block number in the index block
  Simultaneos,   \* bound: dumps in progress at the same time
  MaxCaidas,     \* bound: crashes of the process
  Nadie

ASSUME ConstantesDelFileSystem ==
  /\ IsFiniteSet(Volcados) /\ Nadie \notin Volcados
  /\ Tamanios \subseteq Nat \ {0}
  /\ BLOCK_SIZE \in Nat \ {0} /\ BLOCK_COUNT \in Nat \ {0} /\ PUNTERO \in Nat \ {0}
  /\ Simultaneos \in Nat \ {0} /\ MaxCaidas \in Nat

Bloques == 0 .. BLOCK_COUNT - 1
Bytes   == 0 .. BLOCK_COUNT * BLOCK_SIZE - 1
Pasos   == {"sin_conectar", "aceptado", "creado", "espera", "cuenta", "asigna", "marca",
            "graba", "indice", "datos", "metadata", "llena", "responde", "fin", "perdido"}

VARIABLES
  tam,              \* size of the process each connection dumps
  socket_cliente,   \* variable of the accepting loop, passed by address
  tomados,          \* connections whose first words, or request, a thread received
  bloques_libres,   \* bitmap, in a mapped file: the blocks marked as used
  disco,            \* bloques.dat
  vacios,           \* metadata files created and not written
  archivos,         \* metadata: the dumps with a file
  respuesta,        \* answer sent on each connection
  pc,               \* step of the thread created for each connection
  pedido,           \* connection the thread works for
  pos,              \* block the thread looks at, or data block it writes next
  visto,            \* marked blocks the thread counted, then the bitmap it read to set a bit
  asignados,        \* blocks of the thread, the index block first
  filesystem,       \* "caido" after dereferencing a NULL block
  caidas

hilo       == <<pc, pedido, pos, visto, asignados>>
permanente == <<bloques_libres, disco, vacios, archivos>>
vars       == <<tam, socket_cliente, tomados, permanente, respuesta, hilo, filesystem, caidas>>

\* What the threads do after the request leaves these alone.
conexiones == <<tam, socket_cliente, tomados, filesystem, caidas>>

-----------------------------------------------------------------------------
\* Threads in progress.
EnCurso == {h \in Volcados : pc[h] \notin {"sin_conectar", "fin", "perdido"}}

En(h, paso)    == pc[h] = paso /\ filesystem = "activo"
Pasa(h, paso)  == pc' = [pc EXCEPT ![h] = paso]

\* Mutant: one block more than the division gives.
EnterosMasUno(t) == t \div BLOCK_SIZE + 1

\* Data blocks of a dump: ceil of a division of integers.
Enteros(t) == t \div BLOCK_SIZE

\* Blocks the dump of h needs: its data and the index block.
Necesita(h) == Enteros(tam[pedido[h]]) + 1

\* Bytes of the data block number j of a thread with n blocks: the last one takes
\* whatever is left.
LargoEscritura(t, n, j) == IF j = n THEN t - (n - 2) * BLOCK_SIZE ELSE BLOCK_SIZE

\* The disk once f has been written from byte a on. What would fall after the end of
\* the file enlarges it and is not part of a block.
Escribir(a, f) ==
  [b \in Bytes |-> IF b - a \in DOMAIN f THEN f[b - a] ELSE disco[b]]

-----------------------------------------------------------------------------
Init ==
  /\ tam \in [Volcados -> Tamanios]
  /\ socket_cliente = Nadie
  /\ tomados = {}
  /\ bloques_libres = {}
  /\ disco = [b \in Bytes |-> <<Nadie, 0>>]
  /\ vacios = {} /\ archivos = {}
  /\ respuesta = [h \in Volcados |-> "ninguna"]
  /\ pc = [h \in Volcados |-> "sin_conectar"]
  /\ pedido = [h \in Volcados |-> Nadie]
  /\ pos = [h \in Volcados |-> 0]
  /\ visto = [h \in Volcados |-> {}]
  /\ asignados = [h \in Volcados |-> <<>>]
  /\ filesystem = "activo"
  /\ caidas = 0

\* iniciar_conexion: accept.
Aceptar(h) ==
  /\ En(h, "sin_conectar") /\ Cardinality(EnCurso) < Simultaneos
  /\ \A g \in Volcados : pc[g] # "aceptado"
  /\ socket_cliente' = h
  /\ Pasa(h, "aceptado")
  /\ UNCHANGED <<tam, tomados, permanente, respuesta, pedido, pos, visto, asignados,
                 filesystem, caidas>>

\* The handshake, and a thread that gets the address of socket_cliente. A loop that
\* misses the words another thread took goes no further.
Saludar(h) ==
  /\ En(h, "aceptado") /\ h \notin tomados
  /\ Pasa(h, "creado")
  /\ UNCHANGED <<conexiones, permanente, respuesta, pedido, pos, visto, asignados>>

\* The thread reads the variable and receives what comes on that connection: the
\* handshake, and then it ends; the request; or nothing, when another has received it.
Recibir(h) ==
  /\ En(h, "creado")
  /\ pedido' = [pedido EXCEPT ![h] = socket_cliente]
  /\ tomados' = tomados \cup {socket_cliente}
  /\ \/ pc[socket_cliente] = "aceptado" /\ Pasa(h, "fin")
     \/ pc[socket_cliente] # "aceptado" /\ socket_cliente \notin tomados /\ Pasa(h, "cuenta")
     \/ socket_cliente \in tomados /\ Pasa(h, "espera")
  /\ UNCHANGED <<tam, socket_cliente, permanente, respuesta, pos, visto, asignados,
                 filesystem, caidas>>

\* cant_bloques_libres, one bit.
ContarBit(h) ==
  /\ En(h, "cuenta") /\ pos[h] < BLOCK_COUNT
  /\ visto' = [visto EXCEPT ![h] = @ \cup ({pos[h]} \cap bloques_libres)]
  /\ pos' = [pos EXCEPT ![h] = @ + 1]
  /\ UNCHANGED <<conexiones, permanente, respuesta, pedido, asignados, pc>>

\* Mutant: the refusal returns without an answer.
ContarSinRespuesta(h) ==
  /\ En(h, "cuenta") /\ pos[h] = BLOCK_COUNT
  /\ IF Cardinality(Bloques \ visto[h]) < Necesita(h)
     THEN Pasa(h, "fin") ELSE Pasa(h, "asigna")
  /\ pos' = [pos EXCEPT ![h] = 0]
  /\ UNCHANGED <<conexiones, permanente, respuesta, pedido, visto, asignados>>

\* The comparison of what it counted.
Contar(h) ==
  /\ En(h, "cuenta") /\ pos[h] = BLOCK_COUNT
  /\ IF Cardinality(Bloques \ visto[h]) < Necesita(h)
     THEN Pasa(h, "responde") ELSE Pasa(h, "asigna")
  /\ pos' = [pos EXCEPT ![h] = 0]
  /\ UNCHANGED <<conexiones, permanente, respuesta, pedido, visto, asignados>>

\* asignar_bloques, bitarray_test_bit: the next block, if there is one and more are needed.
Mirar(h) ==
  /\ En(h, "asigna")
  /\ \/ /\ pos[h] = BLOCK_COUNT \/ Len(asignados[h]) = Necesita(h)
        /\ Pasa(h, "indice") /\ UNCHANGED pos
     \/ /\ pos[h] < BLOCK_COUNT /\ Len(asignados[h]) < Necesita(h)
        /\ \/ pos[h] \in bloques_libres /\ pos' = [pos EXCEPT ![h] = @ + 1] /\ UNCHANGED pc
           \/ pos[h] \notin bloques_libres /\ Pasa(h, "marca") /\ UNCHANGED pos
  /\ UNCHANGED <<conexiones, permanente, respuesta, pedido, visto, asignados>>

\* asignar_bloques, bitarray_set_bit: it reads the byte of the bit ...
LeerByte(h) ==
  /\ En(h, "marca")
  /\ visto' = [visto EXCEPT ![h] = bloques_libres]
  /\ Pasa(h, "graba")
  /\ UNCHANGED <<conexiones, permanente, respuesta, pedido, pos, asignados>>

\* The bitmap with the byte of block b as it was read.
ConByte(leido, b) ==
  {c \in Bloques : c \in (IF c \div 8 = b \div 8 THEN leido ELSE bloques_libres)}

\* Mutants: the block is taken and its bit is not set; the whole byte is set.
MarcarSinBit(bits, b) == bits
MarcarByte(bits, b) == bits \cup (8 * (b \div 8) .. 8 * (b \div 8) + 7)

MarcarBit(bits, b) == bits \cup {b}

\* ... and writes it back, so it may undo what another thread wrote in between.
Marcar(h) ==
  /\ En(h, "graba")
  /\ bloques_libres' = MarcarBit(ConByte(visto[h], pos[h]), pos[h])
  /\ asignados' = [asignados EXCEPT ![h] = Append(@, pos[h])]
  /\ pos' = [pos EXCEPT ![h] = @ + 1]
  /\ Pasa(h, "asigna")
  /\ UNCHANGED <<conexiones, disco, vacios, archivos, respuesta, pedido, visto>>

\* escribir_bloques, index block. Without blocks the head of the list is NULL.
EscribirIndice(h) ==
  LET s == asignados[h]
      f == [k \in 0 .. PUNTERO * (Len(s) - 1) - 1 |-> <<pedido[h], -1 - (k \div PUNTERO)>>]
  IN  /\ En(h, "indice")
      /\ \/ /\ s = <<>>
            /\ filesystem' = "caido" /\ UNCHANGED <<disco, pos, pc>>
         \/ /\ s # <<>>
            /\ disco' = Escribir(s[1] * BLOCK_SIZE, f)
            /\ pos' = [pos EXCEPT ![h] = 2]
            /\ Pasa(h, "datos")
            /\ UNCHANGED filesystem
      /\ UNCHANGED <<tam, socket_cliente, tomados, caidas, bloques_libres, vacios, archivos,
                     respuesta, pedido, visto, asignados>>

\* Mutant: the content does not advance with the block.
ContenidoFijo(h, j) == 0

\* Offset in the content of data block j.
Contenido(h, j) == (j - 2) * BLOCK_SIZE

\* escribir_bloques, one data block.
EscribirBloque(h) ==
  LET s == asignados[h]
      j == pos[h]
      f == [k \in 0 .. LargoEscritura(tam[pedido[h]], Len(s), j) - 1 |->
              <<pedido[h], Contenido(h, j) + k>>]
  IN  /\ En(h, "datos")
      /\ \/ /\ j > Len(s) /\ Pasa(h, "metadata") /\ UNCHANGED <<disco, pos>>
         \/ /\ j <= Len(s)
            /\ disco' = Escribir(s[j] * BLOCK_SIZE, f)
            /\ pos' = [pos EXCEPT ![h] = j + 1]
            /\ UNCHANGED pc
      /\ UNCHANGED <<conexiones, bloques_libres, vacios, archivos, respuesta, pedido,
                     visto, asignados>>

\* Mutant: the file is not created, and nothing is given back.
crear_metadata_sin_archivo(h) ==
  /\ En(h, "metadata")
  /\ Pasa(h, "responde")
  /\ UNCHANGED <<conexiones, permanente, respuesta, pedido, pos, visto, asignados>>

\* crear_metadata: open creates the file ...
crear_metadata(h) ==
  /\ En(h, "metadata")
  /\ vacios' = vacios \cup {h}
  /\ Pasa(h, "llena")
  /\ UNCHANGED <<conexiones, bloques_libres, disco, archivos, respuesta, pedido, pos, visto,
                 asignados>>

\* ... and its size and index block are written.
EscribirMetadata(h) ==
  /\ En(h, "llena")
  /\ vacios' = vacios \ {h} /\ archivos' = archivos \cup {h}
  /\ Pasa(h, "responde")
  /\ UNCHANGED <<conexiones, bloques_libres, disco, respuesta, pedido, pos, visto, asignados>>

\* enviar_int: the dump is done when the thread made its file.
Responder(h) ==
  /\ En(h, "responde")
  /\ respuesta' = [respuesta EXCEPT ![pedido[h]] = IF h \in archivos THEN "1" ELSE "0"]
  /\ Pasa(h, "fin")
  /\ UNCHANGED <<conexiones, permanente, pedido, pos, visto, asignados>>

\* The process ends and is started again: the mapped bitmap and the files stay, the
\* threads do not (iniciar_archivo creates no file that exists).
Caer ==
  /\ caidas < MaxCaidas
  /\ caidas' = caidas + 1
  /\ filesystem' = "activo"
  /\ socket_cliente' = Nadie
  /\ pc' = [h \in Volcados |-> IF h \in EnCurso THEN "perdido" ELSE pc[h]]
  /\ UNCHANGED <<tam, tomados, permanente, respuesta, pedido, pos, visto, asignados>>

Avanzar(h) ==
  \/ Saludar(h) \/ Recibir(h) \/ ContarBit(h) \/ Contar(h) \/ Mirar(h) \/ LeerByte(h)
  \/ Marcar(h) \/ EscribirIndice(h) \/ EscribirBloque(h) \/ crear_metadata(h)
  \/ EscribirMetadata(h) \/ Responder(h)

Next == (\E h \in Volcados : Aceptar(h) \/ Avanzar(h)) \/ Caer

Spec == Init /\ [][Next]_vars

\* The operating system schedules every thread.
SpecJusta == Spec /\ \A h \in Volcados : WF_vars(Avanzar(h))

-----------------------------------------------------------------------------
(* Properties *)

\* The disk, the bitmap and the threads keep their types.
TypeOK ==
  /\ tam \in [Volcados -> Tamanios]
  /\ socket_cliente \in Volcados \cup {Nadie}
  /\ tomados \subseteq Volcados
  /\ bloques_libres \subseteq Bloques
  /\ disco \in [Bytes -> (Volcados \X Int) \cup {<<Nadie, 0>>}]
  /\ vacios \subseteq Volcados /\ archivos \subseteq Volcados
  /\ respuesta \in [Volcados -> {"ninguna", "0", "1"}]
  /\ pc \in [Volcados -> Pasos]
  /\ pedido \in [Volcados -> Volcados \cup {Nadie}]
  /\ pos \in [Volcados -> 0 .. BLOCK_COUNT + 1]
  /\ visto \in [Volcados -> SUBSET Bloques]
  /\ asignados \in [Volcados -> Seq(Bloques)]
  /\ filesystem \in {"activo", "caido"}
  /\ caidas \in 0 .. MaxCaidas

\* Byte k of the file of h, found through its index block.
ByteDe(h, k) ==
  LET n == (k \div BLOCK_SIZE) + 1   \* pointer to its block
      b == asignados[h][n + 1]
      i == asignados[h][1] * BLOCK_SIZE
  IN  /\ n < Len(asignados[h])
      /\ \A m \in PUNTERO * (n - 1) .. PUNTERO * n - 1 : disco[i + m] = <<pedido[h], -n>>
      /\ disco[b * BLOCK_SIZE + (k % BLOCK_SIZE)] = <<pedido[h], k>>

\* Every file that has metadata can be read whole through its index block, for ever:
\* no later dump, refusal or restart writes on its blocks ("Indexed Allocation").
ArchivosLegibles ==
  \A h \in archivos : \A k \in 0 .. tam[pedido[h]] - 1 : ByteDe(h, k)

\* The bitmap marks the blocks of the files and of the dumps in progress, so no
\* other dump takes them, and two dumps share none.
SinDobleAsignacion ==
  \A h \in EnCurso \cup archivos :
    /\ ToSet(asignados[h]) \subseteq bloques_libres
    /\ \A g \in (EnCurso \cup archivos) \ {h} : ToSet(asignados[h]) \cap ToSet(asignados[g]) = {}

\* A dump that is refused leaves no block behind: while the process does not crash,
\* the blocks marked are those of the files and of the dumps in progress.
SinFugas ==
  caidas = 0 =>
    bloques_libres = UNION {ToSet(asignados[h]) : h \in EnCurso \cup archivos}

\* Dumps in progress at once may share blocks, but when the disk has room for all of
\* them none is refused and none is left without blocks, whatever bits get lost.
LugarDeTodos ==
  FoldSet(LAMBDA h, n : n + (tam[h] \div BLOCK_SIZE) + 1, 0, Volcados) <= BLOCK_COUNT
SinRechazos ==
  LugarDeTodos => filesystem = "activo" /\ \A h \in Volcados : respuesta[h] # "0"

\* Every dump accepted is answered, so the thread of memory that waits goes on,
\* unless the process crashes while the dump is in progress.
TodoRespondido ==
  \A h \in Volcados :
    pc[h] = "aceptado" ~> (respuesta[h] # "ninguna" \/ pc[h] = "perdido")
=============================================================================
