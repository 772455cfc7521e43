-------------------------- MODULE FileSystemProofs --------------------------
(***************************************************************************)
(* For any number of dumps at once: the types of the file system, and that *)
(* none is refused while there is room for all. With one dump at a time:   *)
(* that blocks are given once, none is lost and every file can be read     *)
(* whole, whatever the number and the size of the blocks.                  *)
(*                                                                         *)
(* The invariants go in layers. InvTipos bounds the blocks a thread takes. *)
(* InvBloques adds whose the marked blocks are. InvArchivos adds what is   *)
(* written on them, and that a dump that found room finds it still when it *)
(* takes its blocks: a thread one block short would write past the end of  *)
(* its last one. InvLugar, on InvTipos alone, adds up what all the dumps   *)
(* need.                                                                   *)
(***************************************************************************)
EXTENDS FileSystem, LemasDeColas

\* The threads that have received a request, those that have not, and the threads that
\* may write.
Atendidos == {"espera", "cuenta", "asigna", "marca", "graba", "indice", "datos", "metadata", "llena",
              "responde", "fin"}
SinPedido  == {"sin_conectar", "aceptado", "creado"}
SinBloques == SinPedido \cup {"espera", "cuenta"}
Asignando  == {"asigna", "marca", "graba"}

\* The types, for any number of dumps at once: a thread looks at increasing blocks, so it
\* takes no more than there are.
Tipado(h) ==
  /\ pc[h] \in {"aceptado", "creado"} => socket_cliente \in Volcados
  /\ pc[h] \in Atendidos => pedido[h] \in Volcados
  /\ pc[h] \in SinBloques => asignados[h] = <<>> /\ pos[h] <= BLOCK_COUNT
  /\ pc[h] \in SinPedido => pos[h] = 0 /\ visto[h] = {}
  /\ Len(asignados[h]) <= BLOCK_COUNT
  /\ pc[h] \in Asignando => Len(asignados[h]) <= pos[h] /\ pos[h] <= BLOCK_COUNT
  /\ pc[h] \in {"marca", "graba"} => pos[h] \in Bloques
InvTipos == TypeOK /\ \A h \in Volcados : Tipado(h)

-----------------------------------------------------------------------------
\* With one dump at a time, the blocks of the files and of the dump in progress are
\* those marked, and the next one is not.
Duenos == EnCurso \cup archivos
Deja(h) == h \in archivos \/ asignados[h] = <<>>
InvBloques ==
  /\ InvTipos
  /\ \A g, h \in EnCurso : g = h
  /\ \A h \in archivos : pc[h] \in {"responde", "fin", "perdido"}
  /\ \A h \in Volcados : pc[h] \in {"responde", "fin"} => Deja(h)
  /\ \A h \in Volcados : pc[h] \in {"marca", "graba"} => pos[h] \notin bloques_libres
  /\ \A h \in Volcados : pc[h] = "graba" => visto[h] = bloques_libres
  /\ SinDobleAsignacion /\ SinFugas

-----------------------------------------------------------------------------
\* What h has written: the index, and data block number j.
IndiceBien(h) ==
  \A n \in 1 .. Len(asignados[h]) - 1 : \A m \in PUNTERO * (n - 1) .. PUNTERO * n - 1 :
    disco[asignados[h][1] * BLOCK_SIZE + m] = <<pedido[h], -n>>
BloqueBien(h, j) ==
  \A r \in 0 .. BLOCK_SIZE - 1 :
    disco[asignados[h][j] * BLOCK_SIZE + r] = <<pedido[h], (j - 2) * BLOCK_SIZE + r>>

\* The hypotheses on the sizes: whole blocks, whose pointers fit in one.
BloquesEnteros ==
  \A t \in Tamanios : t % BLOCK_SIZE = 0 /\ PUNTERO * Enteros(t) <= BLOCK_SIZE

\* The blocks the thread may still take.
PorVer(h) == {b \in Bloques \ bloques_libres : b >= pos[h]}

Escritura(h) ==
  /\ IsInjective(asignados[h])
  /\ pc[h] = "cuenta" => visto[h] = {b \in bloques_libres : b < pos[h]}
  /\ pc[h] \in Asignando =>
       /\ Len(asignados[h]) <= Necesita(h)
       /\ Cardinality(PorVer(h)) >= Necesita(h) - Len(asignados[h])
  /\ pc[h] \in {"marca", "graba"} => Len(asignados[h]) < Necesita(h)
  /\ pc[h] \in {"indice", "datos", "metadata", "llena"} \/ h \in archivos =>
       Len(asignados[h]) = Necesita(h) /\ pedido[h] \in Volcados
  /\ pc[h] = "datos" =>
       /\ pos[h] \in 2 .. Len(asignados[h]) + 1
       /\ IndiceBien(h) /\ \A j \in 2 .. pos[h] - 1 : BloqueBien(h, j)
  /\ pc[h] \in {"metadata", "llena"} \/ h \in archivos =>
       IndiceBien(h) /\ \A j \in 2 .. Len(asignados[h]) : BloqueBien(h, j)
InvArchivos ==
  InvBloques /\ \A h \in Volcados : Escritura(h)

-----------------------------------------------------------------------------
(* The types *)

\* A write keeps the type of the disk.
LEMMA EscribirTipo ==
  ASSUME TypeOK, NEW a, NEW f, \A k \in DOMAIN f : f[k] \in Volcados \X Int
  PROVE  Escribir(a, f) \in [Bytes -> (Volcados \X Int) \cup {<<Nadie, 0>>}]
BY DEF Escribir, TypeOK

\* What an action of the thread h leaves alone: the other threads.
LEMMA SoloSuHilo ==
  ASSUME NEW h \in Volcados, Aceptar(h) \/ Avanzar(h), TypeOK
  PROVE  /\ \A g \in Volcados : g # h =>
              /\ pc'[g] = pc[g] /\ pedido'[g] = pedido[g] /\ pos'[g] = pos[g]
              /\ visto'[g] = visto[g] /\ asignados'[g] = asignados[g]
         /\ socket_cliente' = socket_cliente \/ socket_cliente' = h
<1>1. CASE Aceptar(h)
  BY <1>1 DEF Aceptar, Pasa, TypeOK
<1>2. CASE Recibir(h)
  BY <1>2 DEF Recibir, Pasa, TypeOK
<1>3. CASE Saludar(h) \/ ContarBit(h) \/ Contar(h)
  BY <1>3 DEF Saludar, ContarBit, Contar, Pasa, TypeOK, conexiones
<1>4. CASE Mirar(h) \/ LeerByte(h)
  BY <1>4 DEF Mirar, LeerByte, Pasa, TypeOK, conexiones
<1>5. CASE Marcar(h)
  BY <1>5 DEF Marcar, Pasa, TypeOK, conexiones
<1>6. CASE EscribirIndice(h)
  BY <1>6 DEF EscribirIndice, Pasa, TypeOK
<1>7. CASE EscribirBloque(h)
  BY <1>7 DEF EscribirBloque, Pasa, TypeOK, conexiones
<1>8. CASE crear_metadata(h) \/ EscribirMetadata(h)
  BY <1>8 DEF crear_metadata, EscribirMetadata, Pasa, TypeOK, conexiones
<1>9. CASE Responder(h)
  BY <1>9 DEF Responder, Pasa, TypeOK, conexiones
<1> QED BY <1>1, <1>2, <1>3, <1>4, <1>5, <1>6, <1>7, <1>8, <1>9 DEF Avanzar

\* The file system starts with its types.
LEMMA TiposIniciales == Init => InvTipos
<1> SUFFICES ASSUME Init PROVE InvTipos
  OBVIOUS
<1>1. BLOCK_COUNT \in Nat /\ MaxCaidas \in Nat
  BY ConstantesDelFileSystem
<1>2. TypeOK
  BY <1>1 DEF Init, TypeOK, Pasos
<1>3. \A h \in Volcados : Tipado(h)
  BY <1>1 DEF Init, Tipado, Atendidos, SinBloques, SinPedido, Asignando
<1> QED BY <1>2, <1>3 DEF InvTipos

\* Each step of a thread keeps the types, and what bounds its blocks.
LEMMA TiposDelHilo ==
  ASSUME InvTipos, NEW h \in Volcados, Aceptar(h) \/ Avanzar(h)
  PROVE  TypeOK' /\ Tipado(h)'
<1>0. /\ BLOCK_COUNT \in Nat /\ BLOCK_COUNT >= 1
      /\ BLOCK_SIZE \in Nat \ {0} /\ PUNTERO \in Nat \ {0}
      /\ \A b \in Bloques : b \in Nat /\ b < BLOCK_COUNT /\ b + 1 <= BLOCK_COUNT
  BY ConstantesDelFileSystem DEF Bloques
<1>1. /\ TypeOK /\ Tipado(h)
      /\ pc[h] \in Pasos /\ pos[h] \in Nat /\ pos[h] <= BLOCK_COUNT + 1
      /\ asignados[h] \in Seq(Bloques) /\ Len(asignados[h]) \in Nat
      /\ Len(asignados[h]) <= BLOCK_COUNT
  BY <1>0 DEF InvTipos, TypeOK, Tipado
<1>2. CASE Aceptar(h)
  <2>1. TypeOK'
    BY <1>1, <1>2 DEF Aceptar, Pasa, TypeOK, Pasos, permanente
  <2>2. Tipado(h)'
    BY <1>1, <1>2 DEF Aceptar, En, Pasa, TypeOK, Tipado, Atendidos, SinBloques, SinPedido, Asignando
  <2> QED BY <2>1, <2>2
<1>3. CASE Recibir(h)
  <2>1. socket_cliente \in Volcados
    BY <1>1, <1>3 DEF Recibir, En, Tipado
  <2>2. TypeOK'
    BY <1>1, <1>3, <2>1 DEF Recibir, Pasa, TypeOK, Pasos, permanente
  <2>3. Tipado(h)'
    BY <1>1, <1>3, <2>1 DEF Recibir, En, Pasa, TypeOK, Tipado, Atendidos, SinBloques, SinPedido, Asignando
  <2> QED BY <2>2, <2>3
<1>4. CASE Contar(h)
  <2>1. TypeOK'
    <3>1. 0 \in 0 .. BLOCK_COUNT + 1
      BY <1>0
    <3> QED BY <1>1, <1>4, <3>1 DEF Contar, Pasa, TypeOK, Pasos, permanente, conexiones
  <2>2. Tipado(h)'
    BY <1>0, <1>1, <1>4 DEF Contar, En, Pasa, TypeOK, Tipado, Atendidos, SinBloques, SinPedido, Asignando
  <2> QED BY <2>1, <2>2
<1>11. CASE Saludar(h)
  <2>1. TypeOK'
    BY <1>1, <1>11 DEF Saludar, Pasa, TypeOK, Pasos, permanente, conexiones
  <2>2. Tipado(h)'
    BY <1>1, <1>11 DEF Saludar, En, Pasa, TypeOK, Tipado, Atendidos, SinBloques, SinPedido, Asignando, conexiones
  <2> QED BY <2>1, <2>2
<1>12. CASE ContarBit(h)
  <2>1. /\ pc[h] = "cuenta" /\ pos[h] \in Nat /\ pos[h] < BLOCK_COUNT /\ asignados[h] = <<>>
        /\ pedido[h] \in Volcados /\ visto[h] \subseteq Bloques /\ bloques_libres \subseteq Bloques
    BY <1>1, <1>12 DEF ContarBit, En, Tipado, Atendidos, SinBloques, TypeOK
  <2>2. /\ pos' = [pos EXCEPT ![h] = pos[h] + 1]
        /\ visto' = [visto EXCEPT ![h] = visto[h] \cup ({pos[h]} \cap bloques_libres)]
        /\ UNCHANGED <<conexiones, permanente, respuesta, pedido, asignados, pc>>
    BY <1>12 DEF ContarBit
  <2>3. pos[h] + 1 \in 0 .. BLOCK_COUNT + 1 /\ pos[h] + 1 <= BLOCK_COUNT
    BY <1>0, <2>1
  <2>4. visto[h] \cup ({pos[h]} \cap bloques_libres) \in SUBSET Bloques
    BY <2>1
  <2>5. TypeOK'
    BY <1>1, <2>2, <2>3, <2>4 DEF TypeOK, permanente, conexiones
  <2>6. pos'[h] = pos[h] + 1
    BY <1>1, <2>2 DEF TypeOK
  <2>7. Tipado(h)'
    BY <1>1, <2>1, <2>2, <2>3, <2>6 DEF Tipado, Atendidos, SinBloques, SinPedido, Asignando, conexiones
  <2> QED BY <2>5, <2>7
<1>5. CASE Mirar(h)
  <2>1. pc[h] = "asigna" /\ Len(asignados[h]) <= pos[h] /\ pos[h] <= BLOCK_COUNT /\ pedido[h] \in Volcados
    BY <1>1, <1>5 DEF Mirar, En, Tipado, Atendidos, Asignando
  <2>2. UNCHANGED <<conexiones, permanente, respuesta, pedido, visto, asignados>>
    BY <1>5 DEF Mirar
  <2>3. CASE Pasa(h, "indice") /\ UNCHANGED pos
    <3>1. TypeOK'
      BY <1>1, <2>2, <2>3 DEF Pasa, TypeOK, Pasos, permanente, conexiones
    <3>2. Tipado(h)'
      BY <1>1, <2>1, <2>2, <2>3 DEF Pasa, TypeOK, Tipado, Atendidos, SinBloques, SinPedido, Asignando
    <3> QED BY <3>1, <3>2
  <2>4. CASE pos[h] < BLOCK_COUNT /\ pos' = [pos EXCEPT ![h] = pos[h] + 1] /\ UNCHANGED pc
    <3>1. pos[h] + 1 \in 0 .. BLOCK_COUNT + 1 /\ pos[h] + 1 <= BLOCK_COUNT /\ Len(asignados[h]) <= pos[h] + 1
      <4>1. pos[h] \in Nat /\ Len(asignados[h]) \in Nat
        BY <1>1
      <4> QED BY <1>0, <2>1, <2>4, <4>1
    <3>2. TypeOK'
      BY <1>1, <2>2, <2>4, <3>1 DEF TypeOK, permanente, conexiones
    <3>3. pos'[h] = pos[h] + 1
      BY <1>1, <2>4 DEF TypeOK
    <3>4. Tipado(h)'
      BY <1>1, <2>1, <2>2, <2>4, <3>1, <3>3 DEF Tipado, Atendidos, SinBloques, SinPedido, Asignando
    <3> QED BY <3>2, <3>4
  <2>5. CASE pos[h] < BLOCK_COUNT /\ Pasa(h, "marca") /\ UNCHANGED pos
    <3>1. pos[h] \in Bloques
      BY <1>0, <1>1, <2>5 DEF Bloques
    <3>2. TypeOK'
      BY <1>1, <2>2, <2>5 DEF Pasa, TypeOK, Pasos, permanente, conexiones
    <3>3. pc'[h] = "marca"
      BY <1>1, <2>5 DEF Pasa, TypeOK
    <3>4. Tipado(h)'
      BY <1>1, <2>1, <2>2, <2>5, <3>1, <3>3 DEF Tipado, Atendidos, SinBloques, SinPedido, Asignando
    <3> QED BY <3>2, <3>4
  <2> QED BY <1>5, <2>3, <2>4, <2>5 DEF Mirar
<1>13. CASE LeerByte(h)
  <2>1. TypeOK'
    BY <1>1, <1>13 DEF LeerByte, Pasa, TypeOK, Pasos, permanente, conexiones
  <2>2. Tipado(h)'
    BY <1>1, <1>13 DEF LeerByte, En, Pasa, TypeOK, Tipado, Atendidos, SinBloques, SinPedido, Asignando
  <2> QED BY <2>1, <2>2
<1>6. CASE Marcar(h)
  <2>1. pc[h] = "graba" /\ Len(asignados[h]) <= pos[h] /\ pos[h] \in Bloques /\ pedido[h] \in Volcados
    BY <1>1, <1>6 DEF Marcar, En, Tipado, Atendidos, Asignando
  <2> DEFINE u == Append(asignados[h], pos[h])
  <2>2. u \in Seq(Bloques) /\ Len(u) = Len(asignados[h]) + 1
    BY <1>1, <2>1
  <2>3. /\ asignados' = [asignados EXCEPT ![h] = u] /\ pos' = [pos EXCEPT ![h] = pos[h] + 1]
        /\ Pasa(h, "asigna") /\ UNCHANGED <<conexiones, disco, vacios, archivos, respuesta, pedido, visto>>
    BY <1>6 DEF Marcar
  <2>4. bloques_libres' \subseteq Bloques
    BY <1>1, <1>6, <2>1 DEF Marcar, MarcarBit, ConByte, TypeOK
  <2> HIDE DEF u
  <2>5. /\ pos[h] + 1 \in 0 .. BLOCK_COUNT + 1 /\ pos[h] + 1 <= BLOCK_COUNT
        /\ Len(u) <= pos[h] + 1 /\ Len(u) <= BLOCK_COUNT
    <3>1. pos[h] \in Nat /\ pos[h] + 1 <= BLOCK_COUNT
      BY <1>0, <2>1
    <3>2. Len(u) = Len(asignados[h]) + 1 /\ Len(asignados[h]) \in Nat /\ Len(asignados[h]) <= pos[h]
      BY <1>1, <2>1, <2>2
    <3>3. BLOCK_COUNT \in Nat
      BY <1>0
    <3> QED BY ONLY <3>1, <3>2, <3>3
  <2>6. TypeOK'
    BY <1>1, <2>2, <2>3, <2>4, <2>5 DEF Pasa, TypeOK, Pasos, conexiones
  <2>7. pc'[h] = "asigna" /\ pos'[h] = pos[h] + 1 /\ asignados'[h] = u /\ pedido'[h] = pedido[h]
    BY <1>1, <2>3 DEF Pasa, TypeOK
  <2>8. Tipado(h)'
    BY <2>1, <2>5, <2>7 DEF Tipado, Atendidos, SinBloques, SinPedido, Asignando
  <2> QED BY <2>6, <2>8
<1>7. CASE EscribirIndice(h)
  <2>1. pc[h] = "indice" /\ pedido[h] \in Volcados
    BY <1>1, <1>7 DEF EscribirIndice, En, Tipado, Atendidos, Asignando
  <2>2. UNCHANGED <<tam, socket_cliente, tomados, caidas, bloques_libres, vacios, archivos,
                    respuesta, pedido, visto, asignados>>
    BY <1>7 DEF EscribirIndice
  <2>3. CASE filesystem' = "caido" /\ UNCHANGED <<disco, pos, pc>>
    <3>1. TypeOK'
      BY <1>1, <2>2, <2>3 DEF TypeOK
    <3>2. Tipado(h)'
      BY <1>1, <2>2, <2>3 DEF Tipado
    <3> QED BY <3>1, <3>2
  <2>4. CASE ~(filesystem' = "caido" /\ UNCHANGED <<disco, pos, pc>>)
    <3> DEFINE f == [k \in 0 .. PUNTERO * (Len(asignados[h]) - 1) - 1 |-> <<pedido[h], -1 - (k \div PUNTERO)>>]
               a == asignados[h][1] * BLOCK_SIZE
    <3>1. /\ disco' = Escribir(a, f) /\ pos' = [pos EXCEPT ![h] = 2]
          /\ Pasa(h, "datos") /\ UNCHANGED filesystem
      BY <1>7, <2>4 DEF EscribirIndice
    <3>2. \A k \in DOMAIN f : f[k] \in Volcados \X Int
      <4> SUFFICES ASSUME NEW k \in DOMAIN f PROVE f[k] \in Volcados \X Int
        OBVIOUS
      <4>1. k \in Int /\ f[k] = <<pedido[h], -1 - (k \div PUNTERO)>>
        OBVIOUS
      <4>2. -1 - (k \div PUNTERO) \in Int
        BY <4>1, <1>0
      <4> QED BY <4>1, <4>2, <2>1
    <3> HIDE DEF f, a
    <3>3. disco' \in [Bytes -> (Volcados \X Int) \cup {<<Nadie, 0>>}]
      BY <3>1, <3>2, <1>1, EscribirTipo
    <3>4. 2 \in 0 .. BLOCK_COUNT + 1
      BY <1>0
    <3>5. TypeOK'
      BY <1>1, <2>2, <3>1, <3>3, <3>4 DEF Pasa, TypeOK, Pasos
    <3>6. Tipado(h)'
      BY <1>1, <2>1, <2>2, <3>1 DEF Pasa, TypeOK, Tipado, Atendidos, SinBloques, SinPedido, Asignando
    <3> QED BY <3>5, <3>6
  <2> QED BY <2>3, <2>4
<1>8. CASE EscribirBloque(h)
  <2>1. pc[h] = "datos" /\ pedido[h] \in Volcados
    BY <1>1, <1>8 DEF EscribirBloque, En, Tipado, Atendidos, Asignando
  <2>2. UNCHANGED <<conexiones, bloques_libres, vacios, archivos, respuesta, pedido, visto, asignados>>
    BY <1>8 DEF EscribirBloque
  <2>3. CASE Pasa(h, "metadata") /\ UNCHANGED <<disco, pos>>
    <3>1. TypeOK'
      BY <1>1, <2>2, <2>3 DEF TypeOK, Pasa, Pasos, conexiones
    <3>2. Tipado(h)'
      BY <1>1, <2>1, <2>2, <2>3 DEF Tipado, Pasa, TypeOK, Atendidos, SinBloques, SinPedido, Asignando
    <3> QED BY <3>1, <3>2
  <2>4. CASE ~(Pasa(h, "metadata") /\ UNCHANGED <<disco, pos>>)
    <3> DEFINE j == pos[h]
               f == [k \in 0 .. LargoEscritura(tam[pedido[h]], Len(asignados[h]), j) - 1 |->
                       <<pedido[h], Contenido(h, j) + k>>]
               a == asignados[h][j] * BLOCK_SIZE
    <3>1. /\ j <= Len(asignados[h]) /\ disco' = Escribir(a, f) /\ pos' = [pos EXCEPT ![h] = j + 1]
          /\ UNCHANGED pc
      BY <1>8, <2>4 DEF EscribirBloque
    <3>2. \A k \in DOMAIN f : f[k] \in Volcados \X Int
      <4> SUFFICES ASSUME NEW k \in DOMAIN f PROVE f[k] \in Volcados \X Int
        OBVIOUS
      <4>1. k \in Int /\ f[k] = <<pedido[h], Contenido(h, j) + k>>
        OBVIOUS
      <4>2. Contenido(h, j) \in Int
        BY <1>0, <1>1 DEF Contenido
      <4>3. Contenido(h, j) + k \in Int
        BY <4>1, <4>2
      <4> QED BY <4>1, <4>3, <2>1
    <3> HIDE DEF f, a
    <3>3. disco' \in [Bytes -> (Volcados \X Int) \cup {<<Nadie, 0>>}]
      BY <3>1, <3>2, <1>1, EscribirTipo
    <3>4. j + 1 \in 0 .. BLOCK_COUNT + 1
      BY <1>0, <1>1, <3>1
    <3> HIDE DEF j
    <3>5. TypeOK'
      BY <1>1, <2>2, <3>1, <3>3, <3>4 DEF TypeOK, conexiones
    <3>6. Tipado(h)'
      BY <1>1, <2>1, <2>2, <3>1 DEF TypeOK, Tipado, Atendidos, SinBloques, SinPedido, Asignando
    <3> QED BY <3>5, <3>6
  <2> QED BY <2>3, <2>4
<1>9. CASE crear_metadata(h) \/ EscribirMetadata(h)
  <2>1. TypeOK'
    BY <1>1, <1>9 DEF crear_metadata, EscribirMetadata, Pasa, TypeOK, Pasos, conexiones
  <2>2. Tipado(h)'
    BY <1>1, <1>9 DEF crear_metadata, EscribirMetadata, En, Pasa, TypeOK, Tipado, Atendidos, SinBloques, SinPedido, Asignando
  <2> QED BY <2>1, <2>2
<1>10. CASE Responder(h)
  <2>1. TypeOK'
    BY <1>1, <1>10 DEF Responder, Pasa, TypeOK, Pasos, conexiones, permanente
  <2>2. Tipado(h)'
    BY <1>1, <1>10 DEF Responder, En, Pasa, TypeOK, Tipado, Atendidos, SinBloques, SinPedido, Asignando
  <2> QED BY <2>1, <2>2
<1> QED BY <1>2, <1>3, <1>4, <1>5, <1>6, <1>7, <1>8, <1>9, <1>10, <1>11, <1>12, <1>13 DEF Avanzar

\* A crash loses the threads and nothing else.
LEMMA TiposAlCaer == ASSUME InvTipos, Caer PROVE InvTipos'
<1>1. TypeOK /\ MaxCaidas \in Nat
  BY ConstantesDelFileSystem DEF InvTipos
<1>2. caidas' \in 0 .. MaxCaidas
  BY <1>1 DEF Caer, TypeOK
<1>3. TypeOK'
  BY <1>1, <1>2 DEF Caer, TypeOK, Pasos, permanente
<1>4. \A h \in Volcados : \/ pc'[h] = "perdido"
                            \/ (pc'[h] = pc[h] /\ pc[h] \in {"sin_conectar", "fin", "perdido"})
  BY DEF Caer, EnCurso
<1>5. \A h \in Volcados : Tipado(h)'
  BY <1>4 DEF Caer, InvTipos, Tipado, Atendidos, SinBloques, SinPedido, Asignando
<1> QED BY <1>3, <1>5 DEF InvTipos

\* Every step keeps the types.
LEMMA TiposPaso == InvTipos /\ [Next]_vars => InvTipos'
<1> SUFFICES ASSUME InvTipos, [Next]_vars PROVE InvTipos'
  OBVIOUS
<1>1. ASSUME NEW h \in Volcados, Aceptar(h) \/ Avanzar(h) PROVE InvTipos'
  <2>1. TypeOK' /\ Tipado(h)'
    BY <1>1, TiposDelHilo
  <2>2. ASSUME NEW g \in Volcados, g # h PROVE Tipado(g)'
    <3>1. /\ pc'[g] = pc[g] /\ pedido'[g] = pedido[g] /\ pos'[g] = pos[g]
          /\ asignados'[g] = asignados[g] /\ visto'[g] = visto[g]
          /\ socket_cliente' = socket_cliente \/ socket_cliente' \in Volcados
      BY <1>1, <2>2, SoloSuHilo DEF InvTipos
    <3> QED BY <3>1 DEF InvTipos, Tipado
  <2> QED BY <2>1, <2>2 DEF InvTipos
<1>2. CASE UNCHANGED vars
  BY <1>2 DEF vars, permanente, hilo, InvTipos, TypeOK, Tipado
<1> QED BY <1>1, <1>2, TiposAlCaer DEF Next

\* The disk, the bitmap and the threads keep their types, whatever the number of dumps at
\* once, of crashes and of bits lost: a thread takes at most the blocks there are.
THEOREM TiposDelFileSystem == Spec => []TypeOK
<1>1. InvTipos => TypeOK
  BY DEF InvTipos
<1> QED BY <1>1, TiposIniciales, TiposPaso, PTL DEF Spec

-----------------------------------------------------------------------------
(* The blocks, with one dump at a time *)

\* What is appended is the only new member.
LEMMA ToSetAppend ==
  ASSUME NEW T, NEW s \in Seq(T), NEW e \in T
  PROVE  /\ ToSet(Append(s, e)) = ToSet(s) \cup {e}
         /\ IsInjective(s) /\ e \notin ToSet(s) => IsInjective(Append(s, e))
<1> DEFINE u == Append(s, e)
           L == Len(s)
<1>1. /\ L \in Nat /\ DOMAIN s = 1 .. L /\ DOMAIN u = 1 .. L + 1
      /\ \A i \in 1 .. L : u[i] = s[i]
      /\ u[L + 1] = e
  OBVIOUS
<1> HIDE DEF u, L
<1>2. \A i \in 1 .. L + 1 : i = L + 1 \/ i \in 1 .. L
  BY <1>1
<1>3. L + 1 \in 1 .. L + 1 /\ \A i \in 1 .. L : i \in 1 .. L + 1
  BY <1>1
<1>4. ToSet(u) = ToSet(s) \cup {e}
  BY <1>1, <1>2, <1>3 DEF ToSet
<1>5. ASSUME IsInjective(s), e \notin ToSet(s) PROVE IsInjective(u)
  <2>1. \A i \in 1 .. L : s[i] # e
    BY <1>1, <1>5 DEF ToSet
  <2>2. \A i, j \in 1 .. L : s[i] = s[j] => i = j
    BY <1>1, <1>5 DEF IsInjective
  <2>3. ASSUME NEW i \in 1 .. L + 1, NEW j \in 1 .. L + 1, u[i] = u[j] PROVE i = j
    <3>1. CASE i \in 1 .. L /\ j \in 1 .. L
      BY <3>1, <2>2, <2>3, <1>1
    <3>2. CASE i = L + 1 /\ j \in 1 .. L
      BY <3>2, <2>1, <2>3, <1>1
    <3>3. CASE j = L + 1 /\ i \in 1 .. L
      BY <3>3, <2>1, <2>3, <1>1
    <3> QED BY <3>1, <3>2, <3>3, <1>2
  <2> QED BY <2>3, <1>1 DEF IsInjective
<1> QED BY <1>4, <1>5 DEF u

\* No thread is in progress when one is accepted.
LEMMA AceptarSolo ==
  ASSUME Simultaneos = 1, InvTipos, NEW h \in Volcados, Aceptar(h)
  PROVE  EnCurso = {}
<1>1. IsFiniteSet(EnCurso)
  BY ConstantesDelFileSystem, FS_Subset DEF EnCurso
<1>2. Cardinality(EnCurso) \in Nat /\ Cardinality(EnCurso) < 1
  BY <1>1, FS_CardinalityType DEF Aceptar
<1>3. Cardinality(EnCurso) = 0
  BY <1>2
<1> QED BY <1>1, <1>3, FS_EmptySet

\* The thread that moves is the one in progress, and stays alone.
LEMMA UnoSolo ==
  ASSUME Simultaneos = 1, InvBloques, NEW h \in Volcados, Aceptar(h) \/ Avanzar(h)
  PROVE  /\ Aceptar(h) => EnCurso = {}
         /\ ~Aceptar(h) => h \in EnCurso
         /\ EnCurso' \subseteq {h}
         /\ \A g \in Volcados : g # h => pc[g] \in {"sin_conectar", "fin", "perdido"}
<1>1. Aceptar(h) => EnCurso = {}
  BY AceptarSolo DEF InvBloques
<1>2. ~Aceptar(h) => h \in EnCurso
  BY DEF Avanzar, Saludar, Recibir, ContarBit, Contar, Mirar, LeerByte, Marcar, EscribirIndice,
         EscribirBloque, crear_metadata, EscribirMetadata, Responder, En, EnCurso
<1>3. \A g \in Volcados : g # h => g \notin EnCurso
  BY <1>1, <1>2 DEF InvBloques, EnCurso
<1>4. \A g \in Volcados : g # h => pc'[g] = pc[g]
  BY SoloSuHilo DEF InvBloques, InvTipos
<1>5. EnCurso' \subseteq {h}
  BY <1>3, <1>4 DEF EnCurso
<1>6. \A g \in Volcados : g # h => pc[g] \in {"sin_conectar", "fin", "perdido"}
  BY <1>3 DEF EnCurso
<1> QED BY <1>1, <1>2, <1>5, <1>6

\* A step that gives no block, and takes from its owners only those without one, keeps
\* whose the blocks are.
LEMMA MismosDuenos ==
  ASSUME InvBloques, TypeOK', UNCHANGED <<bloques_libres, asignados, caidas>>,
         \A g \in Volcados : asignados[g] # <<>> => (g \in Duenos' <=> g \in Duenos)
  PROVE  SinDobleAsignacion' /\ SinFugas'
<1>1. ToSet(<<>>) = {}
  BY DEF ToSet
<1>2. Duenos \subseteq Volcados /\ Duenos' \subseteq Volcados
  BY DEF Duenos, EnCurso, InvBloques, InvTipos, TypeOK
<1>3. \A g \in Duenos : ToSet(asignados[g]) \subseteq bloques_libres
  BY DEF InvBloques, SinDobleAsignacion, Duenos
<1>4. \A g, k \in Duenos : g # k => ToSet(asignados[g]) \cap ToSet(asignados[k]) = {}
  BY DEF InvBloques, SinDobleAsignacion, Duenos
<1>5. SinDobleAsignacion'
  <2>1. \A g \in Duenos' : ToSet(asignados[g]) \subseteq bloques_libres
    BY <1>1, <1>2, <1>3
  <2>2. \A g, k \in Duenos' : g # k => ToSet(asignados[g]) \cap ToSet(asignados[k]) = {}
    BY <1>1, <1>2, <1>4
  <2> QED BY <2>1, <2>2 DEF SinDobleAsignacion, Duenos
<1>6. SinFugas'
  <2>1. caidas = 0 => bloques_libres = UNION {ToSet(asignados[g]) : g \in Duenos}
    BY DEF InvBloques, SinFugas, Duenos
  <2>2. UNION {ToSet(asignados[g]) : g \in Duenos} = UNION {ToSet(asignados[g]) : g \in Duenos'}
    BY <1>1, <1>2
  <2> QED BY <2>1, <2>2 DEF SinFugas, Duenos
<1> QED BY <1>5, <1>6

\* The block that is marked was nobody's.
LEMMA DuenosAlMarcar ==
  ASSUME Simultaneos = 1, InvBloques, NEW h \in Volcados, Marcar(h)
  PROVE  /\ bloques_libres' = bloques_libres \cup {pos[h]} /\ pos[h] \notin bloques_libres
         /\ SinDobleAsignacion' /\ SinFugas'
<1> DEFINE b == pos[h]
<1>1. /\ pc[h] = "graba" /\ b \in Bloques /\ b \notin bloques_libres /\ visto[h] = bloques_libres
      /\ bloques_libres \subseteq Bloques /\ asignados[h] \in Seq(Bloques) /\ asignados \in [Volcados -> Seq(Bloques)]
      /\ archivos \subseteq Volcados /\ h \in EnCurso
  BY DEF InvBloques, InvTipos, Tipado, TypeOK, Marcar, En, EnCurso
<1>2. bloques_libres' = bloques_libres \cup {b}
  <2>1. ConByte(visto[h], b) = bloques_libres
    BY <1>1 DEF ConByte
  <2> QED BY <2>1 DEF Marcar, MarcarBit
<1>3. /\ asignados' = [asignados EXCEPT ![h] = Append(asignados[h], b)]
      /\ archivos' = archivos /\ caidas' = caidas /\ Pasa(h, "asigna")
  BY DEF Marcar, conexiones
<1>4. /\ ToSet(asignados'[h]) = ToSet(asignados[h]) \cup {b}
      /\ \A g \in Volcados : g # h => asignados'[g] = asignados[g]
  BY <1>1, <1>3, ToSetAppend
<1>5. \A g \in Volcados : pc'[g] = IF g = h THEN "asigna" ELSE pc[g]
  BY <1>3 DEF Pasa, InvBloques, InvTipos, TypeOK
<1>6. Duenos' = Duenos /\ Duenos \subseteq Volcados /\ h \in Duenos
  BY <1>1, <1>3, <1>5 DEF Duenos, EnCurso
<1> HIDE DEF b
<1>7. \A g \in Duenos : ToSet(asignados[g]) \subseteq bloques_libres
  BY DEF InvBloques, SinDobleAsignacion, Duenos
<1>8. \A g, k \in Duenos : g # k => ToSet(asignados[g]) \cap ToSet(asignados[k]) = {}
  BY DEF InvBloques, SinDobleAsignacion, Duenos
<1>9. SinDobleAsignacion'
  <2>1. \A g \in Duenos' : ToSet(asignados'[g]) \subseteq bloques_libres'
    BY <1>2, <1>4, <1>6, <1>7
  <2>2. \A g \in Duenos : b \notin ToSet(asignados[g])
    BY <1>1, <1>7
  <2>3. \A g, k \in Duenos' : g # k => ToSet(asignados'[g]) \cap ToSet(asignados'[k]) = {}
    <3> SUFFICES ASSUME NEW g \in Duenos, NEW k \in Duenos, g # k
                 PROVE  ToSet(asignados'[g]) \cap ToSet(asignados'[k]) = {}
      BY <1>6
    <3>1. /\ ToSet(asignados'[g]) \subseteq ToSet(asignados[g]) \cup (IF g = h THEN {b} ELSE {})
          /\ ToSet(asignados'[k]) \subseteq ToSet(asignados[k]) \cup (IF k = h THEN {b} ELSE {})
      BY <1>4, <1>6
    <3> QED BY <3>1, <2>2, <1>8
  <2> QED BY <2>1, <2>3 DEF SinDobleAsignacion, Duenos
<1>10. SinFugas'
  <2> DEFINE A(x) == \E g \in Duenos : x \in ToSet(asignados[g])
             D(x) == \E g \in Duenos : x \in ToSet(asignados'[g])
             V == UNION {ToSet(asignados[g]) : g \in Duenos}
             W == UNION {ToSet(asignados'[g]) : g \in Duenos}
  <2>1. caidas = 0 => bloques_libres = V
    BY DEF InvBloques, SinFugas, Duenos
  <2>2. W = V \cup {b}
    <3>1. \A x : A(x) => D(x)
      BY <1>4, <1>6
    <3>2. D(b)
      BY <1>4, <1>6
    <3>3. \A x : D(x) => A(x) \/ x = b
      BY <1>4, <1>6
    <3>4. \A x : x \in V <=> A(x)
      OBVIOUS
    <3>5. \A x : x \in W <=> D(x)
      OBVIOUS
    <3>6. \A x : x \in W <=> x \in V \/ x = b
      <4> HIDE DEF A, D, V, W
      <4> QED BY <3>1, <3>2, <3>3, <3>4, <3>5
    <3> HIDE DEF V, W
    <3> QED BY <3>6
  <2> HIDE DEF V
  <2>3. W = UNION {ToSet(asignados'[g]) : g \in Duenos'}
    BY Zenon, <1>6
  <2> HIDE DEF W
  <2>4. caidas' = 0 => bloques_libres' = W
    BY <2>1, <2>2, <1>2, <1>3
  <2>5. caidas' = 0 => bloques_libres' = UNION {ToSet(asignados'[g]) : g \in Duenos'}
    BY Zenon, <2>3, <2>4
  <2> QED BY <2>5 DEF SinFugas, Duenos
<1> QED BY <1>1, <1>2, <1>9, <1>10 DEF b

\* The initial bitmap marks nothing.
LEMMA BloquesIniciales == Init => InvBloques
<1> SUFFICES ASSUME Init PROVE InvBloques
  OBVIOUS
<1>1. InvTipos
  BY TiposIniciales
<1>2. EnCurso = {} /\ archivos = {} /\ bloques_libres = {} /\ \A h \in Volcados : pc[h] = "sin_conectar"
  BY DEF Init, EnCurso
<1> QED BY <1>1, <1>2 DEF InvBloques, SinDobleAsignacion, SinFugas, Deja

\* Each step of the dump in progress keeps whose the blocks are.
LEMMA BloquesDelHilo ==
  ASSUME Simultaneos = 1, InvBloques, InvTipos', NEW h \in Volcados, Aceptar(h) \/ Avanzar(h)
  PROVE  InvBloques'
<1>1. /\ Aceptar(h) => EnCurso = {}
      /\ EnCurso' \subseteq {h}
      /\ \A g \in Volcados : g # h => pc[g] \in {"sin_conectar", "fin", "perdido"}
  BY UnoSolo
<1>2. \A g \in Volcados : g # h =>
        /\ pc'[g] = pc[g] /\ pos'[g] = pos[g] /\ visto'[g] = visto[g] /\ asignados'[g] = asignados[g]
  BY SoloSuHilo DEF InvBloques, InvTipos
<1>3. InvTipos /\ TypeOK /\ TypeOK' /\ Tipado(h)
  BY DEF InvBloques, InvTipos
<1> DEFINE Archivo == /\ archivos \subseteq archivos' /\ archivos' \subseteq archivos \cup {h}
                      /\ h \in archivos' => pc'[h] \in {"responde", "fin", "perdido"}
           Dejado  == pc'[h] \in {"responde", "fin"} => h \in archivos' \/ asignados'[h] = <<>>
           Vista   == /\ pc'[h] \in {"marca", "graba"} => pos'[h] \notin bloques_libres'
                      /\ pc'[h] = "graba" => visto'[h] = bloques_libres'
           Dueno   == asignados[h] # <<>> => (h \in Duenos' <=> h \in Duenos)
           Quietos == UNCHANGED <<bloques_libres, asignados, caidas>> /\ Dueno
           Bien    == Archivo /\ Dejado /\ Vista /\ (Quietos \/ Marcar(h))
<1>4. Bien
  <2>1. CASE Aceptar(h)
    <3>1. pc[h] = "sin_conectar" /\ pc'[h] = "aceptado" /\ asignados[h] = <<>> /\ h \notin archivos
      BY <1>3, <2>1 DEF Aceptar, En, Pasa, TypeOK, Tipado, SinBloques, SinPedido, InvBloques
    <3> QED BY <2>1, <3>1 DEF Aceptar, permanente
  <2>2. CASE Saludar(h) \/ Recibir(h) \/ ContarBit(h)
    <3>1. /\ pc[h] \in {"aceptado", "creado", "cuenta"} /\ pc'[h] \in {"creado", "cuenta", "espera", "fin"}
          /\ h \notin archivos /\ asignados[h] = <<>>
      BY <1>3, <2>2 DEF Saludar, Recibir, ContarBit, En, Pasa, TypeOK, Tipado, SinBloques, SinPedido,
                        InvBloques
    <3>2. UNCHANGED <<permanente, asignados, caidas>>
      BY <2>2 DEF Saludar, Recibir, ContarBit, conexiones
    <3> QED BY <3>1, <3>2 DEF permanente
  <2>3. CASE Contar(h)
    <3>1. pc[h] = "cuenta" /\ pc'[h] \in {"responde", "asigna"} /\ h \notin archivos /\ asignados[h] = <<>>
      BY <1>3, <2>3 DEF Contar, En, Pasa, TypeOK, InvBloques, Tipado, SinBloques
    <3>2. UNCHANGED <<permanente, asignados, caidas>>
      BY <2>3 DEF Contar, conexiones
    <3> QED BY <3>1, <3>2 DEF permanente
  <2>4. CASE Mirar(h)
    <3>1. pc[h] = "asigna" /\ pc'[h] \in {"indice", "asigna", "marca"} /\ h \notin archivos
      BY <1>3, <2>4 DEF Mirar, En, Pasa, TypeOK, InvBloques
    <3>2. UNCHANGED <<permanente, asignados, caidas>>
      BY <2>4 DEF Mirar, conexiones
    <3>3. pc'[h] = "marca" => pos'[h] \notin bloques_libres
      BY <1>3, <2>4, <3>1 DEF Mirar, Pasa, TypeOK
    <3> QED BY <3>1, <3>2, <3>3 DEF permanente, Duenos, EnCurso
  <2>10. CASE LeerByte(h)
    <3>1. pc[h] = "marca" /\ pc'[h] = "graba" /\ h \notin archivos /\ pos[h] \notin bloques_libres
      BY <1>3, <2>10 DEF LeerByte, En, Pasa, TypeOK, InvBloques
    <3>2. UNCHANGED <<permanente, pos, asignados, caidas>> /\ visto'[h] = bloques_libres
      BY <1>3, <2>10 DEF LeerByte, conexiones, TypeOK
    <3> QED BY <3>1, <3>2 DEF permanente, Duenos, EnCurso
  <2>5. CASE Marcar(h)
    <3>1. pc'[h] = "asigna" /\ archivos' = archivos /\ h \notin archivos
      BY <1>3, <2>5 DEF Marcar, En, Pasa, TypeOK, InvBloques
    <3> QED BY <2>5, <3>1
  <2>6. CASE EscribirIndice(h)
    <3>1. pc[h] = "indice" /\ pc'[h] \in {"indice", "datos"} /\ h \notin archivos
      BY <1>3, <2>6 DEF EscribirIndice, En, Pasa, TypeOK, InvBloques
    <3>2. UNCHANGED <<bloques_libres, archivos, asignados, caidas>>
      BY <2>6 DEF EscribirIndice
    <3> QED BY <3>1, <3>2 DEF Duenos, EnCurso
  <2>7. CASE EscribirBloque(h)
    <3>1. pc[h] = "datos" /\ pc'[h] \in {"datos", "metadata"} /\ h \notin archivos
      BY <1>3, <2>7 DEF EscribirBloque, En, Pasa, TypeOK, InvBloques
    <3>2. UNCHANGED <<bloques_libres, archivos, asignados, caidas>>
      BY <2>7 DEF EscribirBloque, conexiones
    <3> QED BY <3>1, <3>2 DEF Duenos, EnCurso
  <2>11. CASE crear_metadata(h)
    <3>1. pc[h] = "metadata" /\ pc'[h] = "llena" /\ h \notin archivos
      BY <1>3, <2>11 DEF crear_metadata, En, Pasa, TypeOK, InvBloques
    <3>2. UNCHANGED <<bloques_libres, archivos, asignados, caidas>>
      BY <2>11 DEF crear_metadata, conexiones
    <3> QED BY <3>1, <3>2 DEF Duenos, EnCurso
  <2>8. CASE EscribirMetadata(h)
    <3>1. pc[h] = "llena" /\ pc'[h] = "responde" /\ archivos' = archivos \cup {h}
      BY <1>3, <2>8 DEF EscribirMetadata, En, Pasa, TypeOK
    <3>2. UNCHANGED <<bloques_libres, asignados, caidas>>
      BY <2>8 DEF EscribirMetadata, conexiones
    <3> QED BY <3>1, <3>2 DEF Duenos, EnCurso
  <2>9. CASE Responder(h)
    <3>1. pc[h] = "responde" /\ pc'[h] = "fin" /\ Deja(h)
      BY <1>3, <2>9 DEF Responder, En, Pasa, TypeOK, InvBloques
    <3>2. UNCHANGED <<permanente, asignados, caidas>>
      BY <2>9 DEF Responder, conexiones
    <3> QED BY <3>1, <3>2 DEF permanente, Duenos, EnCurso, Deja
  <2> QED BY <2>1, <2>2, <2>3, <2>4, <2>5, <2>6, <2>7, <2>8, <2>9, <2>10, <2>11 DEF Avanzar
<1>5. SinDobleAsignacion' /\ SinFugas'
  <2>1. CASE Quietos
    <3>1. \A g \in Volcados : g # h => (g \in Duenos' <=> g \in Duenos)
      BY <1>1, <1>2, <1>4 DEF Duenos, EnCurso
    <3>2. \A g \in Volcados : asignados[g] # <<>> => (g \in Duenos' <=> g \in Duenos)
      BY <3>1, <2>1
    <3> QED BY <3>2, <2>1, <1>3, MismosDuenos
  <2>2. CASE Marcar(h)
    BY <2>2, DuenosAlMarcar
  <2> QED BY <1>4, <2>1, <2>2
<1>6. \A g, k \in EnCurso' : g = k
  BY <1>1
<1>7. \A g \in archivos' : pc'[g] \in {"responde", "fin", "perdido"}
  BY <1>2, <1>3, <1>4 DEF InvBloques, TypeOK
<1>8. \A g \in Volcados : pc'[g] \in {"responde", "fin"} => g \in archivos' \/ asignados'[g] = <<>>
  BY <1>2, <1>4 DEF InvBloques, Deja
<1>9. \A g \in Volcados : pc'[g] \in {"marca", "graba"} => pos'[g] \notin bloques_libres'
  BY <1>1, <1>2, <1>4
<1>10. \A g \in Volcados : pc'[g] = "graba" => visto'[g] = bloques_libres'
  BY <1>1, <1>2, <1>4
<1> HIDE DEF Archivo, Dejado, Vista, Dueno, Quietos, Bien
<1> QED BY <1>5, <1>6, <1>7, <1>8, <1>9, <1>10 DEF InvBloques, Deja

\* A crash leaves the blocks to the files that had them. Those of the dump in progress
\* are lost.
LEMMA BloquesAlCaer == ASSUME InvBloques, InvTipos', Caer PROVE InvBloques'
<1>1. UNCHANGED <<archivos, bloques_libres, asignados>> /\ caidas' # 0
  BY DEF Caer, permanente, InvBloques, InvTipos, TypeOK
<1>2. \A g \in Volcados : \/ pc'[g] = "perdido"
                          \/ (pc'[g] = pc[g] /\ pc[g] \in {"sin_conectar", "fin", "perdido"})
  BY DEF Caer, EnCurso
<1>3. EnCurso' = {}
  BY <1>2 DEF EnCurso
<1>4. SinDobleAsignacion'
  BY <1>1, <1>3 DEF InvBloques, SinDobleAsignacion
<1>5. SinFugas'
  BY <1>1 DEF SinFugas
<1>6. \A g \in archivos' : pc'[g] \in {"responde", "fin", "perdido"}
  BY <1>1, <1>2 DEF InvBloques, InvTipos, TypeOK
<1>7. \A g \in Volcados : pc'[g] \in {"responde", "fin"} => g \in archivos' \/ asignados'[g] = <<>>
  BY <1>1, <1>2 DEF InvBloques, Deja
<1>8. \A g \in Volcados : pc'[g] \notin {"marca", "graba"}
  BY <1>2
<1> QED BY <1>3, <1>4, <1>5, <1>6, <1>7, <1>8 DEF InvBloques, Deja

\* Every step keeps whose the blocks are.
LEMMA BloquesPaso == ASSUME Simultaneos = 1 PROVE InvBloques /\ [Next]_vars => InvBloques'
<1> SUFFICES ASSUME InvBloques, [Next]_vars PROVE InvBloques'
  OBVIOUS
<1>1. InvTipos'
  BY TiposPaso DEF InvBloques
<1>2. ASSUME NEW h \in Volcados, Aceptar(h) \/ Avanzar(h) PROVE InvBloques'
  BY <1>1, <1>2, BloquesDelHilo
<1>3. CASE Caer
  BY <1>1, <1>3, BloquesAlCaer
<1>4. CASE UNCHANGED vars
  <2>1. /\ UNCHANGED <<pc, pos, visto, asignados, bloques_libres, archivos, caidas>>
        /\ EnCurso' = EnCurso
    BY <1>4 DEF vars, hilo, permanente, EnCurso
  <2>2. SinDobleAsignacion' /\ SinFugas'
    BY <2>1 DEF InvBloques, SinDobleAsignacion, SinFugas
  <2> QED BY <1>1, <2>1, <2>2 DEF InvBloques, Deja
<1> QED BY <1>2, <1>3, <1>4 DEF Next

\* With one dump at a time, no block is given to two dumps and every block of a file or of
\* the dump in progress is marked, through refusals and crashes.
THEOREM BloquesDeUnoSolo == ASSUME Simultaneos = 1 PROVE Spec => []SinDobleAsignacion
<1>1. InvBloques => SinDobleAsignacion
  BY DEF InvBloques
<1>2. InvBloques /\ [Next]_vars => InvBloques'
  BY BloquesPaso
<1> QED BY <1>1, <1>2, BloquesIniciales, PTL DEF Spec

\* While the process does not crash, a dump that is refused or fails leaves no block behind.
THEOREM NadaSePierde == ASSUME Simultaneos = 1 PROVE Spec => []SinFugas
<1>1. InvBloques => SinFugas
  BY DEF InvBloques
<1>2. InvBloques /\ [Next]_vars => InvBloques'
  BY BloquesPaso
<1> QED BY <1>1, <1>2, BloquesIniciales, PTL DEF Spec

-----------------------------------------------------------------------------
(* Bytes and blocks *)

\* A positive multiple of B is at least B.
LEMMA Crece == ASSUME NEW d \in Int, NEW B \in Nat, d >= 1 PROVE d * B >= B
<1>1. (d - 1) * B >= 0
  OBVIOUS
<1>2. (d - 1) * B = d * B - B
  OBVIOUS
<1>3. d * B \in Int
  OBVIOUS
<1> QED BY <1>1, <1>2, <1>3

\* A byte is in one block, at one offset.
LEMMA UnByte ==
  ASSUME NEW B \in Nat \ {0}, NEW p \in Int, NEW q \in Int, NEW r \in 0 .. B - 1, NEW s \in 0 .. B - 1,
         p * B + r = q * B + s
  PROVE  p = q /\ r = s
<1>1. p * B \in Int /\ q * B \in Int /\ (p - q) * B = p * B - q * B /\ (q - p) * B = q * B - p * B
  OBVIOUS
<1>2. CASE p - q >= 1
  <2>1. (p - q) * B >= B
    BY <1>2, Crece
  <2> QED BY <2>1, <1>1
<1>3. CASE q - p >= 1
  <2>1. (q - p) * B >= B
    BY <1>3, Crece
  <2> QED BY <2>1, <1>1
<1>4. CASE p = q
  BY <1>4, <1>1
<1> QED BY <1>2, <1>3, <1>4

\* The quotient and the remainder of a number.
LEMMA Division ==
  ASSUME NEW B \in Nat \ {0}, NEW k \in Int
  PROVE  /\ k \div B \in Int /\ k % B \in 0 .. B - 1
         /\ k = (k \div B) * B + (k % B)
OBVIOUS

\* The quotient of a byte by the size of the block is its block.
LEMMA Cociente ==
  ASSUME NEW B \in Nat \ {0}, NEW q \in Int, NEW r \in 0 .. B - 1
  PROVE  (q * B + r) \div B = q
<1> DEFINE k == q * B + r
<1>1. k \in Int /\ k = q * B + r
  OBVIOUS
<1> HIDE DEF k
<1>2. /\ k \div B \in Int /\ k % B \in 0 .. B - 1
      /\ k = (k \div B) * B + (k % B)
  BY <1>1, Division
<1>3. k \div B = q
  BY <1>1, <1>2, UnByte
<1> QED BY <1>3 DEF k

\* A byte of the first E blocks is in one of them.
LEMMA EntreBloques ==
  ASSUME NEW B \in Nat \ {0}, NEW E \in Int, NEW q \in Int, NEW r \in 0 .. B - 1,
         q * B + r >= 0, q * B + r < E * B
  PROVE  q >= 0 /\ q < E
<1>1. q * B \in Int /\ E * B \in Int /\ B \in Int /\ r \in Int /\ 0 <= r /\ r < B
  OBVIOUS
<1>2. q >= 0
  <2> SUFFICES ASSUME -q >= 1 PROVE FALSE
    OBVIOUS
  <2>1. (-q) * B >= B
    BY Crece
  <2>2. (-q) * B = -(q * B)
    OBVIOUS
  <2> QED BY <2>1, <2>2, <1>1
<1>3. q < E
  <2> SUFFICES ASSUME q - E >= 0 PROVE FALSE
    OBVIOUS
  <2>1. (q - E) * B >= 0
    OBVIOUS
  <2>2. (q - E) * B = q * B - E * B
    OBVIOUS
  <2> QED BY <2>1, <2>2, <1>1
<1> QED BY <1>2, <1>3

\* A block's bytes are on the disk.
LEMMA EnElDisco ==
  ASSUME NEW b \in Bloques, NEW r \in 0 .. BLOCK_SIZE - 1
  PROVE  b * BLOCK_SIZE + r \in Bytes
<1>1. BLOCK_SIZE \in Nat \ {0} /\ BLOCK_COUNT \in Nat \ {0} /\ b \in Nat /\ BLOCK_COUNT - b >= 1
  BY ConstantesDelFileSystem DEF Bloques
<1>2. (BLOCK_COUNT - b) * BLOCK_SIZE >= BLOCK_SIZE
  BY <1>1, Crece
<1>3. /\ (BLOCK_COUNT - b) * BLOCK_SIZE = BLOCK_COUNT * BLOCK_SIZE - b * BLOCK_SIZE
      /\ BLOCK_COUNT * BLOCK_SIZE \in Nat /\ b * BLOCK_SIZE \in Nat
  BY <1>1
<1> QED BY <1>1, <1>2, <1>3 DEF Bytes

\* Byte m of pointer number n is in the index block.
LEMMA Puntero ==
  ASSUME NEW P \in Nat \ {0}, NEW B \in Nat, NEW E \in Nat, P * E <= B,
         NEW n \in 1 .. E, NEW m \in P * (n - 1) .. P * n - 1
  PROVE  /\ m \in 0 .. B - 1 /\ m \in 0 .. P * E - 1
         /\ -1 - (m \div P) = -n
<1>1. P * (n - 1) \in Int /\ P * n \in Int /\ P * (n - 1) = P * n - P /\ P * E \in Int
  OBVIOUS
<1>2. P * (n - 1) >= 0
  OBVIOUS
<1>3. P * n <= P * E
  <2>1. (E - n) * P >= 0
    OBVIOUS
  <2>2. (E - n) * P = P * E - P * n
    OBVIOUS
  <2> QED BY <2>1, <2>2, <1>1
<1>4. m \in 0 .. B - 1 /\ m \in 0 .. P * E - 1
  BY <1>1, <1>2, <1>3
<1> DEFINE r == m - P * (n - 1)
<1>5. r \in 0 .. P - 1 /\ m = (n - 1) * P + r
  BY <1>1
<1> HIDE DEF r
<1>6. m \div P = n - 1
  BY <1>5, Cociente
<1> QED BY <1>4, <1>6

-----------------------------------------------------------------------------
(* What is written on the blocks *)

\* What a thread needs: the data are whole blocks.
LEMMA Necesidad ==
  ASSUME BloquesEnteros, TypeOK, NEW h \in Volcados, pedido[h] \in Volcados
  PROVE  LET t == tam[pedido[h]] IN
         /\ t \in Nat \ {0} /\ Enteros(t) \in Nat /\ t = Enteros(t) * BLOCK_SIZE
         /\ Necesita(h) = Enteros(t) + 1 /\ PUNTERO * Enteros(t) <= BLOCK_SIZE
<1> DEFINE t == tam[pedido[h]]
<1>1. t \in Tamanios /\ t \in Nat \ {0} /\ BLOCK_SIZE \in Nat \ {0}
  BY ConstantesDelFileSystem DEF TypeOK
<1>2. t % BLOCK_SIZE = 0 /\ PUNTERO * Enteros(t) <= BLOCK_SIZE
  BY <1>1 DEF BloquesEnteros
<1> HIDE DEF t
<1>3. t = (t \div BLOCK_SIZE) * BLOCK_SIZE + (t % BLOCK_SIZE) /\ t \div BLOCK_SIZE \in Int
  <2>1. t \in Int /\ BLOCK_SIZE \in Nat \ {0}
    BY <1>1
  <2> QED BY ONLY <2>1, Division
<1> DEFINE e == t \div BLOCK_SIZE
<1>4. e \in Int /\ t = e * BLOCK_SIZE
  BY <1>1, <1>2, <1>3
<1> HIDE DEF e
<1>5. e \in Nat
  <2>1. 0 \in 0 .. BLOCK_SIZE - 1 /\ e * BLOCK_SIZE + 0 = t /\ t >= 0
    BY <1>1, <1>4
  <2>2. e * BLOCK_SIZE + 0 < (e + 1) * BLOCK_SIZE
    <3>1. (e + 1) * BLOCK_SIZE = e * BLOCK_SIZE + BLOCK_SIZE /\ e * BLOCK_SIZE \in Int
      BY <1>1, <1>4
    <3> QED BY <3>1, <1>1
  <2>3. e + 1 \in Int /\ BLOCK_SIZE \in Nat \ {0} /\ e * BLOCK_SIZE + 0 >= 0
    BY <2>1, <1>1, <1>4
  <2>4. e >= 0
    BY <2>1, <2>2, <2>3, <1>4, EntreBloques
  <2> QED BY <2>4, <1>4
<1> QED BY <1>1, <1>2, <1>4, <1>5 DEF Enteros, Necesita, t, e

\* A write inside a block changes its bytes and those of no other block.
LEMMA EscribirEnBloque ==
  ASSUME NEW b \in Bloques, NEW f, DOMAIN f \subseteq 0 .. BLOCK_SIZE - 1,
         disco' = Escribir(b * BLOCK_SIZE, f)
  PROVE  /\ \A r \in DOMAIN f : disco'[b * BLOCK_SIZE + r] = f[r]
         /\ \A c \in Bloques : c # b => \A r \in 0 .. BLOCK_SIZE - 1 :
              disco'[c * BLOCK_SIZE + r] = disco[c * BLOCK_SIZE + r]
<1> DEFINE B == BLOCK_SIZE
           a == b * B
<1>1. B \in Nat \ {0} /\ b \in Int /\ a \in Int /\ \A c \in Bloques : c \in Int /\ c * B \in Int
  BY ConstantesDelFileSystem DEF Bloques
<1>2. \A x \in Bytes : disco'[x] = IF x - a \in DOMAIN f THEN f[x - a] ELSE disco[x]
  BY DEF Escribir
<1>3. ASSUME NEW r \in DOMAIN f PROVE disco'[a + r] = f[r]
  <2>1. r \in 0 .. B - 1 /\ r \in Int
    OBVIOUS
  <2>2. a + r \in Bytes
    BY <2>1, EnElDisco
  <2> HIDE DEF a
  <2>3. (a + r) - a = r
    BY <2>1, <1>1
  <2> QED BY <2>2, <2>3, <1>2, <1>3
<1>4. ASSUME NEW c \in Bloques, c # b, NEW r \in 0 .. B - 1 PROVE disco'[c * B + r] = disco[c * B + r]
  <2> DEFINE x == c * B + r
  <2>1. x \in Bytes /\ x \in Int
    BY EnElDisco, <1>1
  <2>2. x - a \notin DOMAIN f
    <3> SUFFICES ASSUME x - a \in DOMAIN f PROVE FALSE
      OBVIOUS
    <3>1. x - a \in 0 .. B - 1
      OBVIOUS
    <3> DEFINE s == x - a
    <3>2. s \in 0 .. B - 1 /\ c * B + r = b * B + s
      <4> HIDE DEF a, B
      <4>1. s \in 0 .. B - 1
        BY <3>1
      <4>2. c * B \in Int /\ r \in Int /\ a \in Int /\ s = (c * B + r) - a
        BY <1>1
      <4>3. c * B + r = a + s
        BY <4>2
      <4> QED BY <4>1, <4>3 DEF a
    <3> HIDE DEF s
    <3>3. c = b
      <4> HIDE DEF B
      <4> QED BY <3>2, <1>1, UnByte
    <3> QED BY <3>3, <1>4
  <2> HIDE DEF x
  <2> QED BY <2>1, <2>2, <1>2 DEF x
<1> QED BY <1>3, <1>4 DEF a

\* What a thread wrote stays while nothing is written on its blocks.
LEMMA EscritoQueda ==
  ASSUME BloquesEnteros, TypeOK, NEW g \in Volcados, pedido[g] \in Volcados,
         Len(asignados[g]) = Necesita(g), NEW j \in 2 .. Len(asignados[g]) + 1,
         asignados'[g] = asignados[g], pedido'[g] = pedido[g],
         \A i \in 1 .. j - 1 : \A r \in 0 .. BLOCK_SIZE - 1 :
           disco'[asignados[g][i] * BLOCK_SIZE + r] = disco[asignados[g][i] * BLOCK_SIZE + r]
  PROVE  /\ IndiceBien(g) => IndiceBien(g)'
         /\ \A i \in 2 .. j - 1 : BloqueBien(g, i) => BloqueBien(g, i)'
<1> DEFINE s == asignados[g]
           E == Enteros(tam[pedido[g]])
<1>1. /\ s \in Seq(Bloques) /\ Len(s) = E + 1 /\ E \in Nat /\ PUNTERO * E <= BLOCK_SIZE
      /\ PUNTERO \in Nat \ {0} /\ BLOCK_SIZE \in Nat \ {0}
  BY Necesidad, ConstantesDelFileSystem DEF TypeOK
<1> HIDE DEF E
<1>2. ASSUME IndiceBien(g) PROVE IndiceBien(g)'
  <2>1. ASSUME NEW n \in 1 .. Len(s) - 1, NEW m \in PUNTERO * (n - 1) .. PUNTERO * n - 1
        PROVE  disco'[s[1] * BLOCK_SIZE + m] = <<pedido[g], -n>>
    <3>1. disco[s[1] * BLOCK_SIZE + m] = <<pedido[g], -n>>
      BY <1>2 DEF IndiceBien
    <3>2. m \in 0 .. BLOCK_SIZE - 1
      BY <1>1, <2>1, Puntero
    <3> QED BY <3>1, <3>2, <1>1
  <2> QED BY <2>1 DEF IndiceBien
<1>3. ASSUME NEW i \in 2 .. j - 1, BloqueBien(g, i) PROVE BloqueBien(g, i)'
  <2>1. i \in 1 .. j - 1
    BY <1>1
  <2> QED BY <2>1, <1>3 DEF BloqueBien
<1> QED BY <1>2, <1>3

\* The dump in progress writes its index block inside the block, so on no other, and it
\* finds there is one: the head of its list is not NULL.
LEMMA IndiceEscrito ==
  ASSUME BloquesEnteros, InvArchivos, NEW h \in Volcados, EscribirIndice(h)
  PROVE  /\ pc'[h] = "datos" /\ pos'[h] = 2
         /\ UNCHANGED <<tam, archivos, pedido, asignados, bloques_libres>>
         /\ IndiceBien(h)'
         /\ 1 \in 1 .. Len(asignados[h])
         /\ \A c \in Bloques : c # asignados[h][1] => \A r \in 0 .. BLOCK_SIZE - 1 :
              disco'[c * BLOCK_SIZE + r] = disco[c * BLOCK_SIZE + r]
<1> DEFINE s == asignados[h]
           E == Enteros(tam[pedido[h]])
           f == [k \in 0 .. PUNTERO * (Len(s) - 1) - 1 |-> <<pedido[h], -1 - (k \div PUNTERO)>>]
           b == s[1]
<1>1. TypeOK /\ pc[h] = "indice" /\ pedido[h] \in Volcados /\ Len(s) = Necesita(h)
  BY DEF InvArchivos, InvBloques, InvTipos, Tipado, Atendidos, Escritura, EscribirIndice, En
<1>2. /\ s \in Seq(Bloques) /\ Len(s) = E + 1 /\ E \in Nat /\ PUNTERO * E <= BLOCK_SIZE
      /\ PUNTERO \in Nat \ {0} /\ BLOCK_SIZE \in Nat \ {0} /\ PUNTERO * E \in Nat
  BY <1>1, Necesidad, ConstantesDelFileSystem DEF TypeOK
<1> HIDE DEF E
<1>3. 1 \in 1 .. Len(s) /\ b \in Bloques /\ s # <<>>
  BY <1>2
<1>4. /\ disco' = Escribir(b * BLOCK_SIZE, f) /\ pos' = [pos EXCEPT ![h] = 2] /\ Pasa(h, "datos")
      /\ UNCHANGED <<tam, archivos, pedido, asignados, bloques_libres>>
  BY <1>3 DEF EscribirIndice
<1>5. DOMAIN f = 0 .. PUNTERO * E - 1
  BY <1>2
<1>6. DOMAIN f \subseteq 0 .. BLOCK_SIZE - 1
  BY <1>2, <1>5
<1>7. \A k \in DOMAIN f : f[k] = <<pedido[h], -1 - (k \div PUNTERO)>>
  OBVIOUS
<1> HIDE DEF f, b
<1>8. /\ \A r \in DOMAIN f : disco'[b * BLOCK_SIZE + r] = f[r]
      /\ \A c \in Bloques : c # b => \A r \in 0 .. BLOCK_SIZE - 1 :
           disco'[c * BLOCK_SIZE + r] = disco[c * BLOCK_SIZE + r]
  BY <1>3, <1>4, <1>6, EscribirEnBloque
<1>9. IndiceBien(h)'
  <2>1. ASSUME NEW n \in 1 .. Len(s) - 1, NEW m \in PUNTERO * (n - 1) .. PUNTERO * n - 1
        PROVE  disco'[b * BLOCK_SIZE + m] = <<pedido[h], -n>>
    <3>1. m \in 0 .. PUNTERO * E - 1 /\ -1 - (m \div PUNTERO) = -n
      BY <1>2, <2>1, Puntero
    <3> QED BY <3>1, <1>5, <1>7, <1>8
  <2> QED BY <2>1, <1>4 DEF IndiceBien, b
<1>10. pc'[h] = "datos" /\ pos'[h] = 2
  BY <1>1, <1>4 DEF Pasa, TypeOK
<1> QED BY <1>3, <1>4, <1>8, <1>9, <1>10 DEF b

\* A data block is written whole, inside the block, and what was written before stays.
LEMMA BloqueEscrito ==
  ASSUME BloquesEnteros, InvArchivos, NEW h \in Volcados, EscribirBloque(h), pos[h] <= Len(asignados[h])
  PROVE  /\ pc'[h] = "datos" /\ pos'[h] = pos[h] + 1 /\ pos[h] \in 2 .. Len(asignados[h])
         /\ UNCHANGED <<tam, archivos, pedido, asignados, bloques_libres>>
         /\ IndiceBien(h)' /\ \A i \in 2 .. pos[h] : BloqueBien(h, i)'
         /\ \A c \in Bloques : c # asignados[h][pos[h]] => \A r \in 0 .. BLOCK_SIZE - 1 :
              disco'[c * BLOCK_SIZE + r] = disco[c * BLOCK_SIZE + r]
<1> PICK j : j = pos[h]
  OBVIOUS
<1> DEFINE s == asignados[h]
           t == tam[pedido[h]]
           E == Enteros(t)
           f == [k \in 0 .. LargoEscritura(t, Len(s), j) - 1 |-> <<pedido[h], Contenido(h, j) + k>>]
           b == s[j]
<1>1. /\ TypeOK /\ pc[h] = "datos" /\ pedido[h] \in Volcados /\ Len(s) = Necesita(h) /\ IsInjective(s)
      /\ pos[h] \in 2 .. Len(s) + 1 /\ IndiceBien(h) /\ \A i \in 2 .. j - 1 : BloqueBien(h, i)
  BY DEF InvArchivos, InvBloques, InvTipos, Tipado, Atendidos, Escritura, EscribirBloque, En
<1>2. /\ s \in Seq(Bloques) /\ Len(s) = E + 1 /\ E \in Nat /\ t = E * BLOCK_SIZE
      /\ PUNTERO \in Nat \ {0} /\ BLOCK_SIZE \in Nat \ {0}
  BY <1>1, Necesidad, ConstantesDelFileSystem DEF TypeOK
<1>3. j \in 2 .. Len(s) /\ b \in Bloques
  BY <1>1, <1>2
<1>4. /\ disco' = Escribir(b * BLOCK_SIZE, f) /\ pos' = [pos EXCEPT ![h] = j + 1] /\ UNCHANGED pc
      /\ UNCHANGED <<tam, archivos, pedido, asignados, bloques_libres>>
  BY <1>2, <1>3 DEF EscribirBloque, conexiones
<1> HIDE DEF E
<1>5. LargoEscritura(t, Len(s), j) = BLOCK_SIZE
  <2>1. CASE j = Len(s)
    <3>1. E * BLOCK_SIZE \in Int /\ (Len(s) - 2) * BLOCK_SIZE = E * BLOCK_SIZE - BLOCK_SIZE
      <4>1. E \in Int /\ BLOCK_SIZE \in Int /\ Len(s) - 2 = E - 1
        BY <1>2
      <4>2. E * BLOCK_SIZE \in Int /\ (E - 1) * BLOCK_SIZE = E * BLOCK_SIZE - BLOCK_SIZE
        BY ONLY <4>1
      <4> QED BY <4>1, <4>2
    <3> HIDE DEF t
    <3>2. t - (Len(s) - 2) * BLOCK_SIZE = BLOCK_SIZE
      BY <3>1, <1>2
    <3> QED BY <3>2, <2>1 DEF LargoEscritura
  <2> QED BY <2>1 DEF LargoEscritura
<1>6. /\ DOMAIN f = 0 .. BLOCK_SIZE - 1
      /\ \A k \in 0 .. BLOCK_SIZE - 1 : f[k] = <<pedido[h], (j - 2) * BLOCK_SIZE + k>>
  BY <1>5 DEF Contenido
<1> HIDE DEF f, b
<1>7. /\ \A r \in 0 .. BLOCK_SIZE - 1 : disco'[b * BLOCK_SIZE + r] = f[r]
      /\ \A c \in Bloques : c # b => \A r \in 0 .. BLOCK_SIZE - 1 :
           disco'[c * BLOCK_SIZE + r] = disco[c * BLOCK_SIZE + r]
  <2>1. DOMAIN f \subseteq 0 .. BLOCK_SIZE - 1 /\ disco' = Escribir(b * BLOCK_SIZE, f)
    BY <1>4, <1>6
  <2>2. /\ \A r \in DOMAIN f : disco'[b * BLOCK_SIZE + r] = f[r]
        /\ \A c \in Bloques : c # b => \A r \in 0 .. BLOCK_SIZE - 1 :
             disco'[c * BLOCK_SIZE + r] = disco[c * BLOCK_SIZE + r]
    BY <1>3, <2>1, EscribirEnBloque
  <2> QED BY <2>2, <1>6
<1>8. \A i \in 1 .. j - 1 : s[i] \in Bloques /\ s[i] # b
  BY <1>1, <1>2, <1>3 DEF IsInjective, b
<1>9. IndiceBien(h)' /\ \A i \in 2 .. j - 1 : BloqueBien(h, i)'
  <2>1. j \in 2 .. Len(s) + 1 /\ UNCHANGED <<asignados, pedido>>
    BY <1>2, <1>3, <1>4
  <2>2. \A i \in 1 .. j - 1 : \A r \in 0 .. BLOCK_SIZE - 1 :
           disco'[s[i] * BLOCK_SIZE + r] = disco[s[i] * BLOCK_SIZE + r]
    BY <1>7, <1>8
  <2>3. /\ IndiceBien(h) => IndiceBien(h)'
        /\ \A i \in 2 .. j - 1 : BloqueBien(h, i) => BloqueBien(h, i)'
    BY <1>1, <2>1, <2>2, EscritoQueda
  <2> QED BY <2>3, <1>1
<1>10. BloqueBien(h, j)'
  BY <1>4, <1>6, <1>7 DEF BloqueBien, b
<1>11. pc'[h] = "datos" /\ pos'[h] = j + 1
  BY <1>1, <1>4 DEF TypeOK
<1>12. \A i \in 2 .. j : i = j \/ i \in 2 .. j - 1
  BY <1>2, <1>3
<1> QED BY <1>3, <1>4, <1>7, <1>9, <1>10, <1>11, <1>12 DEF b

-----------------------------------------------------------------------------
(* The files, with one dump at a time *)

\* There are finitely many blocks to look at.
LEMMA PorVerFinito ==
  ASSUME NEW K \in SUBSET Bloques
  PROVE  IsFiniteSet(K) /\ Cardinality(K) \in Nat
<1>1. IsFiniteSet(Bloques)
  BY ConstantesDelFileSystem, FS_Interval DEF Bloques
<1> QED BY <1>1, FS_Subset, FS_CardinalityType

\* The dump in progress finds the blocks it counted, and writes on its own.
LEMMA EscrituraDelHilo ==
  ASSUME Simultaneos = 1, BloquesEnteros, InvArchivos, InvBloques',
         NEW h \in Volcados, Aceptar(h) \/ Avanzar(h)
  PROVE  Escritura(h)'
<1>1. /\ TypeOK /\ TypeOK' /\ Tipado(h) /\ Escritura(h)
      /\ (h \in archivos => pc[h] \in {"responde", "fin", "perdido"})
  BY DEF InvArchivos, InvBloques, InvTipos
<1>2. BLOCK_COUNT \in Nat /\ \A b \in Bloques : b \in Nat
  BY ConstantesDelFileSystem DEF Bloques
<1>3. CASE Aceptar(h) \/ Saludar(h) \/ Recibir(h)
  <2>1. /\ pc[h] \in SinPedido /\ pc'[h] \in {"aceptado", "creado", "cuenta", "espera", "fin"}
        /\ UNCHANGED <<archivos, bloques_libres, pos, visto, asignados>>
    BY <1>1, <1>3 DEF Aceptar, Saludar, Recibir, En, Pasa, permanente, conexiones, TypeOK, SinPedido
  <2>2. h \notin archivos' /\ pos'[h] = 0 /\ visto'[h] = {}
    BY <1>1, <2>1 DEF Tipado, SinPedido
  <2>3. visto'[h] = {b \in bloques_libres' : b < pos'[h]}
    BY <1>1, <1>2, <2>1, <2>2 DEF TypeOK
  <2> QED BY <1>1, <2>1, <2>2, <2>3 DEF Escritura, Asignando
<1>11. CASE ContarBit(h)
  <2> DEFINE p == pos[h]
  <2>1. /\ pc[h] = "cuenta" /\ pc' = pc /\ h \notin archivos' /\ p \in Nat
        /\ visto[h] = {b \in bloques_libres : b < p}
        /\ UNCHANGED <<archivos, bloques_libres, asignados>>
        /\ visto'[h] = visto[h] \cup ({p} \cap bloques_libres) /\ pos'[h] = p + 1
    BY <1>1, <1>11 DEF ContarBit, En, Escritura, permanente, conexiones, TypeOK
  <2>2. \A b \in bloques_libres : b < p + 1 <=> b < p \/ b = p
    BY <1>1, <1>2, <2>1 DEF TypeOK
  <2>3. visto'[h] = {b \in bloques_libres' : b < pos'[h]}
    <3> HIDE DEF p
    <3> QED BY <2>1, <2>2
  <2> QED BY <1>1, <2>1, <2>3 DEF Escritura, Asignando
<1>4. CASE Contar(h)
  <2>1. /\ pc[h] = "cuenta" /\ asignados[h] = <<>> /\ pos[h] = BLOCK_COUNT /\ pos'[h] = 0
        /\ pedido[h] \in Volcados /\ h \notin archivos
        /\ UNCHANGED <<tam, bloques_libres, archivos, pedido, asignados>>
    BY <1>1, <1>4 DEF Contar, En, Tipado, SinBloques, Atendidos, conexiones, permanente, TypeOK
  <2>2. visto[h] = bloques_libres
    <3>1. visto[h] = {b \in bloques_libres : b < BLOCK_COUNT}
      BY <1>1, <2>1 DEF Escritura
    <3>2. \A b \in bloques_libres : b < BLOCK_COUNT
      BY <1>1, <1>2 DEF TypeOK, Bloques
    <3> QED BY <3>1, <3>2
  <2>3. pc'[h] \in {"responde", "asigna"}
        /\ (pc'[h] = "asigna" => ~(Cardinality(Bloques \ bloques_libres) < Necesita(h)))
    BY <1>1, <1>4, <2>2 DEF Contar, Pasa, TypeOK
  <2>4. PorVer(h)' = Bloques \ bloques_libres
    BY <2>1, <1>2 DEF PorVer
  <2>5. Necesita(h)' = Necesita(h) /\ Necesita(h) \in Nat
    BY <1>1, <2>1, Necesidad DEF Necesita, Enteros
  <2>6. Cardinality(Bloques \ bloques_libres) \in Nat
    BY PorVerFinito
  <2>7. Len(asignados'[h]) = 0 /\ IsInjective(asignados'[h])
    BY <1>1, <2>1 DEF Escritura
  <2>8. pc'[h] = "asigna" =>
           /\ Len(asignados'[h]) <= Necesita(h)'
           /\ Cardinality(PorVer(h)') >= Necesita(h)' - Len(asignados'[h])
    BY <2>3, <2>4, <2>5, <2>6, <2>7
  <2> QED BY <2>1, <2>3, <2>7, <2>8 DEF Escritura, Asignando
<1>5. CASE Mirar(h) \/ LeerByte(h)
  <2>1. /\ pc[h] \in {"asigna", "marca"} /\ pedido[h] \in Volcados /\ h \notin archivos
        /\ UNCHANGED <<tam, bloques_libres, archivos, pedido, asignados>>
    BY <1>1, <1>5 DEF Mirar, LeerByte, En, Tipado, Atendidos, conexiones, permanente
  <2>2. Necesita(h)' = Necesita(h) /\ Necesita(h) \in Nat
    BY <1>1, <2>1, Necesidad DEF Necesita, Enteros
  <2>3. /\ Len(asignados[h]) <= Necesita(h) /\ IsInjective(asignados[h])
        /\ Cardinality(PorVer(h)) >= Necesita(h) - Len(asignados[h])
    BY <1>1, <2>1 DEF Escritura, Asignando
  <2>4. Len(asignados[h]) \in Nat /\ pos[h] \in Nat /\ Cardinality({}) = 0
    BY <1>1, <1>2, FS_EmptySet DEF TypeOK
  <2>5. CASE (pos[h] = BLOCK_COUNT \/ Len(asignados[h]) = Necesita(h)) /\ Pasa(h, "indice")
    <3>1. pos[h] = BLOCK_COUNT => PorVer(h) = {}
      BY <1>2 DEF PorVer, Bloques
    <3>2. Len(asignados[h]) = Necesita(h)
      <4>1. CASE pos[h] = BLOCK_COUNT
        <5>1. Cardinality(PorVer(h)) = 0
          BY <3>1, <4>1, <2>4
        <5> QED BY <5>1, <2>2, <2>3, <2>4
      <4> QED BY <4>1, <2>5
    <3>3. pc'[h] = "indice"
      BY <1>1, <2>5 DEF Pasa, TypeOK
    <3> QED BY <3>2, <3>3, <2>1, <2>2, <2>3 DEF Escritura, Asignando
  <2>6. CASE Mirar(h) /\ pos[h] \in bloques_libres /\ pos' = [pos EXCEPT ![h] = @ + 1] /\ UNCHANGED pc
    <3>1. pc'[h] = "asigna" /\ pos'[h] = pos[h] + 1
      BY <1>1, <2>6 DEF Mirar, En, TypeOK
    <3>2. \A b \in Bloques \ bloques_libres : b >= pos[h] + 1 <=> b >= pos[h]
      BY <1>2, <2>4, <2>6
    <3>3. PorVer(h)' = PorVer(h)
      BY <2>1, <3>1, <3>2 DEF PorVer
    <3> QED BY <3>1, <3>3, <2>1, <2>2, <2>3 DEF Escritura, Asignando
  <2>7. CASE \/ Len(asignados[h]) < Necesita(h) /\ Pasa(h, "marca") /\ UNCHANGED pos
             \/ LeerByte(h)
    <3>1. pc'[h] \in {"marca", "graba"} /\ pos'[h] = pos[h] /\ Len(asignados[h]) < Necesita(h)
      BY <1>1, <2>7 DEF LeerByte, En, Pasa, TypeOK, Escritura
    <3>2. PorVer(h)' = PorVer(h)
      BY <2>1, <3>1 DEF PorVer
    <3> QED BY <3>1, <3>2, <2>1, <2>2, <2>3 DEF Escritura, Asignando
  <2> QED BY <1>5, <2>5, <2>6, <2>7 DEF Mirar
<1>6. CASE Marcar(h)
  <2> DEFINE b == pos[h]
             s == asignados[h]
  <2>1. /\ pc[h] = "graba" /\ pedido[h] \in Volcados /\ h \notin archivos /\ h \in EnCurso /\ b \in Bloques
        /\ s \in Seq(Bloques) /\ UNCHANGED <<tam, archivos, pedido>>
        /\ asignados' = [asignados EXCEPT ![h] = Append(s, b)] /\ pos' = [pos EXCEPT ![h] = b + 1]
        /\ Pasa(h, "asigna")
    BY <1>1, <1>6 DEF Marcar, En, EnCurso, Tipado, Atendidos, conexiones, TypeOK
  <2>2. Necesita(h)' = Necesita(h) /\ Necesita(h) \in Nat
    BY <1>1, <2>1, Necesidad DEF Necesita, Enteros
  <2>3. /\ Len(s) < Necesita(h) /\ IsInjective(s) /\ Len(s) \in Nat
        /\ Cardinality(PorVer(h)) >= Necesita(h) - Len(s)
    BY <1>1, <2>1 DEF Escritura, Asignando
  <2>4. bloques_libres' = bloques_libres \cup {b} /\ b \notin bloques_libres
    BY <1>6, DuenosAlMarcar DEF InvArchivos
  <2>5. ToSet(s) \subseteq bloques_libres
    BY <2>1 DEF InvArchivos, InvBloques, SinDobleAsignacion
  <2>6. /\ pc'[h] = "asigna" /\ pos'[h] = b + 1 /\ asignados'[h] = Append(s, b)
        /\ Len(asignados'[h]) = Len(s) + 1
    BY <1>1, <2>1 DEF Pasa, TypeOK
  <2>7. IsInjective(asignados'[h])
    BY <2>1, <2>3, <2>4, <2>5, <2>6, ToSetAppend
  <2>8. PorVer(h)' = PorVer(h) \ {b} /\ b \in PorVer(h)
    <3>1. PorVer(h)' = {c \in Bloques \ (bloques_libres \cup {b}) : c >= b + 1}
      BY <2>4, <2>6 DEF PorVer
    <3>2. b \in Nat /\ \A c \in Bloques : c >= b + 1 <=> c >= b /\ c # b
      BY <2>1, <1>2
    <3>3. PorVer(h) = {c \in Bloques \ bloques_libres : c >= b} /\ b >= b
      BY <3>2 DEF PorVer
    <3> HIDE DEF b
    <3> QED BY <3>1, <3>2, <3>3, <2>1, <2>4
  <2>9. Cardinality(PorVer(h)') = Cardinality(PorVer(h)) - 1 /\ Cardinality(PorVer(h)) \in Nat
    <3>1. PorVer(h) \in SUBSET Bloques
      BY DEF PorVer
    <3> QED BY <3>1, <2>8, PorVerFinito, FS_RemoveElement
  <2> HIDE DEF b, s
  <2>10. /\ Len(asignados'[h]) <= Necesita(h)'
         /\ Cardinality(PorVer(h)') >= Necesita(h)' - Len(asignados'[h])
    BY <2>2, <2>3, <2>6, <2>9
  <2> QED BY <2>1, <2>6, <2>7, <2>10 DEF Escritura, Asignando
<1>7. CASE EscribirIndice(h)
  <2>1. /\ pc'[h] = "datos" /\ pos'[h] = 2 /\ IndiceBien(h)' /\ 1 \in 1 .. Len(asignados[h])
        /\ UNCHANGED <<tam, archivos, pedido, asignados, bloques_libres>>
    BY <1>7, IndiceEscrito
  <2>2. /\ pc[h] = "indice" /\ Len(asignados[h]) = Necesita(h)
        /\ pedido[h] \in Volcados /\ IsInjective(asignados[h])
    BY <1>1, <1>7 DEF EscribirIndice, En, Escritura
  <2>3. Necesita(h)' = Necesita(h)
    BY <2>1 DEF Necesita, Enteros
  <2>4. pos'[h] \in 2 .. Len(asignados'[h]) + 1 /\ \A i \in 2 .. pos'[h] - 1 : FALSE
    BY <2>1, <1>1 DEF TypeOK
  <2>5. h \notin archivos'
    BY <1>1, <2>1, <2>2
  <2> QED BY <2>1, <2>2, <2>3, <2>4, <2>5 DEF Escritura, Asignando
<1>8. CASE EscribirBloque(h)
  <2>1. /\ pc[h] = "datos" /\ Len(asignados[h]) = Necesita(h)
        /\ pedido[h] \in Volcados /\ IsInjective(asignados[h])
        /\ pos[h] \in 2 .. Len(asignados[h]) + 1 /\ Len(asignados[h]) \in Nat
        /\ IndiceBien(h) /\ \A j \in 2 .. pos[h] - 1 : BloqueBien(h, j)
    BY <1>1, <1>8 DEF EscribirBloque, En, Escritura, TypeOK
  <2>2. CASE pos[h] <= Len(asignados[h])
    <3>1. /\ pc'[h] = "datos" /\ pos'[h] = pos[h] + 1 /\ pos[h] \in 2 .. Len(asignados[h])
          /\ UNCHANGED <<tam, archivos, pedido, asignados, bloques_libres>>
          /\ IndiceBien(h)' /\ \A i \in 2 .. pos[h] : BloqueBien(h, i)'
      BY <1>8, <2>2, BloqueEscrito
    <3>2. Necesita(h)' = Necesita(h) /\ h \notin archivos'
      BY <1>1, <2>1, <3>1 DEF Necesita, Enteros
    <3>3. pos'[h] \in 2 .. Len(asignados'[h]) + 1 /\ pos'[h] - 1 = pos[h]
      BY <2>1, <3>1
    <3>4. \A i \in 2 .. pos'[h] - 1 : BloqueBien(h, i)'
      BY <3>1, <3>3
    <3> QED BY <2>1, <3>1, <3>2, <3>3, <3>4 DEF Escritura, Asignando
  <2>3. CASE ~(pos[h] <= Len(asignados[h]))
    <3>1. /\ Pasa(h, "metadata") /\ UNCHANGED <<tam, archivos, pedido, asignados, disco>>
      BY <1>8, <2>3 DEF EscribirBloque, conexiones
    <3>2. pc'[h] = "metadata" /\ Necesita(h)' = Necesita(h) /\ h \notin archivos'
      BY <1>1, <2>1, <3>1 DEF Pasa, TypeOK, Necesita, Enteros
    <3>3. pos[h] - 1 = Len(asignados[h])
      BY <2>1, <2>3
    <3>4. IndiceBien(h)' /\ \A j \in 2 .. Len(asignados'[h]) : BloqueBien(h, j)'
      BY <2>1, <3>1, <3>3 DEF IndiceBien, BloqueBien
    <3> QED BY <2>1, <3>1, <3>2, <3>4 DEF Escritura, Asignando
  <2> QED BY <2>2, <2>3
<1>9. CASE crear_metadata(h) \/ EscribirMetadata(h) \/ Responder(h)
  <2>1. /\ pc[h] \in {"metadata", "llena", "responde"} /\ pc'[h] \in {"llena", "responde", "fin"}
        /\ (pc'[h] = "llena" => pc[h] = "metadata") /\ (h \in archivos' => h \in archivos \/ pc[h] = "llena")
        /\ UNCHANGED <<tam, pedido, asignados, disco>>
    BY <1>1, <1>9 DEF crear_metadata, EscribirMetadata, Responder, En, Pasa, TypeOK, conexiones, permanente
  <2>2. IsInjective(asignados'[h]) /\ Necesita(h)' = Necesita(h)
    BY <1>1, <2>1 DEF Escritura, Necesita, Enteros
  <2>3. pc'[h] = "llena" \/ h \in archivos' =>
           /\ Len(asignados'[h]) = Necesita(h)' /\ pedido'[h] \in Volcados
           /\ IndiceBien(h)' /\ \A j \in 2 .. Len(asignados'[h]) : BloqueBien(h, j)'
    BY <1>1, <2>1, <2>2 DEF Escritura, IndiceBien, BloqueBien
  <2> QED BY <2>1, <2>2, <2>3 DEF Escritura, Asignando
<1> QED BY <1>3, <1>4, <1>5, <1>6, <1>7, <1>8, <1>9, <1>11 DEF Avanzar

\* What a file holds depends on its own blocks only.
LEMMA EscrituraQueda ==
  ASSUME BloquesEnteros, InvArchivos, NEW g \in Volcados, pc'[g] \in {"sin_conectar", "fin", "perdido"},
         tam' = tam, asignados'[g] = asignados[g], pedido'[g] = pedido[g],
         g \in archivos' => g \in archivos,
         g \in archivos => \A i \in 1 .. Len(asignados[g]) : \A r \in 0 .. BLOCK_SIZE - 1 :
           disco'[asignados[g][i] * BLOCK_SIZE + r] = disco[asignados[g][i] * BLOCK_SIZE + r]
  PROVE  Escritura(g)'
<1>1. TypeOK /\ Escritura(g)
  BY DEF InvArchivos, InvBloques, InvTipos
<1>2. IsInjective(asignados'[g]) /\ Necesita(g)' = Necesita(g)
  BY <1>1 DEF Escritura, Necesita, Enteros
<1>3. ASSUME g \in archivos'
      PROVE  /\ Len(asignados'[g]) = Necesita(g)' /\ pedido'[g] \in Volcados
             /\ IndiceBien(g)' /\ \A j \in 2 .. Len(asignados'[g]) : BloqueBien(g, j)'
  <2> DEFINE n == Len(asignados[g])
             j == n + 1
  <2>1. /\ g \in archivos /\ n = Necesita(g) /\ pedido[g] \in Volcados
        /\ IndiceBien(g) /\ \A i \in 2 .. n : BloqueBien(g, i)
    BY <1>1, <1>3 DEF Escritura
  <2>2. n \in Nat /\ n >= 1
    BY <1>1, <2>1, Necesidad
  <2>3. j \in 2 .. n + 1 /\ j - 1 = n
    <3> HIDE DEF n
    <3> QED BY <2>2
  <2>4. /\ IndiceBien(g) => IndiceBien(g)'
        /\ \A i \in 2 .. j - 1 : BloqueBien(g, i) => BloqueBien(g, i)'
    <3>1. \A i \in 1 .. j - 1 : \A r \in 0 .. BLOCK_SIZE - 1 :
           disco'[asignados[g][i] * BLOCK_SIZE + r] = disco[asignados[g][i] * BLOCK_SIZE + r]
      BY <2>1, <2>3
    <3> HIDE DEF j
    <3> QED BY <1>1, <2>1, <2>3, <3>1, EscritoQueda
  <2> QED BY <1>2, <2>1, <2>3, <2>4
<1> QED BY <1>2, <1>3 DEF Escritura, Asignando

\* The dump in progress writes on no block of a file.
LEMMA EscrituraAjena ==
  ASSUME Simultaneos = 1, BloquesEnteros, InvArchivos, NEW h \in Volcados, Aceptar(h) \/ Avanzar(h),
         NEW g \in Volcados, g # h
  PROVE  Escritura(g)'
<1>1. InvBloques /\ TypeOK
  BY DEF InvArchivos, InvBloques, InvTipos
<1>2. /\ pc[g] \in {"sin_conectar", "fin", "perdido"} /\ pc'[g] = pc[g]
      /\ asignados'[g] = asignados[g] /\ pedido'[g] = pedido[g]
  BY <1>1, UnoSolo, SoloSuHilo
<1>3. g \in archivos => \A i \in 1 .. Len(asignados[g]) :
        /\ asignados[g][i] \in Bloques
        /\ h \in EnCurso => \A j \in 1 .. Len(asignados[h]) : asignados[g][i] # asignados[h][j]
  <2>1. /\ asignados[g] \in Seq(Bloques) /\ asignados[h] \in Seq(Bloques)
        /\ DOMAIN asignados[g] = 1 .. Len(asignados[g]) /\ DOMAIN asignados[h] = 1 .. Len(asignados[h])
    BY <1>1 DEF TypeOK
  <2>2. g \in archivos /\ h \in EnCurso => ToSet(asignados[g]) \cap ToSet(asignados[h]) = {}
    BY <1>1 DEF InvBloques, SinDobleAsignacion
  <2>3. \A i \in 1 .. Len(asignados[g]) : asignados[g][i] \in Bloques /\ asignados[g][i] \in ToSet(asignados[g])
    BY <2>1 DEF ToSet
  <2>4. \A j \in 1 .. Len(asignados[h]) : asignados[h][j] \in ToSet(asignados[h])
    BY <2>1 DEF ToSet
  <2> QED BY <2>2, <2>3, <2>4
<1>4. CASE EscribirIndice(h)
  <2>1. h \in EnCurso
    BY <1>4 DEF EscribirIndice, En, EnCurso
  <2>2. /\ UNCHANGED <<tam, archivos>> /\ 1 \in 1 .. Len(asignados[h])
        /\ \A c \in Bloques : c # asignados[h][1] => \A r \in 0 .. BLOCK_SIZE - 1 :
              disco'[c * BLOCK_SIZE + r] = disco[c * BLOCK_SIZE + r]
    BY <1>4, IndiceEscrito
  <2>3. g \in archivos => \A i \in 1 .. Len(asignados[g]) : \A r \in 0 .. BLOCK_SIZE - 1 :
           disco'[asignados[g][i] * BLOCK_SIZE + r] = disco[asignados[g][i] * BLOCK_SIZE + r]
    BY <1>3, <2>1, <2>2
  <2> QED BY <1>2, <2>2, <2>3, EscrituraQueda
<1>5. CASE EscribirBloque(h) /\ pos[h] <= Len(asignados[h])
  <2>1. h \in EnCurso
    BY <1>5 DEF EscribirBloque, En, EnCurso
  <2>2. /\ UNCHANGED <<tam, archivos>> /\ pos[h] \in 2 .. Len(asignados[h])
        /\ \A c \in Bloques : c # asignados[h][pos[h]] => \A r \in 0 .. BLOCK_SIZE - 1 :
              disco'[c * BLOCK_SIZE + r] = disco[c * BLOCK_SIZE + r]
    BY <1>5, BloqueEscrito
  <2>3. pos[h] \in 1 .. Len(asignados[h])
    BY <2>2, <1>1 DEF TypeOK
  <2>4. g \in archivos => \A i \in 1 .. Len(asignados[g]) : \A r \in 0 .. BLOCK_SIZE - 1 :
           disco'[asignados[g][i] * BLOCK_SIZE + r] = disco[asignados[g][i] * BLOCK_SIZE + r]
    BY <1>3, <2>1, <2>2, <2>3
  <2> QED BY <1>2, <2>2, <2>4, EscrituraQueda
<1>6. ASSUME tam' = tam, disco' = disco, archivos' \subseteq archivos \cup {h} PROVE Escritura(g)'
  BY <1>2, <1>6, EscrituraQueda
<1>7. CASE Aceptar(h)
  BY <1>6, <1>7 DEF Aceptar, permanente
<1>8. CASE Saludar(h) \/ Recibir(h)
  BY <1>6, <1>8 DEF Saludar, Recibir, permanente, conexiones
<1>9. CASE ContarBit(h) \/ Contar(h) \/ Mirar(h) \/ LeerByte(h) \/ Responder(h)
  BY <1>6, <1>9 DEF ContarBit, Contar, Mirar, LeerByte, Responder, permanente, conexiones
<1>10. CASE Marcar(h) \/ crear_metadata(h) \/ EscribirMetadata(h)
  BY <1>6, <1>10 DEF Marcar, crear_metadata, EscribirMetadata, conexiones
<1>11. CASE EscribirBloque(h) /\ ~(pos[h] <= Len(asignados[h]))
  BY <1>6, <1>11 DEF EscribirBloque, conexiones
<1> QED BY <1>4, <1>5, <1>7, <1>8, <1>9, <1>10, <1>11 DEF Avanzar

\* Nothing is written at the start.
LEMMA ArchivosIniciales == Init => InvArchivos
<1> SUFFICES ASSUME Init PROVE InvArchivos
  OBVIOUS
<1>1. InvBloques
  BY BloquesIniciales
<1>2. ASSUME NEW h \in Volcados PROVE Escritura(h)
  <2>1. asignados[h] = <<>> /\ pc[h] = "sin_conectar" /\ h \notin archivos
    BY DEF Init
  <2> QED BY <2>1 DEF Escritura, Asignando, IsInjective
<1> QED BY <1>1, <1>2 DEF InvArchivos

\* Every step keeps what the files hold.
LEMMA ArchivosPaso ==
  ASSUME Simultaneos = 1, BloquesEnteros PROVE InvArchivos /\ [Next]_vars => InvArchivos'
<1> SUFFICES ASSUME InvArchivos, [Next]_vars PROVE InvArchivos'
  OBVIOUS
<1>1. InvBloques'
  BY BloquesPaso DEF InvArchivos
<1>2. ASSUME NEW h \in Volcados, Aceptar(h) \/ Avanzar(h) PROVE InvArchivos'
  <2>1. Escritura(h)'
    BY <1>1, <1>2, EscrituraDelHilo
  <2>2. \A g \in Volcados : g # h => Escritura(g)'
    BY <1>2, EscrituraAjena
  <2> QED BY <1>1, <2>1, <2>2 DEF InvArchivos
<1>3. CASE Caer
  <2>1. UNCHANGED <<tam, archivos, disco, asignados, pedido>>
    BY <1>3 DEF Caer, permanente
  <2>2. \A g \in Volcados : pc'[g] \in {"sin_conectar", "fin", "perdido"}
    BY <1>3 DEF Caer, EnCurso, InvArchivos, InvBloques, InvTipos, TypeOK
  <2>3. \A g \in Volcados : Escritura(g)'
    BY <2>1, <2>2, EscrituraQueda
  <2> QED BY <1>1, <2>3 DEF InvArchivos
<1>4. CASE UNCHANGED vars
  <2>1. UNCHANGED <<tam, archivos, disco, bloques_libres, asignados, pedido, pc, pos, visto>>
    BY <1>4 DEF vars, hilo, permanente
  <2>2. ASSUME NEW g \in Volcados PROVE Escritura(g)'
    <3>1. Necesita(g)' = Necesita(g) /\ PorVer(g)' = PorVer(g)
      BY <2>1 DEF Necesita, Enteros, PorVer
    <3>2. Escritura(g)
      BY DEF InvArchivos
    <3> QED BY <2>1, <3>1, <3>2 DEF Escritura, Asignando, IndiceBien, BloqueBien
  <2> QED BY <1>1, <2>2 DEF InvArchivos
<1> QED BY <1>2, <1>3, <1>4 DEF Next

\* What was written is what is read through the index block.
LEMMA SeLee ==
  ASSUME BloquesEnteros, InvArchivos PROVE ArchivosLegibles
<1> SUFFICES ASSUME NEW h \in archivos, NEW k \in 0 .. tam[pedido[h]] - 1 PROVE ByteDe(h, k)
  BY DEF ArchivosLegibles
<1> DEFINE t == tam[pedido[h]]
           E == Enteros(t)
           q == k \div BLOCK_SIZE
           r == k % BLOCK_SIZE
           n == q + 1
<1>1. /\ TypeOK /\ h \in Volcados /\ pedido[h] \in Volcados /\ Len(asignados[h]) = Necesita(h)
      /\ IndiceBien(h) /\ \A j \in 2 .. Len(asignados[h]) : BloqueBien(h, j)
  BY DEF InvArchivos, InvBloques, InvTipos, TypeOK, Escritura
<1>2. /\ t \in Nat /\ t = E * BLOCK_SIZE /\ E \in Nat /\ Len(asignados[h]) = E + 1
      /\ BLOCK_SIZE \in Nat \ {0}
  BY <1>1, Necesidad, ConstantesDelFileSystem
<1> HIDE DEF t, E
<1>3. k \in Int /\ k >= 0 /\ k < t
  BY <1>2 DEF t
<1>4. q \in Int /\ r \in 0 .. BLOCK_SIZE - 1 /\ k = q * BLOCK_SIZE + r
  BY <1>2, <1>3, Division
<1> HIDE DEF q, r
<1>5. q >= 0 /\ q < E
  <2>1. q * BLOCK_SIZE + r >= 0 /\ q * BLOCK_SIZE + r < E * BLOCK_SIZE
    BY <1>2, <1>3, <1>4
  <2> QED BY <2>1, <1>2, <1>4, EntreBloques
<1>6. /\ n \in 1 .. Len(asignados[h]) - 1 /\ n + 1 \in 2 .. Len(asignados[h]) /\ (n + 1) - 2 = q
      /\ n < Len(asignados[h])
  BY <1>2, <1>4, <1>5
<1> HIDE DEF n
<1>7. \A m \in PUNTERO * (n - 1) .. PUNTERO * n - 1 :
        disco[asignados[h][1] * BLOCK_SIZE + m] = <<pedido[h], -n>>
  BY <1>1, <1>6 DEF IndiceBien
<1>8. disco[asignados[h][n + 1] * BLOCK_SIZE + r] = <<pedido[h], k>>
  BY <1>1, <1>4, <1>6 DEF BloqueBien
<1> QED BY <1>6, <1>7, <1>8 DEF ByteDe, n, q, r

\* With one dump at a time, and sizes of whole blocks whose pointers fit in the index block,
\* every file can be read whole through its index block, for ever: whatever the number and
\* the size of the blocks, the dumps refused before it and the crashes.
THEOREM SeLeenEnteros ==
  ASSUME Simultaneos = 1, BloquesEnteros PROVE Spec => []ArchivosLegibles
<1>1. InvArchivos => ArchivosLegibles
  BY SeLee
<1>2. InvArchivos /\ [Next]_vars => InvArchivos'
  BY ArchivosPaso
<1> QED BY <1>1, <1>2, ArchivosIniciales, PTL DEF Spec

-----------------------------------------------------------------------------
(* When the disk has room for all *)

\* The blocks the dump of v takes, and those of all the dumps.
Pide(t, v) == (t[v] \div BLOCK_SIZE) + 1
Suma(t) == FoldSet(LAMBDA h, n : n + (t[h] \div BLOCK_SIZE) + 1, 0, Volcados)

\* A nonempty family of sets of dumps has a smallest one.
LEMMA MenorConjunto ==
  ASSUME NEW M \in SUBSET SUBSET Volcados, M # {}
  PROVE  \E s \in M : \A x \in s : s \ {x} \notin M
<1> DEFINE R == StrictSubsetOrdering(Volcados)
<1>1. IsWellFoundedOn(R, FiniteSubsetsOf(Volcados))
  BY FS_StrictSubsetOrderingWellFounded
<1>2. M \subseteq FiniteSubsetsOf(Volcados)
  BY FS_Subset, ConstantesDelFileSystem DEF FiniteSubsetsOf
<1>3. PICK s \in M : \A y \in M : ~ (<<y, s>> \in R)
  <2> HIDE DEF R
  <2> QED BY <1>1, <1>2, WFMin
<1>4. ASSUME NEW x \in s, s \ {x} \in M PROVE FALSE
  <2>1. <<s \ {x}, s>> \in R
    BY <1>4 DEF StrictSubsetOrdering
  <2> QED BY <2>1, <1>3, <1>4
<1> QED BY <1>3, <1>4

\* One pair for each block a dump takes.
Fila(t, v) == {v} \X (1 .. Pide(t, v))
Pares(t, s) == UNION {Fila(t, v) : v \in s}

\* A dump takes a block at least, the index.
LEMMA PideAlgo ==
  ASSUME NEW t \in [Volcados -> Tamanios], NEW v \in Volcados
  PROVE  Pide(t, v) \in Nat /\ Pide(t, v) >= 1
<1>1. t[v] \in Nat /\ BLOCK_SIZE \in Nat /\ BLOCK_SIZE >= 1
  <2>1. BLOCK_SIZE \in Nat \ {0}
    BY ConstantesDelFileSystem
  <2>2. t[v] \in Tamanios
    OBVIOUS
  <2>3. t[v] \in Nat
    BY <2>2, ConstantesDelFileSystem, Zenon
  <2> QED BY <2>1, <2>3
<1>2. t[v] \div BLOCK_SIZE \in Nat
  BY <1>1
<1> QED BY <1>2 DEF Pide

\* It has as many pairs.
LEMMA FilaCuenta ==
  ASSUME NEW t \in [Volcados -> Tamanios], NEW v \in Volcados
  PROVE  IsFiniteSet(Fila(t, v)) /\ Cardinality(Fila(t, v)) = Pide(t, v)
<1> DEFINE I == 1 .. Pide(t, v)
           f == [i \in I |-> <<v, i>>]
<1>1. Pide(t, v) \in Nat /\ Pide(t, v) >= 1
  BY PideAlgo
<1>2. IsFiniteSet(I) /\ Cardinality(I) = Pide(t, v)
  <2>1. 1 \in Int /\ Pide(t, v) \in Int
    BY <1>1
  <2>2. /\ IsFiniteSet(1 .. Pide(t, v))
        /\ Cardinality(1 .. Pide(t, v)) = IF 1 > Pide(t, v) THEN 0 ELSE Pide(t, v) - 1 + 1
    BY ONLY <2>1, FS_Interval
  <2> QED BY <1>1, <2>2
<1>3. Fila(t, v) = {<<v, i>> : i \in I}
  BY DEF Fila
<1> HIDE DEF I
<1>4. f \in Surjection(I, Fila(t, v)) /\ f \in Injection(I, Fila(t, v))
  BY <1>3 DEF Surjection, Injection, IsInjective
<1> HIDE DEF f
<1> QED BY <1>2, <1>4, FS_Surjection

\* The pairs of some dumps and one more.
LEMMA ParesUnoMas ==
  ASSUME NEW t \in [Volcados -> Tamanios], NEW s \in SUBSET Volcados, NEW x \in s,
         IsFiniteSet(Pares(t, s \ {x}))
  PROVE  /\ IsFiniteSet(Pares(t, s))
         /\ Cardinality(Pares(t, s)) = Cardinality(Pares(t, s \ {x})) + Pide(t, x)
<1>1. Pares(t, s) = Pares(t, s \ {x}) \cup Fila(t, x)
  BY DEF Pares
<1>2. Pares(t, s \ {x}) \cap Fila(t, x) = {}
  BY DEF Pares, Fila
<1>3. IsFiniteSet(Fila(t, x)) /\ Cardinality(Fila(t, x)) = Pide(t, x)
  BY FilaCuenta
<1> DEFINE A == Pares(t, s \ {x})
           B == Fila(t, x)
<1>4. /\ IsFiniteSet(Pares(t, s))
      /\ Cardinality(Pares(t, s)) = Cardinality(Pares(t, s \ {x})) + Pide(t, x) - Cardinality({})
  <2>1. IsFiniteSet(A) /\ IsFiniteSet(B)
    BY <1>3
  <2> HIDE DEF A, B
  <2>2. /\ IsFiniteSet(A \cup B)
        /\ Cardinality(A \cup B) = Cardinality(A) + Cardinality(B) - Cardinality(A \cap B)
    BY ONLY <2>1, FS_Union
  <2> USE DEF A, B
  <2> QED BY <1>1, <1>2, <1>3, <2>2
<1> HIDE DEF A, B
<1>5. Cardinality({}) = 0
  BY FS_EmptySet
<1>6. Cardinality(Pares(t, s \ {x})) \in Nat /\ Pide(t, x) \in Nat
  BY FS_CardinalityType, PideAlgo
<1> QED BY <1>4, <1>5, <1>6

\* They are finitely many.
LEMMA ParesFinito ==
  ASSUME NEW t \in [Volcados -> Tamanios]
  PROVE  \A s \in SUBSET Volcados : IsFiniteSet(Pares(t, s))
<1> DEFINE M == {s \in SUBSET Volcados : ~ IsFiniteSet(Pares(t, s))}
<1> SUFFICES ASSUME M # {} PROVE FALSE
  OBVIOUS
<1>1. PICK s \in M : \A x \in s : s \ {x} \notin M
  BY MenorConjunto
<1>2. CASE s = {}
  <2>1. Pares(t, s) = {}
    BY <1>2 DEF Pares
  <2> QED BY <2>1, FS_EmptySet
<1>3. CASE s # {}
  <2>1. PICK x \in s : TRUE
    BY <1>3
  <2>2. IsFiniteSet(Pares(t, s \ {x}))
    BY <1>1, <2>1
  <2> QED BY <2>1, <2>2, ParesUnoMas
<1> QED BY <1>2, <1>3

\* The sum is a function on the sets of dumps: it adds one dump at a time.
LEMMA SumaPorPasos ==
  ASSUME NEW t \in [Volcados -> Tamanios]
  PROVE  \E f \in [SUBSET Volcados -> Nat] :
           /\ f[{}] = 0
           /\ \A s \in SUBSET Volcados : s # {} => \E x \in s : f[s] = f[s \ {x}] + Pide(t, x)
           /\ f[Volcados] = Suma(t)
<1> DEFINE Elige(s) == CHOOSE x \in s : TRUE
           Bien(f) == f = [s \in SUBSET Volcados |->
                             IF s = {} THEN 0
                             ELSE f[s \ {Elige(s)}] + (t[Elige(s)] \div BLOCK_SIZE) + 1]
           c == [s \in SUBSET Volcados |-> Cardinality(Pares(t, s))]
           g == CHOOSE f : Bien(f)
<1>1. \A s \in SUBSET Volcados : s # {} => Elige(s) \in s
  OBVIOUS
<1>2. Suma(t) = g[Volcados]
  BY DEF Suma, FoldSet, MapThenFoldSet
<1> HIDE DEF Elige, g
<1>3. c \in [SUBSET Volcados -> Nat]
  BY ParesFinito, FS_CardinalityType
<1>4. c[{}] = 0
  <2>1. Pares(t, {}) = {}
    BY DEF Pares
  <2> QED BY <2>1, FS_EmptySet
<1>5. \A s \in SUBSET Volcados : \A x \in s : c[s] = c[s \ {x}] + Pide(t, x)
  BY ParesFinito, ParesUnoMas
<1> HIDE DEF c
<1>6. ASSUME NEW s \in SUBSET Volcados, NEW x \in s
      PROVE  c[s] = c[s \ {x}] + (t[x] \div BLOCK_SIZE) + 1
  <2>1. c[s] = c[s \ {x}] + Pide(t, x)
    BY <1>5
  <2>2. c[s \ {x}] \in Nat /\ Pide(t, x) \in Nat
    BY <1>3, PideAlgo
  <2>3. t[x] \div BLOCK_SIZE \in Int
    <3>1. t[x] \in Nat
      BY ConstantesDelFileSystem, Zenon
    <3>2. BLOCK_SIZE \in Nat \ {0}
      BY ConstantesDelFileSystem
    <3> QED BY <3>1, <3>2
  <2>4. Pide(t, x) = (t[x] \div BLOCK_SIZE) + 1
    BY DEF Pide
  <2> QED BY ONLY <2>1, <2>2, <2>3, <2>4
<1>7. Bien(c)
  <2>1. ASSUME NEW s \in SUBSET Volcados
        PROVE  c[s] = IF s = {} THEN 0 ELSE c[s \ {Elige(s)}] + (t[Elige(s)] \div BLOCK_SIZE) + 1
    BY <1>1, <1>4, <1>6
  <2> QED BY <1>3, <2>1
<1>8. Bien(g)
  BY <1>7 DEF g
<1>9. \A s \in SUBSET Volcados :
        g[s] = IF s = {} THEN 0 ELSE g[s \ {Elige(s)}] + (t[Elige(s)] \div BLOCK_SIZE) + 1
  BY <1>8
<1>10. \A s \in SUBSET Volcados : g[s] = c[s]
  <2> DEFINE M == {s \in SUBSET Volcados : g[s] # c[s]}
  <2> SUFFICES ASSUME M # {} PROVE FALSE
    OBVIOUS
  <2>1. PICK s \in M : \A x \in s : s \ {x} \notin M
    BY MenorConjunto
  <2>2. s # {}
    BY <1>4, <1>9
  <2>3. Elige(s) \in s
    BY <1>1, <2>2
  <2>4. g[s \ {Elige(s)}] = c[s \ {Elige(s)}]
    BY <2>1, <2>3
  <2> QED BY <1>6, <1>9, <2>2, <2>3, <2>4
<1>11. \A s \in SUBSET Volcados : s # {} => \E x \in s : c[s] = c[s \ {x}] + Pide(t, x)
  BY <1>1, <1>5
<1> HIDE DEF Bien
<1> QED BY <1>2, <1>3, <1>4, <1>10, <1>11

\* Sets, one for each dump and none larger than what the dump takes, have together no
\* more elements than the sum.
LEMMA CabenEn ==
  ASSUME NEW t \in [Volcados -> Tamanios], NEW A,
         \A v \in Volcados : IsFiniteSet(A[v]) /\ Cardinality(A[v]) <= Pide(t, v)
  PROVE  /\ IsFiniteSet(UNION {A[v] : v \in Volcados})
         /\ Cardinality(UNION {A[v] : v \in Volcados}) <= Suma(t)
<1> DEFINE U(s) == UNION {A[v] : v \in s}
<1>1. PICK f \in [SUBSET Volcados -> Nat] :
        /\ f[{}] = 0
        /\ \A s \in SUBSET Volcados : s # {} => \E x \in s : f[s] = f[s \ {x}] + Pide(t, x)
        /\ f[Volcados] = Suma(t)
  BY SumaPorPasos
<1> DEFINE M == {s \in SUBSET Volcados : ~ (IsFiniteSet(U(s)) /\ Cardinality(U(s)) <= f[s])}
<1>2. ASSUME M # {} PROVE FALSE
  <2>1. PICK s \in M : \A x \in s : s \ {x} \notin M
    BY <1>2, MenorConjunto
  <2>2. CASE s = {}
    <3>1. U(s) = {}
      BY <2>2
    <3>2. IsFiniteSet({}) /\ Cardinality({}) = 0
      BY FS_EmptySet
    <3>3. f[s] = 0
      BY <1>1, <2>2
    <3> HIDE DEF U
    <3>4. IsFiniteSet(U(s)) /\ Cardinality(U(s)) <= f[s]
      <4>1. IsFiniteSet(U(s)) /\ Cardinality(U(s)) = 0
        BY <3>1, <3>2
      <4> QED BY <3>3, <4>1
    <3> QED BY <2>1, <3>4
  <2>3. CASE s # {}
    <3>1. PICK x \in s : f[s] = f[s \ {x}] + Pide(t, x)
      BY <1>1, <2>1, <2>3
    <3> DEFINE B == U(s \ {x})
               C == A[x]
    <3>2. IsFiniteSet(B) /\ Cardinality(B) <= f[s \ {x}] /\ f[s \ {x}] \in Nat
      BY <1>1, <2>1, <3>1
    <3>3. IsFiniteSet(C) /\ Cardinality(C) <= Pide(t, x) /\ Pide(t, x) \in Nat
      BY <2>1, <3>1, PideAlgo
    <3>4. U(s) = B \cup C
      BY <2>1, <3>1
    <3> HIDE DEF B, C, U
    <3>5. /\ IsFiniteSet(B \cup C)
          /\ Cardinality(B \cup C) = Cardinality(B) + Cardinality(C) - Cardinality(B \cap C)
      BY <3>2, <3>3, FS_Union
    <3>6. Cardinality(B \cap C) \in Nat
      BY <3>2, FS_Intersection, FS_CardinalityType
    <3>7. Cardinality(B) \in Nat /\ Cardinality(C) \in Nat
      BY <3>2, <3>3, FS_CardinalityType
    <3>8. Cardinality(B \cup C) <= f[s]
      BY ONLY <3>1, <3>2, <3>3, <3>5, <3>6, <3>7
    <3> QED BY <2>1, <3>4, <3>5, <3>8
  <2> QED BY <2>2, <2>3
<1>3. Volcados \notin M
  BY <1>2
<1> QED BY <1>1, <1>3

\* The sum is a number.
LEMMA SumaTipo ==
  ASSUME NEW t \in [Volcados -> Tamanios]
  PROVE  Suma(t) \in Nat
<1>1. PICK f \in [SUBSET Volcados -> Nat] : f[Volcados] = Suma(t)
  BY SumaPorPasos
<1> QED BY <1>1

\* A sequence has no more elements than its length.
LEMMA CuantosElementos ==
  ASSUME NEW s \in Seq(Bloques)
  PROVE  IsFiniteSet(ToSet(s)) /\ Cardinality(ToSet(s)) <= Len(s)
<1> DEFINE f == [i \in 1 .. Len(s) |-> s[i]]
<1>1. Len(s) \in Nat /\ DOMAIN s = 1 .. Len(s)
  OBVIOUS
<1>2. f \in Surjection(1 .. Len(s), ToSet(s))
  BY <1>1 DEF Surjection, ToSet
<1> HIDE DEF f
<1>3. IsFiniteSet(1 .. Len(s)) /\ Cardinality(1 .. Len(s)) = Len(s)
  <2>1. 1 \in Int /\ Len(s) \in Int
    BY <1>1
  <2>2. /\ IsFiniteSet(1 .. Len(s))
        /\ Cardinality(1 .. Len(s)) = IF 1 > Len(s) THEN 0 ELSE Len(s) - 1 + 1
    BY ONLY <2>1, FS_Interval
  <2> QED BY <1>1, <2>2
<1> QED BY <1>2, <1>3, FS_Surjection

-----------------------------------------------------------------------------
\* What holds while the disk has room for all: nobody marks a bit of no thread, each
\* request is served by one thread, and a thread with no blocks yet saw only blocks of others.
Atiende(h) ==
  pc[h] \in {"cuenta", "asigna", "marca", "graba", "indice", "datos", "metadata", "llena", "responde"}
    \/ asignados[h] # <<>>
DeAlguno == UNION {ToSet(asignados[h]) : h \in Volcados}
Lugar(h) ==
  /\ Atiende(h) => pedido[h] \in tomados /\ Len(asignados[h]) <= Necesita(h)
  /\ visto[h] \subseteq DeAlguno
  /\ pc[h] = "asigna" /\ asignados[h] = <<>> => \A b \in Bloques : b < pos[h] => b \in DeAlguno
  /\ pc[h] \in {"marca", "graba"} => Len(asignados[h]) < Necesita(h)
  /\ pc[h] = "indice" => asignados[h] # <<>>
  /\ pc[h] = "responde" => h \in archivos
UnoPorPedido ==
  \A g, h \in Volcados : Atiende(g) /\ Atiende(h) /\ pedido[g] = pedido[h] => g = h
ConLugar ==
  /\ filesystem = "activo" /\ bloques_libres \subseteq DeAlguno /\ UnoPorPedido
  /\ \A h \in Volcados : respuesta[h] # "0" /\ Lugar(h)
InvLugar == InvTipos /\ (Suma(tam) <= BLOCK_COUNT => ConLugar)

\* Besides blocks of other dumps, there are as many as a thread that has none needs: theirs
\* are at most those of their dumps, and the sum has room for its own.
LEMMA HayLugar ==
  ASSUME InvTipos, ConLugar, Suma(tam) <= BLOCK_COUNT, NEW h \in Volcados,
         pc[h] \in {"cuenta", "asigna"}, asignados[h] = <<>>,
         NEW K \in SUBSET Bloques, K \subseteq DeAlguno
  PROVE  /\ Cardinality(Bloques \ K) \in Nat
         /\ Cardinality(Bloques \ K) >= Necesita(h)
         /\ Necesita(h) \in Nat /\ Necesita(h) >= 1
<1> DEFINE v == pedido[h]
           N == Necesita(h)
           Propios == -N .. -1
           De(w) == {g \in Volcados : asignados[g] # <<>> /\ pedido[g] = w}
           A == [w \in Volcados |->
                   IF w = v THEN Propios ELSE UNION {ToSet(asignados[g]) : g \in De(w)}]
           Todos == UNION {A[w] : w \in Volcados}
<1>1. /\ tam \in [Volcados -> Tamanios]
      /\ asignados \in [Volcados -> Seq(Bloques)] /\ tomados \subseteq Volcados
  BY DEF InvTipos, TypeOK
<1>2. \A g \in Volcados : Atiende(g) => /\ pedido[g] \in Volcados
                                       /\ Len(asignados[g]) <= Necesita(g)
                                       /\ Necesita(g) = Pide(tam, pedido[g])
  BY <1>1 DEF ConLugar, Lugar, Necesita, Enteros, Pide
<1>3. v \in Volcados /\ N = Pide(tam, v) /\ N \in Nat /\ N >= 1
  <2>1. Atiende(h)
    BY DEF Atiende
  <2> QED BY <1>1, <1>2, <2>1, PideAlgo
<1>4. IsFiniteSet(Propios) /\ Cardinality(Propios) = N
  <2> HIDE DEF N
  <2>1. -N \in Int /\ -1 \in Int
    BY <1>3
  <2>2. /\ IsFiniteSet(-N .. -1)
        /\ Cardinality(-N .. -1) = IF -N > -1 THEN 0 ELSE -1 - (-N) + 1
    BY ONLY <2>1, FS_Interval
  <2> QED BY <1>3, <2>2
<1>5. ASSUME NEW w \in Volcados PROVE IsFiniteSet(A[w]) /\ Cardinality(A[w]) <= Pide(tam, w)
  <2>1. CASE w = v
    BY <1>3, <1>4, <2>1
  <2>2. CASE w # v /\ De(w) = {}
    <3>1. A[w] = {}
      BY <2>2
    <3> HIDE DEF A
    <3>2. IsFiniteSet(A[w]) /\ Cardinality(A[w]) = 0
      BY <3>1, FS_EmptySet
    <3>3. Pide(tam, w) \in Nat
      BY <1>1, PideAlgo
    <3> QED BY <3>2, <3>3
  <2>3. CASE w # v /\ De(w) # {}
    <3>1. PICK g \in De(w) : TRUE
      BY <2>3
    <3>2. Atiende(g) /\ pedido[g] = w /\ \A i \in De(w) : i = g
      BY <3>1 DEF Atiende, ConLugar, UnoPorPedido
    <3>3. A[w] = ToSet(asignados[g])
      BY <2>3, <3>1, <3>2
    <3>4. asignados[g] \in Seq(Bloques) /\ Len(asignados[g]) \in Nat
      BY <1>1, <3>1
    <3>5. Len(asignados[g]) <= Pide(tam, w)
      BY <1>2, <3>1, <3>2
    <3>6. IsFiniteSet(A[w]) /\ Cardinality(A[w]) <= Len(asignados[g])
      BY <3>3, <3>4, CuantosElementos
    <3>7. Cardinality(A[w]) \in Nat /\ Pide(tam, w) \in Nat
      BY <1>1, <3>6, FS_CardinalityType, PideAlgo
    <3> QED BY ONLY <3>4, <3>5, <3>6, <3>7
  <2> QED BY <2>1, <2>2, <2>3
<1>6. K \cup Propios \subseteq Todos
  <2>1. Propios \subseteq Todos
    BY <1>3
  <2>2. ASSUME NEW b \in K PROVE b \in Todos
    <3>1. PICK g \in Volcados : b \in ToSet(asignados[g])
      BY DEF DeAlguno
    <3>2. asignados[g] # <<>> /\ Atiende(g)
      BY <3>1 DEF ToSet, Atiende
    <3>3. g # h /\ pedido[g] # v
      BY <3>2 DEF ConLugar, UnoPorPedido, Atiende
    <3>4. pedido[g] \in Volcados /\ g \in De(pedido[g])
      BY <1>2, <3>2
    <3>5. b \in A[pedido[g]]
      BY <3>1, <3>3, <3>4
    <3> HIDE DEF A
    <3> QED BY <3>4, <3>5
  <2> QED BY <2>1, <2>2
<1>7. IsFiniteSet(Todos) /\ Cardinality(Todos) <= Suma(tam)
  <2> HIDE DEF A
  <2> QED BY <1>1, <1>5, CabenEn
<1>8. BLOCK_COUNT \in Nat /\ Suma(tam) \in Nat
  BY <1>1, SumaTipo, ConstantesDelFileSystem
<1>9. IsFiniteSet(Bloques) /\ Cardinality(Bloques) = BLOCK_COUNT
  <2>1. 0 \in Int /\ BLOCK_COUNT - 1 \in Int
    BY <1>8
  <2>2. /\ IsFiniteSet(0 .. BLOCK_COUNT - 1)
        /\ Cardinality(0 .. BLOCK_COUNT - 1) =
             IF 0 > BLOCK_COUNT - 1 THEN 0 ELSE BLOCK_COUNT - 1 - 0 + 1
    BY ONLY <2>1, FS_Interval
  <2> QED BY <1>8, <2>2 DEF Bloques
<1>10. K \cap Propios = {}
  <2>1. \A b \in Bloques : b \in Int /\ b >= 0
    BY <1>8 DEF Bloques
  <2>2. \A b \in Propios : b \in Int /\ b < 0
    BY <1>3
  <2> HIDE DEF Propios
  <2> QED BY <1>1, <2>1, <2>2
<1> HIDE DEF N, Propios, Todos
<1>11. IsFiniteSet(K) /\ Cardinality(K) \in Nat
  BY <1>1, <1>9, FS_Subset, FS_CardinalityType
<1>12. /\ IsFiniteSet(K \cup Propios)
       /\ Cardinality(K \cup Propios)
            = Cardinality(K) + Cardinality(Propios)
                - Cardinality(K \cap Propios)
  BY <1>4, <1>11, FS_Union
<1>13. Cardinality({}) = 0
  BY FS_EmptySet
<1>14. Cardinality(K \cup Propios) <= Cardinality(Todos)
  BY <1>6, <1>7, FS_Subset
<1>15. /\ IsFiniteSet(Bloques \ K)
       /\ Cardinality(Bloques \ K)
            = Cardinality(Bloques) - Cardinality(Bloques \cap K)
  BY <1>9, FS_Difference
<1>16. Bloques \cap K = K
  BY <1>1
<1>17. Cardinality(Bloques \ K) \in Nat /\ Cardinality(Todos) \in Nat
  BY <1>7, <1>15, FS_CardinalityType
<1>18. Cardinality(K) + N <= BLOCK_COUNT
  <2>1. Cardinality(K \cup Propios) = Cardinality(K) + N
    <3>1. Cardinality(K \cap Propios) = 0
      BY <1>10, <1>13
    <3> QED BY <1>3, <1>4, <1>11, <1>12, <3>1
  <2>2. Cardinality(Todos) <= BLOCK_COUNT
    BY <1>7, <1>8, <1>17
  <2>3. Cardinality(K) + N <= Cardinality(Todos)
    BY <1>14, <2>1
  <2> QED BY <1>3, <1>8, <1>11, <1>17, <2>2, <2>3
<1>19. Cardinality(Bloques \ K) = BLOCK_COUNT - Cardinality(K)
  BY <1>9, <1>15, <1>16
<1>20. Cardinality(Bloques \ K) >= N
  BY ONLY <1>3, <1>8, <1>11, <1>18, <1>19
<1> QED BY <1>3, <1>17, <1>20 DEF N

\* The file system starts with room.
LEMMA LugarInicial == Init => InvLugar
<1> SUFFICES ASSUME Init PROVE ConLugar
  BY TiposIniciales DEF InvLugar
<1>1. \A h \in Volcados : asignados[h] = <<>> /\ ~ Atiende(h)
  BY DEF Init, Atiende
<1>2. \A h \in Volcados : Lugar(h)
  BY <1>1 DEF Init, Lugar
<1> QED BY <1>1, <1>2 DEF Init, ConLugar, UnoPorPedido

\* A thread that does not take a new request serves the one it served.
LEMMA UnoSigue ==
  ASSUME InvTipos, ConLugar, NEW h \in Volcados, Aceptar(h) \/ Avanzar(h),
         Atiende(h)' => Atiende(h) /\ pedido'[h] = pedido[h]
  PROVE  UnoPorPedido'
<1>1. \A g \in Volcados : Atiende(g)' => Atiende(g) /\ pedido'[g] = pedido[g]
  <2>1. \A g \in Volcados : g # h =>
          pc'[g] = pc[g] /\ pedido'[g] = pedido[g] /\ asignados'[g] = asignados[g]
    BY SoloSuHilo DEF InvTipos
  <2> QED BY <2>1 DEF Atiende
<1> QED BY <1>1 DEF ConLugar, UnoPorPedido

\* What the thread h did leaves room to the others, if it leaves it to itself.
LEMMA LugarSigue ==
  ASSUME InvTipos, ConLugar, NEW h \in Volcados, Aceptar(h) \/ Avanzar(h),
         tam' = tam, tomados \subseteq tomados', archivos \subseteq archivos',
         DeAlguno \subseteq DeAlguno', bloques_libres' \subseteq DeAlguno',
         filesystem' = "activo", UnoPorPedido', Lugar(h)',
         \A g \in Volcados : respuesta'[g] # "0"
  PROVE  ConLugar'
<1>1. ASSUME NEW g \in Volcados, g # h PROVE Lugar(g)'
  <2>1. /\ pc'[g] = pc[g] /\ pedido'[g] = pedido[g] /\ pos'[g] = pos[g]
        /\ visto'[g] = visto[g] /\ asignados'[g] = asignados[g]
    BY <1>1, SoloSuHilo DEF InvTipos
  <2>2. Necesita(g)' = Necesita(g) /\ (Atiende(g)' <=> Atiende(g))
    BY <2>1 DEF Necesita, Atiende
  <2>3. Lugar(g)
    BY DEF ConLugar
  <2>4. Atiende(g)' => pedido'[g] \in tomados' /\ Len(asignados'[g]) <= Necesita(g)'
    BY <2>1, <2>2, <2>3 DEF Lugar
  <2>5. visto'[g] \subseteq DeAlguno'
    BY <2>1, <2>3 DEF Lugar
  <2>6. /\ pc'[g] = "asigna" /\ asignados'[g] = <<>> => \A b \in Bloques : b < pos'[g] => b \in DeAlguno'
        /\ pc'[g] \in {"marca", "graba"} => Len(asignados'[g]) < Necesita(g)'
        /\ pc'[g] = "indice" => asignados'[g] # <<>>
        /\ pc'[g] = "responde" => g \in archivos'
    BY <2>1, <2>2, <2>3 DEF Lugar
  <2> QED BY <2>4, <2>5, <2>6 DEF Lugar
<1> QED BY <1>1 DEF ConLugar

\* An action that does not touch the blocks leaves DeAlguno as it is.
LEMMA MismosBloques ==
  ASSUME asignados' = asignados
  PROVE  DeAlguno' = DeAlguno
BY DEF DeAlguno

\* Each step of a thread leaves room.
LEMMA LugarDelHilo ==
  ASSUME InvTipos, ConLugar, Suma(tam) <= BLOCK_COUNT, NEW h \in Volcados,
         Aceptar(h) \/ Avanzar(h)
  PROVE  ConLugar'
<1>1. /\ TypeOK /\ Tipado(h) /\ Lugar(h)
      /\ filesystem = "activo" /\ bloques_libres \subseteq DeAlguno
      /\ \A g \in Volcados : respuesta[g] # "0"
  BY DEF InvTipos, ConLugar
<1>2. /\ asignados[h] \in Seq(Bloques) /\ Len(asignados[h]) \in Nat
      /\ tam \in [Volcados -> Tamanios] /\ pc \in [Volcados -> Pasos]
      /\ pedido \in [Volcados -> Volcados \cup {Nadie}]
  BY <1>1 DEF TypeOK
<1>3. CASE Aceptar(h) \/ Saludar(h)
  <2>1. /\ pc'[h] \in {"aceptado", "creado"} /\ asignados[h] = <<>>
        /\ UNCHANGED <<tam, tomados, permanente, respuesta, pedido, pos, visto, asignados, filesystem>>
    BY <1>1, <1>2, <1>3 DEF Aceptar, Saludar, En, Pasa, Tipado, SinBloques, SinPedido, conexiones
  <2>2. DeAlguno' = DeAlguno
    BY <2>1, MismosBloques
  <2>3. ~ Atiende(h)'
    BY <2>1 DEF Atiende
  <2>4. Lugar(h)'
    BY <1>1, <2>1, <2>2, <2>3 DEF Lugar
  <2>5. UnoPorPedido'
    BY <1>3, <2>3, UnoSigue
  <2> QED BY <1>1, <1>3, <2>1, <2>2, <2>4, <2>5, LugarSigue DEF permanente
<1>4. CASE Recibir(h)
  <2> DEFINE s == socket_cliente
  <2>1. /\ pc[h] = "creado" /\ asignados[h] = <<>> /\ s \in Volcados
        /\ pedido'[h] = s /\ tomados' = tomados \cup {s}
        /\ UNCHANGED <<tam, permanente, respuesta, pos, visto, asignados, filesystem>>
    BY <1>1, <1>2, <1>4 DEF Recibir, En, Tipado, SinBloques, SinPedido
  <2>2. \/ s \notin tomados /\ pc'[h] = "cuenta"
        \/ pc'[h] \in {"espera", "fin"}
    BY <1>2, <1>4 DEF Recibir, Pasa
  <2>3. DeAlguno' = DeAlguno
    BY <2>1, MismosBloques
  <2>4. Necesita(h)' = Pide(tam, s) /\ Pide(tam, s) \in Nat
    BY <1>2, <2>1, PideAlgo DEF Necesita, Enteros, Pide
  <2>5. Lugar(h)'
    <3>1. Len(asignados'[h]) = 0 /\ asignados'[h] = <<>>
      BY <2>1
    <3>2. pedido'[h] \in tomados' /\ Len(asignados'[h]) <= Necesita(h)'
      BY <2>1, <2>4, <3>1
    <3>3. visto'[h] \subseteq DeAlguno'
      BY <1>1, <2>1, <2>3 DEF Lugar
    <3> QED BY <2>2, <3>2, <3>3 DEF Lugar
  <2>6. \A g \in Volcados : g # h =>
          pc'[g] = pc[g] /\ pedido'[g] = pedido[g] /\ asignados'[g] = asignados[g]
    BY <1>1, <1>4, SoloSuHilo
  <2>7. UnoPorPedido'
    <3>1. ASSUME NEW g \in Volcados, g # h, Atiende(g)', Atiende(h)' PROVE pedido'[g] # pedido'[h]
      <4>1. Atiende(g) /\ pedido'[g] = pedido[g]
        BY <2>6, <3>1 DEF Atiende
      <4>2. pedido[g] \in tomados
        BY <4>1 DEF ConLugar, Lugar
      <4>3. s \notin tomados
        BY <2>1, <2>2, <3>1 DEF Atiende
      <4> QED BY <2>1, <4>1, <4>2, <4>3
    <3>2. ASSUME NEW f \in Volcados, NEW g \in Volcados, f # h, g # h,
                 Atiende(f)', Atiende(g)', pedido'[f] = pedido'[g]
          PROVE  f = g
      BY <2>6, <3>2 DEF ConLugar, UnoPorPedido, Atiende
    <3> QED BY <3>1, <3>2 DEF UnoPorPedido
  <2> HIDE DEF s
  <2> QED BY <1>1, <1>4, <2>1, <2>3, <2>5, <2>7, LugarSigue DEF Avanzar, permanente
<1>12. CASE ContarBit(h)
  <2>1. /\ pc[h] = "cuenta" /\ UNCHANGED <<conexiones, permanente, respuesta, pedido, asignados, pc>>
        /\ visto'[h] \subseteq visto[h] \cup bloques_libres
    BY <1>1, <1>12 DEF ContarBit, En, TypeOK
  <2>2. DeAlguno' = DeAlguno
    BY <2>1, MismosBloques
  <2>3. Atiende(h) /\ Necesita(h)' = Necesita(h)
    BY <2>1 DEF Atiende, Necesita, conexiones
  <2>4. Lugar(h)'
    BY <1>1, <2>1, <2>2, <2>3 DEF Lugar, conexiones
  <2>5. UnoPorPedido'
    BY <1>12, <2>1, <2>3, UnoSigue DEF Avanzar
  <2> QED BY <1>1, <1>12, <2>1, <2>2, <2>4, <2>5, LugarSigue DEF Avanzar, permanente, conexiones
<1>5. CASE Contar(h)
  <2>1. /\ pc[h] = "cuenta" /\ asignados[h] = <<>> /\ pos'[h] = 0
        /\ UNCHANGED <<conexiones, permanente, respuesta, pedido, visto, asignados>>
    BY <1>1, <1>5 DEF Contar, En, Tipado, SinBloques, TypeOK
  <2>2. /\ Cardinality(Bloques \ visto[h]) \in Nat /\ Necesita(h) \in Nat
        /\ Cardinality(Bloques \ visto[h]) >= Necesita(h)
    <3>1. visto[h] \in SUBSET Bloques /\ visto[h] \subseteq DeAlguno
      BY <1>1 DEF TypeOK, Lugar
    <3> QED BY <2>1, <3>1, HayLugar
  <2>3. pc'[h] = "asigna"
    <3>1. ~ (Cardinality(Bloques \ visto[h]) < Necesita(h))
      BY <2>2
    <3> QED BY <1>2, <1>5, <3>1 DEF Contar, Pasa
  <2>4. DeAlguno' = DeAlguno
    BY <2>1, MismosBloques
  <2>5. Atiende(h) /\ Necesita(h)' = Necesita(h)
    BY <2>1 DEF Atiende, Necesita, conexiones
  <2>6. \A b \in Bloques : ~ (b < pos'[h])
    BY <2>1, ConstantesDelFileSystem DEF Bloques
  <2>7. Lugar(h)'
    BY <1>1, <2>1, <2>3, <2>4, <2>5, <2>6 DEF Lugar, conexiones
  <2>8. UnoPorPedido'
    BY <1>5, <2>1, <2>5, UnoSigue DEF Avanzar
  <2> QED BY <1>1, <1>5, <2>1, <2>4, <2>7, <2>8, LugarSigue DEF Avanzar, permanente, conexiones
<1>6. CASE Mirar(h)
  <2>1. /\ pc[h] = "asigna"
        /\ UNCHANGED <<conexiones, permanente, respuesta, pedido, visto, asignados>>
    BY <1>6 DEF Mirar, En
  <2>2. \/ (pos[h] = BLOCK_COUNT \/ Len(asignados[h]) = Necesita(h)) /\ pc'[h] = "indice"
        \/ pos[h] \in bloques_libres /\ pos'[h] = pos[h] + 1 /\ pc'[h] = "asigna"
        \/ Len(asignados[h]) < Necesita(h) /\ pc'[h] = "marca"
    BY <1>1, <1>2, <1>6 DEF Mirar, En, Pasa, TypeOK
  <2>3. ASSUME asignados[h] = <<>> PROVE Len(asignados[h]) # Necesita(h) /\ pos[h] # BLOCK_COUNT
    <3>1. Necesita(h) \in Nat /\ Necesita(h) >= 1
      <4>1. {} \in SUBSET Bloques /\ {} \subseteq DeAlguno
        OBVIOUS
      <4> QED BY <2>1, <2>3, <4>1, HayLugar
    <3>2. ASSUME pos[h] = BLOCK_COUNT PROVE FALSE
      <4>1. \A b \in Bloques : b < pos[h]
        BY <3>2, ConstantesDelFileSystem DEF Bloques
      <4>2. Bloques \subseteq DeAlguno
        BY <1>1, <2>1, <2>3, <4>1 DEF Lugar
      <4>3. Cardinality(Bloques \ Bloques) >= Necesita(h)
        BY <2>1, <2>3, <4>2, HayLugar
      <4>4. Bloques \ Bloques = {} /\ Cardinality({}) = 0
        BY FS_EmptySet
      <4>5. Cardinality(Bloques \ Bloques) = 0
        BY <4>4
      <4> QED BY <3>1, <4>3, <4>5
    <3> QED BY <2>3, <3>1, <3>2
  <2>4. DeAlguno' = DeAlguno
    BY <2>1, MismosBloques
  <2>5. Atiende(h) /\ Necesita(h)' = Necesita(h)
    BY <2>1 DEF Atiende, Necesita, conexiones
  <2>6. asignados'[h] = asignados[h] /\ pedido'[h] = pedido[h] /\ tomados' = tomados /\ visto'[h] = visto[h]
    BY <2>1 DEF conexiones
  <2>7. ASSUME pc'[h] = "asigna", asignados[h] = <<>>, NEW b \in Bloques, b < pos'[h]
        PROVE  b \in DeAlguno'
    <3>1. pos[h] \in bloques_libres /\ pos'[h] = pos[h] + 1
      BY <2>2, <2>7
    <3>2. b < pos[h] \/ b = pos[h]
      <4>1. b \in Int /\ pos[h] \in Int
        BY <1>1, ConstantesDelFileSystem DEF Bloques, TypeOK
      <4> QED BY <2>7, <3>1, <4>1
    <3> QED BY <1>1, <2>1, <2>4, <2>7, <3>1, <3>2 DEF Lugar
  <2>8. Lugar(h)'
    BY <1>1, <2>2, <2>3, <2>4, <2>5, <2>6, <2>7 DEF Lugar
  <2>9. UnoPorPedido'
    BY <1>6, <2>1, <2>5, UnoSigue DEF Avanzar
  <2> QED BY <1>1, <1>6, <2>1, <2>4, <2>8, <2>9, LugarSigue DEF Avanzar, permanente, conexiones
<1>13. CASE LeerByte(h)
  <2>1. /\ pc[h] = "marca" /\ pc'[h] = "graba" /\ visto'[h] = bloques_libres
        /\ UNCHANGED <<conexiones, permanente, respuesta, pedido, pos, asignados>>
    BY <1>1, <1>2, <1>13 DEF LeerByte, En, Pasa, TypeOK
  <2>2. DeAlguno' = DeAlguno
    BY <2>1, MismosBloques
  <2>3. Atiende(h) /\ Necesita(h)' = Necesita(h)
    BY <2>1 DEF Atiende, Necesita, conexiones
  <2>4. Lugar(h)'
    BY <1>1, <2>1, <2>2, <2>3 DEF Lugar, conexiones
  <2>5. UnoPorPedido'
    BY <1>13, <2>1, <2>3, UnoSigue DEF Avanzar
  <2> QED BY <1>1, <1>13, <2>1, <2>2, <2>4, <2>5, LugarSigue DEF Avanzar, permanente, conexiones
<1>7. CASE Marcar(h)
  <2> DEFINE u == Append(asignados[h], pos[h])
  <2>1. /\ pc[h] = "graba" /\ pos[h] \in Bloques /\ pc'[h] = "asigna"
        /\ asignados' = [asignados EXCEPT ![h] = u]
        /\ UNCHANGED <<conexiones, disco, vacios, archivos, respuesta, pedido, visto>>
        /\ bloques_libres' \subseteq bloques_libres \cup visto[h] \cup {pos[h]}
    BY <1>1, <1>2, <1>7 DEF Marcar, MarcarBit, ConByte, En, Pasa, Tipado
  <2>2. /\ u \in Seq(Bloques) /\ Len(u) = Len(asignados[h]) + 1
        /\ ToSet(u) = ToSet(asignados[h]) \cup {pos[h]}
    BY <1>2, <2>1, ToSetAppend
  <2>3. asignados'[h] = u /\ \A g \in Volcados : g # h => asignados'[g] = asignados[g]
    BY <1>1, <2>1 DEF TypeOK
  <2> HIDE DEF u
  <2>4. DeAlguno \subseteq DeAlguno' /\ pos[h] \in DeAlguno'
    BY <2>2, <2>3 DEF DeAlguno
  <2>5. Atiende(h) /\ Necesita(h)' = Necesita(h)
    BY <2>1 DEF Atiende, Necesita, conexiones
  <2>6. Lugar(h)'
    <3>1. pedido'[h] \in tomados' /\ visto'[h] \subseteq DeAlguno'
      BY <1>1, <2>1, <2>4, <2>5 DEF Lugar, conexiones
    <3>2. Len(asignados'[h]) <= Necesita(h)'
      <4>1. pedido[h] \in Volcados
        BY <1>1, <2>1 DEF Tipado, Atendidos
      <4>2. Necesita(h) \in Nat
        <5>1. Necesita(h) = Pide(tam, pedido[h])
          BY DEF Necesita, Enteros, Pide
        <5> QED BY <1>2, <4>1, <5>1, PideAlgo
      <4>3. Len(asignados[h]) < Necesita(h)
        BY <1>1, <2>1 DEF Lugar
      <4> QED BY <1>2, <2>2, <2>3, <2>5, <4>2, <4>3
    <3>3. asignados'[h] # <<>>
      BY <1>2, <2>2, <2>3
    <3> QED BY <2>1, <3>1, <3>2, <3>3 DEF Lugar
  <2>7. UnoPorPedido'
    BY <1>7, <2>1, <2>5, UnoSigue DEF Avanzar
  <2>8. bloques_libres' \subseteq DeAlguno'
    BY <1>1, <2>1, <2>4 DEF Lugar
  <2> QED BY <1>1, <1>7, <2>1, <2>4, <2>6, <2>7, <2>8, LugarSigue DEF Avanzar, conexiones
<1>8. CASE EscribirIndice(h)
  <2>1. /\ pc[h] = "indice" /\ asignados[h] # <<>>
        /\ UNCHANGED <<tam, socket_cliente, tomados, caidas, bloques_libres, archivos,
                       respuesta, pedido, visto, asignados>>
    BY <1>1, <1>8 DEF EscribirIndice, En, Lugar
  <2>2. pc'[h] = "datos" /\ filesystem' = "activo"
    BY <1>1, <1>2, <1>8, <2>1 DEF EscribirIndice, Pasa
  <2>3. DeAlguno' = DeAlguno
    BY <2>1, MismosBloques
  <2>4. Atiende(h) /\ Necesita(h)' = Necesita(h)
    BY <2>1 DEF Atiende, Necesita
  <2>5. Lugar(h)'
    BY <1>1, <2>1, <2>2, <2>3, <2>4 DEF Lugar
  <2>6. UnoPorPedido'
    BY <1>8, <2>1, <2>4, UnoSigue DEF Avanzar
  <2> QED BY <1>1, <1>8, <2>1, <2>2, <2>3, <2>5, <2>6, LugarSigue DEF Avanzar
<1>9. CASE EscribirBloque(h)
  <2>1. /\ pc[h] = "datos"
        /\ UNCHANGED <<conexiones, bloques_libres, archivos, respuesta, pedido, visto, asignados>>
        /\ pc'[h] \in {"datos", "metadata"}
    BY <1>2, <1>9 DEF EscribirBloque, En, Pasa
  <2>2. DeAlguno' = DeAlguno
    BY <2>1, MismosBloques
  <2>3. Atiende(h) /\ Necesita(h)' = Necesita(h)
    BY <2>1 DEF Atiende, Necesita, conexiones
  <2>4. Lugar(h)'
    BY <1>1, <2>1, <2>2, <2>3 DEF Lugar, conexiones
  <2>5. UnoPorPedido'
    BY <1>9, <2>1, <2>3, UnoSigue DEF Avanzar
  <2> QED BY <1>1, <1>9, <2>1, <2>2, <2>4, <2>5, LugarSigue DEF Avanzar, conexiones
<1>10. CASE crear_metadata(h) \/ EscribirMetadata(h)
  <2>1. /\ \/ pc[h] = "metadata" /\ pc'[h] = "llena" /\ archivos' = archivos
           \/ pc[h] = "llena" /\ pc'[h] = "responde" /\ archivos' = archivos \cup {h}
        /\ UNCHANGED <<conexiones, bloques_libres, disco, respuesta, pedido, pos, visto, asignados>>
    BY <1>2, <1>10 DEF crear_metadata, EscribirMetadata, En, Pasa
  <2>2. DeAlguno' = DeAlguno
    BY <2>1, MismosBloques
  <2>3. Atiende(h) /\ Necesita(h)' = Necesita(h)
    BY <2>1 DEF Atiende, Necesita, conexiones
  <2>4. Lugar(h)'
    BY <1>1, <2>1, <2>2, <2>3 DEF Lugar, conexiones
  <2>5. UnoPorPedido'
    BY <1>10, <2>1, <2>3, UnoSigue DEF Avanzar
  <2> QED BY <1>1, <1>10, <2>1, <2>2, <2>4, <2>5, LugarSigue DEF Avanzar, conexiones
<1>11. CASE Responder(h)
  <2>1. /\ pc[h] = "responde" /\ pc'[h] = "fin" /\ h \in archivos
        /\ UNCHANGED <<conexiones, permanente, pedido, pos, visto, asignados>>
    BY <1>1, <1>2, <1>11 DEF Responder, En, Pasa, Lugar
  <2>2. DeAlguno' = DeAlguno
    BY <2>1, MismosBloques
  <2>3. Atiende(h) /\ Necesita(h)' = Necesita(h)
    BY <2>1 DEF Atiende, Necesita, conexiones
  <2>4. Lugar(h)'
    BY <1>1, <2>1, <2>2, <2>3 DEF Lugar, conexiones
  <2>5. \A g \in Volcados : respuesta'[g] # "0"
    <3>1. respuesta' = [respuesta EXCEPT ![pedido[h]] = "1"]
      BY <1>11, <2>1 DEF Responder
    <3> QED BY <1>1, <3>1 DEF TypeOK
  <2>6. UnoPorPedido'
    BY <1>11, <2>1, <2>3, UnoSigue DEF Avanzar
  <2> QED BY <1>1, <1>11, <2>1, <2>2, <2>4, <2>5, <2>6, LugarSigue
       DEF Avanzar, permanente, conexiones
<1> QED BY <1>3, <1>4, <1>5, <1>6, <1>7, <1>8, <1>9, <1>10, <1>11, <1>12, <1>13 DEF Avanzar

\* A crash leaves the blocks as they are, and no thread that serves a new request.
LEMMA LugarAlCaer ==
  ASSUME InvTipos, ConLugar, Caer
  PROVE  ConLugar'
<1>1. /\ UNCHANGED <<tam, tomados, permanente, respuesta, pedido, pos, visto, asignados>>
      /\ filesystem' = "activo" /\ pc \in [Volcados -> Pasos]
      /\ \A h \in Volcados : pc'[h] = pc[h] \/ pc'[h] = "perdido"
  BY DEF Caer, InvTipos, TypeOK
<1>2. DeAlguno' = DeAlguno
  BY <1>1, MismosBloques
<1>3. \A h \in Volcados : (Atiende(h)' => Atiende(h)) /\ Necesita(h)' = Necesita(h)
  BY <1>1 DEF Atiende, Necesita
<1>4. UnoPorPedido'
  BY <1>1, <1>3 DEF ConLugar, UnoPorPedido
<1>5. ASSUME NEW h \in Volcados PROVE Lugar(h)'
  <2>1. Lugar(h)
    BY DEF ConLugar
  <2>2. /\ pedido'[h] = pedido[h] /\ asignados'[h] = asignados[h] /\ visto'[h] = visto[h]
        /\ pos'[h] = pos[h] /\ tomados' = tomados /\ archivos' = archivos
    BY <1>1 DEF permanente
  <2> QED BY <1>1, <1>2, <1>3, <2>1, <2>2 DEF Lugar
<1> QED BY <1>1, <1>2, <1>4, <1>5 DEF ConLugar, permanente

\* Every step leaves room, if there was room for all.
LEMMA LugarPaso == InvLugar /\ [Next]_vars => InvLugar'
<1> SUFFICES ASSUME InvLugar, [Next]_vars PROVE InvLugar'
  OBVIOUS
<1>1. InvTipos /\ InvTipos'
  BY TiposPaso DEF InvLugar
<1>2. tam' = tam
  BY DEF Next, Avanzar, Aceptar, Saludar, Recibir, ContarBit, Contar, Mirar, LeerByte, Marcar,
         EscribirIndice, EscribirBloque, crear_metadata, EscribirMetadata, Responder, Caer, vars,
         conexiones
<1>3. SUFFICES ASSUME Suma(tam') <= BLOCK_COUNT PROVE ConLugar'
  BY <1>1 DEF InvLugar
<1>4. Suma(tam) <= BLOCK_COUNT /\ ConLugar
  BY <1>2, <1>3 DEF InvLugar
<1>5. CASE \E h \in Volcados : Aceptar(h) \/ Avanzar(h)
  BY <1>1, <1>4, <1>5, LugarDelHilo
<1>6. CASE Caer
  BY <1>1, <1>4, <1>6, LugarAlCaer
<1>7. CASE UNCHANGED vars
  BY <1>4, <1>7 DEF vars, hilo, permanente, ConLugar, UnoPorPedido, Lugar, Atiende, DeAlguno, Necesita
<1> QED BY <1>5, <1>6, <1>7 DEF Next

\* While the disk has room for every dump, none is refused and none is left without blocks,
\* for any number of dumps at once, whatever bits they undo of each other, and any crashes.
THEOREM NadieRechazado == Spec => []SinRechazos
<1>1. InvLugar => SinRechazos
  BY DEF InvLugar, ConLugar, SinRechazos, LugarDeTodos, Suma
<1> QED BY <1>1, LugarInicial, LugarPaso, PTL DEF Spec
=============================================================================
