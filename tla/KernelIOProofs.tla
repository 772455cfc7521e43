--------------------------- MODULE KernelIOProofs ---------------------------
(***************************************************************************)
(* The threads of the kernel that end an IO or a dump, for any number of   *)
(* threads and of requests and every interleaving of their accesses: no    *)
(* wake-up is lost, and as long as the accesses of two of them have not    *)
(* overlapped, kernel and cpu mean the same thread and there is one IO at  *)
(* a time.                                                                 *)
(*                                                                         *)
(* A test and the act that follows it are two steps. So each invariant     *)
(* says who is still going to look again: while a queue has somebody and   *)
(* nobody is being served, some kernel thread has not finished.            *)
(***************************************************************************)
EXTENDS KernelIO, LemasDeColas

Puntos ==
  Fuera \cup {"encola", "revisa_io", "toma_io", "revisa_dump", "toma_dump", "elige", "elige_mira",
              "elige_saca", "elige_envia", "prueba", "encola_ready", "suelta_io", "suelta_dump",
              "saca_de_block", "finaliza", "busca_exec", "busca_ready", "busca_block", "retira",
              "avisa", "revisa_exec", "reenvia", "bloquea", "anota_args"}

\* The dispatch thread has a request that is in no queue yet.
Preparando == {"bloquea", "anota_args", "encola"}

\* Where a thread of a request still reads its argument, and where the request is a dump.
Usa ==
  {"nada", "duerme", "arranca", "volcando", "encola_ready", "suelta_dump", "revisa_dump",
   "toma_dump", "saca_de_block", "finaliza", "busca_exec", "busca_ready", "busca_block", "retira"}
DeDump ==
  {"arranca", "volcando", "suelta_dump", "revisa_dump", "toma_dump", "saca_de_block", "finaliza",
   "busca_exec", "busca_ready", "busca_block", "retira"}

Argumento == [clase : Clases, hilo : Hilos \cup {Nadie}]

-----------------------------------------------------------------------------
(* Types *)

Tipos ==
  /\ hilo_EXEC \in Hilos \cup {Nadie}
  /\ cola_hilos_READY \in Seq(Hilos \cup {Nadie}) /\ cola_hilos_BLOCK \in Seq(Hilos \cup {Nadie})
  /\ victima \in Hilos \cup {Nadie} /\ cola_procesos_READY \subseteq {h[1] : h \in Hilos}
  /\ hilo_IO \in Pedidos \cup {Nadie} /\ hilo_DUMP_MEMORY \in Pedidos \cup {Nadie}
  /\ rta \in [Pedidos -> {0, 1, Nadie}] /\ hechos \in 0 .. MaxPedidos
  /\ canal \in Seq(Hilos)
  /\ kernel \in {"activo", "caido"} /\ solapado \in BOOLEAN

\* The requests that have not been received fit in the bound.
Caben ==
  /\ pedidos \in Seq(Clases \cup {"EXIT"})
  /\ \A i \in 1 .. Len(pedidos) : pedidos[i] # "EXIT" => hechos + i <= MaxPedidos

\* A kernel thread starts when its request is taken from its queue, not before; the
\* last request is the one the dispatch thread is preparing.
Control ==
  /\ pc \in [KHilos -> Puntos]
  /\ \A n \in Pedidos : n > hechos => pc[n] = "nada"
  /\ pc[0] \in Preparando => hechos \in Pedidos /\ pc[hechos] = "nada"

Argumentos ==
  /\ args \in [Pedidos -> Argumento \cup {Nadie}]
  /\ \A n \in Pedidos : args[n] # Nadie <=> n <= hechos /\ pc[n] \in Usa
  /\ \A n \in Pedidos : pc[n] = "duerme" => args[n].clase = "IO"
  /\ \A n \in Pedidos : pc[n] \in DeDump => args[n].clase = "DUMP"

\* A queue of requests of class c: each is there once, its thread has not started, and
\* the one that is being queued is not there.
EnEspera(cola) ==
  /\ cola \in Seq(Pedidos)
  /\ \A i \in 1 .. Len(cola) :
       cola[i] <= hechos /\ pc[cola[i]] = "nada" /\ (pc[0] \in Preparando => cola[i] # hechos)
  /\ \A i, j \in 1 .. Len(cola) : cola[i] = cola[j] => i = j
DeClase(cola, c) == \A i \in 1 .. Len(cola) : args[cola[i]].clase = c

Colas ==
  /\ EnEspera(cola_hilos_BLOCK_IO) /\ DeClase(cola_hilos_BLOCK_IO, "IO")
  /\ EnEspera(cola_hilos_BLOCK_DUMP_MEMORY) /\ DeClase(cola_hilos_BLOCK_DUMP_MEMORY, "DUMP")

InvTipos == Tipos /\ Caben /\ Control /\ Argumentos /\ Colas

LEMMA InvTiposTypeOK ==
  ASSUME InvTipos
  PROVE  TypeOK
<1>1. \A n \in Pedidos : args[n] # Nadie <=> n \in ConArgumento
  BY DEF InvTipos, Argumentos, ConArgumento, Usa
<1>2. {n \in Pedidos : args[n] # Nadie} = ConArgumento
  BY <1>1 DEF ConArgumento
<1>3. \A n \in ConArgumento : args[n].clase \in Clases /\ args[n].hilo \in Hilos \cup {Nadie}
  <2> SUFFICES ASSUME NEW n \in ConArgumento
               PROVE  args[n].clase \in Clases /\ args[n].hilo \in Hilos \cup {Nadie}
    OBVIOUS
  <2>1. n \in Pedidos /\ args[n] # Nadie
    BY <1>1 DEF ConArgumento
  <2>2. args[n] \in Argumento
    BY <2>1 DEF InvTipos, Argumentos
  <2> QED BY <2>2 DEF Argumento
<1> QED BY <1>2, <1>3 DEF TypeOK, InvTipos, Tipos, Caben, Colas, EnEspera

LEMMA InitTipos ==
  Init => InvTipos
<1> SUFFICES ASSUME Init PROVE InvTipos
  OBVIOUS
<1>1. SetToSeq(Hilos \ {<<1, 0>>}) \in Seq(Hilos \cup {Nadie})
  <2>1. IsFiniteSet(Hilos \ {<<1, 0>>})
    BY ConstantesDeIO, FS_Subset
  <2>2. SetToSeq(Hilos \ {<<1, 0>>}) \in Seq(Hilos \ {<<1, 0>>})
    BY <2>1, SetToSeqTipo
  <2> QED BY <2>2
<1>2. Tipos
  <2>1. rta \in [Pedidos -> {0, 1, Nadie}] /\ hechos \in 0 .. MaxPedidos
    BY ConstantesDeIO DEF Init
  <2>2. canal \in Seq(Hilos) /\ hilo_EXEC \in Hilos
    <3>1. \A h \in Hilos : <<h>> \in Seq(Hilos)
      OBVIOUS
    <3> QED BY <3>1, ConstantesDeIO DEF Init
  <2>3. cola_hilos_READY \in Seq(Hilos \cup {Nadie}) /\ cola_hilos_BLOCK \in Seq(Hilos \cup {Nadie})
    BY <1>1 DEF Init
  <2>4. /\ hilo_IO = Nadie /\ hilo_DUMP_MEMORY = Nadie /\ kernel = "activo" /\ solapado = FALSE
    BY DEF Init
  <2>5. /\ victima = Nadie /\ cola_procesos_READY = {h[1] : h \in Hilos}
    BY DEF Init
  <2> QED BY <2>1, <2>2, <2>3, <2>4, <2>5 DEF Tipos
<1>3. Caben
  BY DEF Init, Caben
<1>4. Control
  <2>1. {"recibe", "nada"} \subseteq Puntos \ Preparando
    BY DEF Puntos, Fuera, Preparando
  <2>2. 0 \in KHilos /\ 0 \notin Pedidos /\ Pedidos \subseteq KHilos
    BY ConstantesDeIO DEF KHilos, Pedidos
  <2>3. pc = [k \in KHilos |-> IF k = 0 THEN "recibe" ELSE "nada"]
    BY DEF Init
  <2>4. /\ pc \in [KHilos -> Puntos] /\ pc[0] \notin Preparando
        /\ \A n \in Pedidos : pc[n] = "nada"
    BY <2>1, <2>2, <2>3
  <2> QED BY <2>4 DEF Control
<1>5. Argumentos
  <2>1. \A n \in Pedidos : args[n] = Nadie /\ pc[n] = "nada" /\ ~(n <= hechos)
    BY ConstantesDeIO DEF Init, KHilos, Pedidos
  <2>2. args \in [Pedidos -> Argumento \cup {Nadie}]
    BY DEF Init
  <2> QED BY <2>1, <2>2 DEF Argumentos, DeDump
<1>6. Colas
  BY DEF Init, Colas, EnEspera, DeClase
<1> QED BY <1>2, <1>3, <1>4, <1>5, <1>6 DEF InvTipos

-----------------------------------------------------------------------------
(* Each step keeps the types *)

\* The kernel falls and nothing else changes.
LEMMA CaeTipos ==
  ASSUME InvTipos, Cae
  PROVE  InvTipos'
<1>1. /\ UNCHANGED <<hilo_EXEC, cola_hilos_READY, cola_hilos_BLOCK, cola_hilos_BLOCK_IO>>
      /\ UNCHANGED <<cola_hilos_BLOCK_DUMP_MEMORY, hilo_IO, hilo_DUMP_MEMORY, args, rta, hechos>>
      /\ UNCHANGED <<pc, canal, pedidos, solapado, victima, cola_procesos_READY>>
      /\ kernel' = "caido"
  BY DEF Cae, eleccion, colas, esperas, turnos, locales, cpus
<1> QED BY <1>1 DEF InvTipos, Tipos, Caben, Control, Argumentos, Colas, EnEspera, DeClase

\* A kernel thread goes on to p, and neither starts nor stops to need its argument.
LEMMA MueveTipos ==
  ASSUME InvTipos, NEW k \in KHilos, NEW p \in Puntos, pc' = [pc EXCEPT ![k] = p],
         UNCHANGED <<args, hechos, cola_hilos_BLOCK_IO, cola_hilos_BLOCK_DUMP_MEMORY>>,
         pc[k] # "nada", p \notin {"nada", "duerme"}, p \in Preparando => pc[k] \in Preparando,
         k # 0 => (p \in Usa <=> pc[k] \in Usa) /\ (p \in DeDump => pc[k] \in DeDump)
  PROVE  Control' /\ Argumentos' /\ Colas'
<1>1. /\ pc' \in [KHilos -> Puntos] /\ pc'[k] = p /\ 0 \notin Pedidos /\ Pedidos \subseteq KHilos
      /\ \A j \in KHilos \ {k} : pc'[j] = pc[j]
      /\ 0 \in KHilos
  BY ConstantesDeIO DEF InvTipos, Control, KHilos, Pedidos
<1>2. Control'
  <2>1. \A n \in Pedidos : n > hechos' => pc'[n] = "nada"
    BY <1>1 DEF InvTipos, Control
  <2>2. pc'[0] \in Preparando => hechos' \in Pedidos /\ pc'[hechos'] = "nada"
    BY <1>1 DEF InvTipos, Control
  <2> QED BY <1>1, <2>1, <2>2 DEF Control
<1>3. Argumentos'
  <2>1. \A n \in Pedidos : pc'[n] \in Usa <=> pc[n] \in Usa
    BY <1>1
  <2>2. \A n \in Pedidos : args'[n] # Nadie <=> n <= hechos' /\ pc'[n] \in Usa
    BY <2>1 DEF InvTipos, Argumentos
  <2>3. \A n \in Pedidos : pc'[n] = "duerme" => args'[n].clase = "IO"
    BY <1>1 DEF InvTipos, Argumentos
  <2>4. \A n \in Pedidos : pc'[n] \in DeDump => args'[n].clase = "DUMP"
    BY <1>1 DEF InvTipos, Argumentos
  <2> QED BY <2>2, <2>3, <2>4 DEF InvTipos, Argumentos
<1>4. pc'[0] \in Preparando => pc[0] \in Preparando
  BY <1>1
<1>5. ASSUME NEW cola, EnEspera(cola)
      PROVE  EnEspera(cola)'
  <2>1. \A i \in 1 .. Len(cola) : cola[i] \in Pedidos /\ pc[cola[i]] = "nada"
    BY <1>5 DEF EnEspera
  <2>2. \A i \in 1 .. Len(cola) : pc'[cola[i]] = "nada"
    BY <2>1, <1>1
  <2> QED BY <1>5, <2>2, <1>4 DEF EnEspera
<1>6. PICK q, r : q = cola_hilos_BLOCK_IO /\ r = cola_hilos_BLOCK_DUMP_MEMORY
  OBVIOUS
<1>7. EnEspera(q) /\ DeClase(q, "IO") /\ EnEspera(r) /\ DeClase(r, "DUMP")
  BY <1>6 DEF InvTipos, Colas
<1>8. EnEspera(q)' /\ DeClase(q, "IO")' /\ EnEspera(r)' /\ DeClase(r, "DUMP")'
  BY <1>5, <1>7 DEF DeClase
<1>9. cola_hilos_BLOCK_IO' = q /\ cola_hilos_BLOCK_DUMP_MEMORY' = r
  BY <1>6
<1>10. Colas'
  BY ONLY <1>8, <1>9 DEF Colas, EnEspera, DeClase
<1> QED BY <1>2, <1>3, <1>10

LEMMA PasaTipos ==
  ASSUME InvTipos, NEW k \in KHilos, NEW p \in Puntos, pc' = [pc EXCEPT ![k] = p],
         UNCHANGED <<args, hechos, cola_hilos_BLOCK_IO, cola_hilos_BLOCK_DUMP_MEMORY>>,
         pc[k] # "nada", p \notin {"nada", "duerme", "bloquea", "anota_args", "encola"},
         k # 0 => (p \in Usa <=> pc[k] \in Usa) /\ (p \in DeDump => pc[k] \in DeDump)
  PROVE  Control' /\ Argumentos' /\ Colas'
<1>1. p \notin {"nada", "duerme"} /\ p \notin Preparando
  BY DEF Preparando
<1> QED BY <1>1, MueveTipos

LEMMA AnotaTipo ==
  ASSUME Anota
  PROVE  solapado' \in BOOLEAN
BY DEF Anota

\* elegir_hilo.
LEMMA ElegirTipos ==
  ASSUME InvTipos, NEW k \in KHilos, elegir_hilo(k)
  PROVE  InvTipos'
<1> USE DEF eleccion, colas, esperas, turnos, locales, cpus
<1>1. CASE Elegir_limpia(k)
  <2>1. Control' /\ Argumentos' /\ Colas'
    BY <1>1, PasaTipos DEF Elegir_limpia, En, Pasa, Puntos, Fuera, Usa, DeDump
  <2>2. Tipos' /\ Caben'
    BY <1>1, AnotaTipo DEF Elegir_limpia, En, Pasa, InvTipos, Tipos, Caben
  <2> QED BY <2>1, <2>2 DEF InvTipos
<1>2. CASE Elegir_mira(k)
  <2>1. Control' /\ Argumentos' /\ Colas'
    BY <1>2, PasaTipos DEF Elegir_mira, Termina, En, Pasa, Puntos, Fuera, Usa, DeDump
  <2>2. Tipos' /\ Caben'
    BY <1>2, AnotaTipo DEF Elegir_mira, Termina, En, Pasa, InvTipos, Tipos, Caben
  <2> QED BY <2>1, <2>2 DEF InvTipos
<1>3. CASE Elegir_saca(k)
  <2>1. Control' /\ Argumentos' /\ Colas'
    BY <1>3, PasaTipos DEF Elegir_saca, En, Pasa, Puntos, Fuera, Usa, DeDump
  <2>2. hilo_EXEC' \in Hilos \cup {Nadie} /\ cola_hilos_READY' \in Seq(Hilos \cup {Nadie})
    <3>1. \A s \in Seq(Hilos \cup {Nadie}) :
            s # <<>> => Head(s) \in Hilos \cup {Nadie} /\ Tail(s) \in Seq(Hilos \cup {Nadie})
      OBVIOUS
    <3>2. cola_hilos_READY \in Seq(Hilos \cup {Nadie})
      BY DEF InvTipos, Tipos
    <3> QED BY <1>3, <3>1, <3>2 DEF Elegir_saca
  <2>3. Tipos' /\ Caben'
    BY <1>3, <2>2, AnotaTipo DEF Elegir_saca, En, Pasa, InvTipos, Tipos, Caben
  <2> QED BY <2>1, <2>3 DEF InvTipos
<1>4. CASE Elegir_envia(k)
  <2>1. CASE Cae
    BY <2>1, CaeTipos
  <2>2. CASE /\ hilo_EXEC # Nadie /\ canal' = Append(canal, hilo_EXEC) /\ Termina(k)
             /\ UNCHANGED <<eleccion, colas, turnos, locales, kernel, pedidos>>
    <3>1. Control' /\ Argumentos' /\ Colas'
      BY <1>4, <2>2, PasaTipos DEF Elegir_envia, enviar_a_ejecucion, Termina, En, Pasa, Puntos, Fuera, Usa, DeDump
    <3>2. canal' \in Seq(Hilos)
      BY <2>2 DEF InvTipos, Tipos
    <3>3. Tipos' /\ Caben'
      BY <2>2, <3>2, AnotaTipo DEF Termina, Pasa, InvTipos, Tipos, Caben
    <3> QED BY <3>1, <3>3 DEF InvTipos
  <2> QED BY <1>4, <2>1, <2>2 DEF Elegir_envia, enviar_a_ejecucion
<1> QED BY <1>1, <1>2, <1>3, <1>4 DEF elegir_hilo

\* A queue after its first request is taken.
LEMMA RestoTipo ==
  ASSUME NEW q \in Seq(Pedidos), q # <<>>
  PROVE  /\ Head(q) = q[1] /\ 1 \in 1 .. Len(q) /\ q[1] \in Pedidos
         /\ Tail(q) \in Seq(Pedidos) /\ Len(Tail(q)) = Len(q) - 1 /\ Len(q) \in Nat
         /\ \A i \in 1 .. Len(Tail(q)) : Tail(q)[i] = q[i + 1] /\ i + 1 \in 1 .. Len(q) /\ i + 1 # 1
OBVIOUS

\* Kernel thread k takes the first request of q, whose thread starts at e, and goes on to p.
LEMMA TomarTipos ==
  ASSUME InvTipos, NEW k \in KHilos, NEW p \in Puntos, NEW e \in {"duerme", "arranca"},
         NEW q, NEW r, NEW c, NEW d, q # <<>>, EnEspera(q), DeClase(q, c), EnEspera(r), DeClase(r, d),
         c # d, c = IF e = "duerme" THEN "IO" ELSE "DUMP",
         pc' = [pc EXCEPT ![k] = p, ![Head(q)] = e], UNCHANGED <<args, hechos>>,
         pc[k] # "nada", p \notin {"nada", "duerme"}, p \in Preparando => pc[k] \in Preparando,
         k # 0 => (p \in Usa <=> pc[k] \in Usa) /\ (p \in DeDump => pc[k] \in DeDump)
  PROVE  /\ Control' /\ Argumentos'
         /\ EnEspera(Tail(q))' /\ DeClase(Tail(q), c)' /\ EnEspera(r)' /\ DeClase(r, d)'
<1>1. PICK m : m = Head(q)
  OBVIOUS
<1>2. m = q[1] /\ 1 \in 1 .. Len(q) /\ m \in Pedidos
  BY <1>1, RestoTipo DEF EnEspera
<1>3. /\ pc[m] = "nada" /\ m <= hechos /\ args[m].clase = c /\ (pc[0] \in Preparando => m # hechos)
  BY <1>2 DEF EnEspera, DeClase
<1>4. /\ pc' \in [KHilos -> Puntos] /\ pc'[m] = e /\ m # k /\ m # 0 /\ m \in KHilos
      /\ pc'[k] = p /\ 0 \in KHilos /\ Pedidos \subseteq KHilos
      /\ \A j \in KHilos \ {k, m} : pc'[j] = pc[j]
  <2>1. pc \in [KHilos -> Puntos] /\ e \in Puntos
    BY DEF InvTipos, Control, Puntos, Fuera
  <2>2. m # 0 /\ m \in KHilos /\ 0 \in KHilos /\ Pedidos \subseteq KHilos /\ m # k
    BY <1>2, <1>3, ConstantesDeIO DEF KHilos, Pedidos
  <2>3. pc' = [pc EXCEPT ![k] = p, ![m] = e]
    BY <1>1
  <2> QED BY <2>1, <2>2, <2>3
<1>5. Control'
  <2>1. \A n \in Pedidos : n > hechos' => pc'[n] = "nada"
    BY <1>2, <1>3, <1>4, ConstantesDeIO DEF InvTipos, Control, Tipos, Pedidos
  <2>2. pc'[0] \in Preparando => hechos' \in Pedidos /\ pc'[hechos'] = "nada"
    BY <1>2, <1>3, <1>4 DEF InvTipos, Control
  <2> QED BY <1>4, <2>1, <2>2 DEF Control
<1>6. Argumentos'
  <2>1. \A n \in Pedidos : pc'[n] \in Usa <=> pc[n] \in Usa
    <3>1. "duerme" \in Usa /\ "arranca" \in Usa /\ "nada" \in Usa /\ 0 \notin Pedidos
      BY DEF Usa, Pedidos
    <3> QED BY <1>3, <1>4, <3>1
  <2>2. \A n \in Pedidos : pc'[n] = "duerme" => (n = m /\ e = "duerme") \/ pc[n] = "duerme"
    BY <1>4
  <2>3. \A n \in Pedidos : pc'[n] \in DeDump => (n = m /\ e = "arranca") \/ pc[n] \in DeDump
    BY <1>4 DEF DeDump
  <2> QED BY <1>3, <2>1, <2>2, <2>3 DEF InvTipos, Argumentos
<1>7. EnEspera(Tail(q))' /\ DeClase(Tail(q), c)'
  <2> DEFINE t == Tail(q)
  <2>1. /\ t \in Seq(Pedidos) /\ Len(t) = Len(q) - 1 /\ Len(q) \in Nat
        /\ \A i \in 1 .. Len(t) : t[i] = q[i + 1] /\ i + 1 \in 1 .. Len(q) /\ i + 1 # 1
    BY RestoTipo DEF EnEspera
  <2> HIDE DEF t
  <2>0. /\ \A i, j \in 1 .. Len(q) : q[i] = q[j] => i = j
        /\ \A i \in 1 .. Len(q) : q[i] \in Pedidos /\ pc[q[i]] = "nada"
    BY DEF EnEspera
  <2>2. \A i \in 1 .. Len(t) : t[i] # m /\ t[i] \in Pedidos /\ pc[t[i]] = "nada"
    BY <2>0, <2>1, <1>2
  <2>3. \A i \in 1 .. Len(t) : pc'[t[i]] = "nada"
    BY <2>2, <1>4
  <2>4. \A i \in 1 .. Len(t) : t[i] <= hechos' /\ (pc'[0] \in Preparando => t[i] # hechos')
    <3>1. pc'[0] \in Preparando => pc[0] \in Preparando
      BY <1>4
    <3>2. \A i \in 1 .. Len(t) : q[i + 1] <= hechos /\ (pc[0] \in Preparando => q[i + 1] # hechos)
      BY <2>1 DEF EnEspera
    <3> QED BY <2>1, <3>1, <3>2
  <2>5. \A i, j \in 1 .. Len(t) : t[i] = t[j] => i = j
    BY SMTT(30), <2>1 DEF EnEspera
  <2>6. \A i \in 1 .. Len(t) : args'[t[i]].clase = c
    BY <2>1 DEF DeClase
  <2>7. EnEspera(t)' /\ DeClase(t, c)'
    BY ONLY <2>1, <2>3, <2>4, <2>5, <2>6 DEF EnEspera, DeClase
  <2> QED BY <2>7 DEF t
<1>8. EnEspera(r)' /\ DeClase(r, d)'
  <2>1. \A i \in 1 .. Len(r) : r[i] # m /\ r[i] \in Pedidos /\ pc[r[i]] = "nada"
    BY <1>3 DEF EnEspera, DeClase
  <2>2. \A i \in 1 .. Len(r) : pc'[r[i]] = "nada"
    BY <2>1, <1>4
  <2>3. pc'[0] \in Preparando => pc[0] \in Preparando
    BY <1>4
  <2> QED BY <2>2, <2>3 DEF EnEspera, DeClase
<1> QED BY <1>5, <1>6, <1>7, <1>8

\* The turn of an IO.
LEMMA IOTipos ==
  ASSUME InvTipos, NEW k \in KHilos, RevisarIO(k) \/ TomarIO(k)
  PROVE  InvTipos'
<1> USE DEF eleccion, colas, esperas, turnos, locales, cpus
<1>1. CASE RevisarIO(k)
  <2>1. Control' /\ Argumentos' /\ Colas'
    BY <1>1, PasaTipos DEF RevisarIO, TrasRevisarIO, En, Pasa, Puntos, Fuera, Usa, DeDump
  <2>2. Tipos' /\ Caben'
    BY <1>1, AnotaTipo DEF RevisarIO, En, Pasa, InvTipos, Tipos, Caben
  <2> QED BY <2>1, <2>2 DEF InvTipos
<1>2. CASE TomarIO(k)
  <2>1. CASE cola_hilos_BLOCK_IO = <<>>
    <3>1. Control' /\ Argumentos' /\ Colas'
      BY <1>2, <2>1, PasaTipos DEF TomarIO, TrasRevisarIO, En, Pasa, Puntos, Fuera, Usa, DeDump
    <3>2. Tipos' /\ Caben'
      BY <1>2, <2>1, AnotaTipo DEF TomarIO, En, Pasa, InvTipos, Tipos, Caben
    <3> QED BY <3>1, <3>2 DEF InvTipos
  <2>2. CASE cola_hilos_BLOCK_IO # <<>>
    <3>1. PICK q, r : q = cola_hilos_BLOCK_IO /\ r = cola_hilos_BLOCK_DUMP_MEMORY
      OBVIOUS
    <3>2. EnEspera(q) /\ DeClase(q, "IO") /\ EnEspera(r) /\ DeClase(r, "DUMP") /\ q # <<>>
      BY <3>1, <2>2 DEF InvTipos, Colas
    <3>3. /\ hilo_IO' = Head(q) /\ cola_hilos_BLOCK_IO' = Tail(q) /\ Anota
          /\ pc' = [pc EXCEPT ![k] = TrasRevisarIO(k), ![Head(q)] = "duerme"] /\ pc[k] = "toma_io"
          /\ UNCHANGED <<eleccion, cola_hilos_BLOCK, cola_hilos_BLOCK_DUMP_MEMORY, locales>>
          /\ UNCHANGED <<hilo_DUMP_MEMORY, kernel, cpus, cola_procesos_READY>>
      BY <1>2, <2>2, <3>1 DEF TomarIO, En
    <3>4. /\ Control' /\ Argumentos'
          /\ EnEspera(Tail(q))' /\ DeClase(Tail(q), "IO")' /\ EnEspera(r)' /\ DeClase(r, "DUMP")'
      <4>1. PICK p : p = TrasRevisarIO(k)
        OBVIOUS
      <4>2. /\ p \in Puntos /\ p \notin {"nada", "duerme"} /\ pc[k] # "nada" /\ p \notin Preparando
            /\ k # 0 => (p \in Usa <=> pc[k] \in Usa) /\ (p \in DeDump => pc[k] \in DeDump)
        BY <3>3, <4>1 DEF TrasRevisarIO, Puntos, Preparando, Fuera, Usa, DeDump
      <4>3. pc' = [pc EXCEPT ![k] = p, ![Head(q)] = "duerme"] /\ UNCHANGED <<args, hechos>>
        BY <3>3, <4>1
      <4> QED BY <3>2, <4>2, <4>3, TomarTipos
    <3>5. Colas'
      <4>1. EnEspera(cola_hilos_BLOCK_IO)' /\ DeClase(cola_hilos_BLOCK_IO, "IO")'
        <5>1. cola_hilos_BLOCK_IO' = Tail(q)
          BY <3>3
        <5> QED BY ONLY <5>1, <3>4 DEF EnEspera, DeClase
      <4>3. cola_hilos_BLOCK_DUMP_MEMORY' = r
        BY <3>1, <3>3
      <4>2. EnEspera(cola_hilos_BLOCK_DUMP_MEMORY)' /\ DeClase(cola_hilos_BLOCK_DUMP_MEMORY, "DUMP")'
        BY ONLY <3>4, <4>3 DEF EnEspera, DeClase
      <4> QED BY <4>1, <4>2 DEF Colas
    <3>6. Head(q) \in Pedidos
      BY <3>2, RestoTipo DEF EnEspera
    <3>7. Tipos' /\ Caben'
      BY <3>3, <3>6, AnotaTipo DEF InvTipos, Tipos, Caben
    <3> QED BY <3>4, <3>5, <3>7 DEF InvTipos
  <2> QED BY <2>1, <2>2
<1> QED BY <1>1, <1>2

\* The turn of a dump.
LEMMA DumpTipos ==
  ASSUME InvTipos, NEW k \in KHilos, RevisarDump(k) \/ TomarDump(k)
  PROVE  InvTipos'
<1> USE DEF eleccion, colas, esperas, turnos, locales, cpus
<1>1. CASE RevisarDump(k)
  <2>1. Control' /\ Argumentos' /\ Colas'
    BY <1>1, PasaTipos DEF RevisarDump, TrasRevisarDump, En, Pasa, Puntos, Fuera, Usa, DeDump
  <2>2. Tipos' /\ Caben'
    BY <1>1, AnotaTipo DEF RevisarDump, En, Pasa, InvTipos, Tipos, Caben
  <2> QED BY <2>1, <2>2 DEF InvTipos
<1>2. CASE TomarDump(k)
  <2>1. CASE cola_hilos_BLOCK_DUMP_MEMORY = <<>>
    <3>1. Control' /\ Argumentos' /\ Colas'
      BY <1>2, <2>1, PasaTipos
      DEF TomarDump, TrasRevisarDump, En, Pasa, Puntos, Fuera, Usa, DeDump
    <3>2. Tipos' /\ Caben'
      BY <1>2, <2>1, AnotaTipo DEF TomarDump, En, Pasa, InvTipos, Tipos, Caben
    <3> QED BY <3>1, <3>2 DEF InvTipos
  <2>2. CASE cola_hilos_BLOCK_DUMP_MEMORY # <<>> /\ hilo_EXEC = Nadie
    BY <1>2, <2>2, CaeTipos DEF TomarDump
  <2>3. CASE cola_hilos_BLOCK_DUMP_MEMORY # <<>> /\ hilo_EXEC # Nadie
    <3>1. PICK q, r : q = cola_hilos_BLOCK_DUMP_MEMORY /\ r = cola_hilos_BLOCK_IO
      OBVIOUS
    <3>2. EnEspera(q) /\ DeClase(q, "DUMP") /\ EnEspera(r) /\ DeClase(r, "IO") /\ q # <<>>
      BY <3>1, <2>3 DEF InvTipos, Colas
    <3>3. /\ hilo_DUMP_MEMORY' = Head(q) /\ cola_hilos_BLOCK_DUMP_MEMORY' = Tail(q) /\ Anota
          /\ pc' = [pc EXCEPT ![k] = TrasRevisarDump(k), ![Head(q)] = "arranca"]
          /\ pc[k] = "toma_dump"
          /\ UNCHANGED <<eleccion, cola_hilos_BLOCK, cola_hilos_BLOCK_IO, hilo_IO, locales>>
          /\ UNCHANGED <<kernel, cpus, cola_procesos_READY>>
      BY <1>2, <2>3, <3>1 DEF TomarDump, En
    <3>4. /\ Control' /\ Argumentos'
          /\ EnEspera(Tail(q))' /\ DeClase(Tail(q), "DUMP")' /\ EnEspera(r)' /\ DeClase(r, "IO")'
      <4>1. PICK p : p = TrasRevisarDump(k)
        OBVIOUS
      <4>2. /\ p \in Puntos /\ p \notin {"nada", "duerme"} /\ pc[k] # "nada" /\ p \notin Preparando
            /\ k # 0 => (p \in Usa <=> pc[k] \in Usa) /\ (p \in DeDump => pc[k] \in DeDump)
        BY <3>3, <4>1 DEF TrasRevisarDump, Puntos, Preparando, Fuera, Usa, DeDump
      <4>3. pc' = [pc EXCEPT ![k] = p, ![Head(q)] = "arranca"] /\ UNCHANGED <<args, hechos>>
        BY <3>3, <4>1
      <4>4. "DUMP" # "IO" /\ "DUMP" = IF "arranca" = "duerme" THEN "IO" ELSE "DUMP"
        OBVIOUS
      <4> QED BY <3>2, <4>2, <4>3, <4>4, TomarTipos
    <3>5. Colas'
      <4>1. EnEspera(cola_hilos_BLOCK_DUMP_MEMORY)' /\ DeClase(cola_hilos_BLOCK_DUMP_MEMORY, "DUMP")'
        <5>1. cola_hilos_BLOCK_DUMP_MEMORY' = Tail(q)
          BY <3>3
        <5> QED BY ONLY <5>1, <3>4 DEF EnEspera, DeClase
      <4>3. cola_hilos_BLOCK_IO' = r
        BY <3>1, <3>3
      <4>2. EnEspera(cola_hilos_BLOCK_IO)' /\ DeClase(cola_hilos_BLOCK_IO, "IO")'
        BY ONLY <3>4, <4>3 DEF EnEspera, DeClase
      <4> QED BY <4>1, <4>2 DEF Colas
    <3>6. Head(q) \in Pedidos
      BY <3>2, RestoTipo DEF EnEspera
    <3>7. Tipos' /\ Caben'
      BY <3>3, <3>6, AnotaTipo DEF InvTipos, Tipos, Caben
    <3> QED BY <3>4, <3>5, <3>7 DEF InvTipos
  <2> QED BY <2>1, <2>2, <2>3
<1> QED BY <1>1, <1>2

\* The threads of the requests, on their own.
LEMMA ServicioTipos ==
  ASSUME InvTipos, NEW n \in KHilos, n # 0,
         SoltarIO(n) \/ Arrancar(n) \/ SoltarDump(n) \/ Probar(n)
  PROVE  InvTipos'
<1> USE DEF eleccion, colas, esperas, turnos, locales, cpus
<1>1. Control' /\ Argumentos' /\ Colas'
  <2>1. CASE SoltarIO(n)
    BY <2>1, PasaTipos DEF SoltarIO, En, Pasa, Puntos, Fuera, Usa, DeDump
  <2>2. CASE Arrancar(n)
    BY <2>2, PasaTipos DEF Arrancar, En, Pasa, Puntos, Fuera, Usa, DeDump
  <2>3. CASE SoltarDump(n)
    BY <2>3, PasaTipos DEF SoltarDump, En, Pasa, Puntos, Fuera, Usa, DeDump
  <2>4. CASE Probar(n)
    BY <2>4, PasaTipos DEF Probar, En, Pasa, Puntos, Fuera, Usa, DeDump
  <2> QED BY <2>1, <2>2, <2>3, <2>4
<1>2. Tipos' /\ Caben'
  BY AnotaTipo DEF SoltarIO, Arrancar, SoltarDump, Probar, Pasa, InvTipos, Tipos, Caben
<1> QED BY <1>1, <1>2 DEF InvTipos

LEMMA DesbloquearTipos ==
  ASSUME InvTipos, NEW n \in KHilos, n # 0, desbloquear_hilo(n)
  PROVE  InvTipos'
<1> USE DEF eleccion, colas, esperas, turnos, locales, cpus
<1> DEFINE s == cola_hilos_BLOCK
           j == SelectInSeq(s, LAMBDA h : h = Nadie \/ h[2] = args[n].hilo[2])
<1>1. CASE Cae
  BY <1>1, CaeTipos
<1>2. CASE ~Cae
  <2>1. /\ Pasa(n, "encola_ready") /\ pc[n] = "duerme"
        /\ cola_hilos_BLOCK' = IF j = 0 THEN s ELSE RemoveAt(s, j)
        /\ UNCHANGED <<eleccion, esperas, cola_procesos_READY, turnos, locales, kernel, cpus>>
    BY <1>2 DEF desbloquear_hilo, En
  <2> HIDE DEF j
  <2>2. Control' /\ Argumentos' /\ Colas'
    BY <2>1, PasaTipos DEF Pasa, Puntos, Fuera, Usa, DeDump
  <2>3. cola_hilos_BLOCK' \in Seq(Hilos \cup {Nadie})
    <3> DEFINE I == {i \in 1 .. Len(s) : s[i] = Nadie \/ s[i][2] = args[n].hilo[2]}
    <3>1. s \in Seq(Hilos \cup {Nadie})
      BY DEF InvTipos, Tipos
    <3>2. j = IF I # {} THEN Min(I) ELSE 0
      BY DEF SelectInSeq, j
    <3>3. I # {} => Min(I) \in I
      <4>1. I \in SUBSET Nat
        OBVIOUS
      <4> HIDE DEF I
      <4> QED BY <4>1, MinTipo
    <3>4. j = 0 \/ j \in 1 .. Len(s)
      BY <3>2, <3>3
    <3>5. cola_hilos_BLOCK' = IF j = 0 THEN s ELSE RemoveAt(s, j)
      BY <2>1
    <3> HIDE DEF s, I
    <3> QED BY <3>1, <3>4, <3>5, RemoveAtTipo
  <2>4. Tipos' /\ Caben'
    BY <2>1, <2>3, AnotaTipo DEF Pasa, InvTipos, Tipos, Caben
  <2> QED BY <2>2, <2>4 DEF InvTipos
<1> QED BY <1>1, <1>2

LEMMA ResponderTipos ==
  ASSUME InvTipos, NEW n \in KHilos, n # 0, Responder(n)
  PROVE  InvTipos'
<1> USE DEF eleccion, colas, esperas, turnos, locales, cpus
<1>1. CASE Cae
  BY <1>1, CaeTipos
<1>2. CASE ~BusquedaNula(args[n].hilo) /\ ~Cae
  <2>1. PICK r \in {0, 1} :
          /\ rta' = [rta EXCEPT ![n] = IF EnBlock(args[n].hilo) \/ r = 1 THEN r ELSE Nadie]
          /\ Pasa(n, "suelta_dump") /\ UNCHANGED <<eleccion, colas, turnos, args, hechos, victima, kernel, cpus>>
    BY <1>2 DEF Responder
  <2>2. Control' /\ Argumentos' /\ Colas'
    BY <2>1, PasaTipos DEF Responder, En, Pasa, Puntos, Fuera, Usa, DeDump
  <2>3. rta' \in [Pedidos -> {0, 1, Nadie}]
    BY <2>1 DEF InvTipos, Tipos
  <2>4. Tipos' /\ Caben'
    BY <2>1, <2>3, AnotaTipo DEF Pasa, InvTipos, Tipos, Caben
  <2> QED BY <2>2, <2>4 DEF InvTipos
<1> QED BY <1>1, <1>2 DEF Responder

\* The thread of a request goes on to p, and may forget or change its argument.
LEMMA DejaTipos ==
  ASSUME InvTipos, NEW n \in KHilos, n # 0, NEW p \in Puntos, NEW x \in Argumento \cup {Nadie},
         pc' = [pc EXCEPT ![n] = p], args' = [args EXCEPT ![n] = x],
         UNCHANGED <<hechos, cola_hilos_BLOCK_IO, cola_hilos_BLOCK_DUMP_MEMORY>>,
         pc[n] # "nada", p \notin {"nada", "duerme"},
         x # Nadie <=> n <= hechos /\ p \in Usa,
         p \in DeDump => x.clase = "DUMP"
  PROVE  Control' /\ Argumentos' /\ Colas'
<1>1. /\ pc' \in [KHilos -> Puntos] /\ pc'[n] = p /\ n \in Pedidos /\ Pedidos \subseteq KHilos
      /\ \A j \in KHilos \ {n} : pc'[j] = pc[j]
      /\ 0 \in KHilos /\ pc'[0] = pc[0]
  BY ConstantesDeIO DEF InvTipos, Control, KHilos, Pedidos
<1>2. args' \in [Pedidos -> Argumento \cup {Nadie}] /\ args'[n] = x
      /\ \A j \in Pedidos \ {n} : args'[j] = args[j]
  BY <1>1 DEF InvTipos, Argumentos
<1>3. Control'
  <2>1. \A j \in Pedidos : j > hechos' => pc'[j] = "nada"
    BY <1>1 DEF InvTipos, Control
  <2>2. pc'[0] \in Preparando => hechos' \in Pedidos /\ pc'[hechos'] = "nada"
    BY <1>1 DEF InvTipos, Control
  <2> QED BY <1>1, <2>1, <2>2 DEF Control
<1>4. Argumentos'
  <2>1. \A j \in Pedidos : args'[j] # Nadie <=> j <= hechos' /\ pc'[j] \in Usa
    BY <1>1, <1>2 DEF InvTipos, Argumentos
  <2>2. \A j \in Pedidos : pc'[j] = "duerme" => args'[j].clase = "IO"
    BY <1>1, <1>2 DEF InvTipos, Argumentos
  <2>3. \A j \in Pedidos : pc'[j] \in DeDump => args'[j].clase = "DUMP"
    BY <1>1, <1>2 DEF InvTipos, Argumentos
  <2> QED BY <1>2, <2>1, <2>2, <2>3 DEF Argumentos
<1>5. ASSUME NEW cola, NEW c, EnEspera(cola), DeClase(cola, c)
      PROVE  EnEspera(cola)' /\ DeClase(cola, c)'
  <2>1. \A i \in 1 .. Len(cola) : cola[i] \in Pedidos /\ pc[cola[i]] = "nada"
    BY <1>5 DEF EnEspera
  <2>2. \A i \in 1 .. Len(cola) : cola[i] # n /\ pc'[cola[i]] = "nada"
    BY <2>1, <1>1
  <2>3. DeClase(cola, c)'
    BY <1>5, <2>1, <2>2, <1>2 DEF DeClase
  <2> QED BY <1>5, <2>2, <2>3, <1>1 DEF EnEspera
<1>6. PICK q, r : q = cola_hilos_BLOCK_IO /\ r = cola_hilos_BLOCK_DUMP_MEMORY
  OBVIOUS
<1>7. EnEspera(q) /\ DeClase(q, "IO") /\ EnEspera(r) /\ DeClase(r, "DUMP")
  BY <1>6 DEF InvTipos, Colas
<1>8. EnEspera(q)' /\ DeClase(q, "IO")' /\ EnEspera(r)' /\ DeClase(r, "DUMP")'
  BY <1>5, <1>7
<1>9. cola_hilos_BLOCK_IO' = q /\ cola_hilos_BLOCK_DUMP_MEMORY' = r
  BY <1>6
<1>10. Colas'
  BY ONLY <1>8, <1>9 DEF Colas, EnEspera, DeClase
<1> QED BY <1>3, <1>4, <1>10

\* A thread that still needs its argument has one.
LEMMA ConSuArgumento ==
  ASSUME InvTipos, NEW n \in KHilos, n # 0, pc[n] \in Usa \ {"nada"}
  PROVE  n \in Pedidos /\ n <= hechos /\ args[n] \in Argumento /\ args[n] # Nadie
<1>1. n \in Pedidos
  BY DEF KHilos, Pedidos
<1>2. n <= hechos
  BY <1>1, ConstantesDeIO DEF InvTipos, Control, Tipos, Pedidos
<1> QED BY <1>1, <1>2 DEF InvTipos, Argumentos

LEMMA AgregarReadyTipos ==
  ASSUME InvTipos, NEW n \in KHilos, n # 0, AgregarReady(n)
  PROVE  InvTipos'
<1> USE DEF eleccion, colas, esperas, turnos, locales, cpus
<1>1. pc[n] = "encola_ready" /\ "encola_ready" \in Usa
  BY DEF AgregarReady, En, Usa
<1>2. n \in Pedidos /\ n <= hechos /\ args[n] \in Argumento
  BY <1>1, ConSuArgumento
<1>3. PICK p \in {"suelta_io", "prueba"} : pc' = [pc EXCEPT ![n] = p] /\ Anota
  BY DEF AgregarReady, Pasa
<1>4. p \in Puntos /\ p \notin Usa /\ p \notin DeDump
  BY <1>3 DEF Puntos, Fuera, Usa, DeDump
<1>5. Control' /\ Argumentos' /\ Colas'
  BY <1>1, <1>3, <1>4, DejaTipos DEF AgregarReady, Olvida
<1>6. args[n].hilo \in Hilos \cup {Nadie}
  BY <1>2 DEF Argumento
<1>7. cola_hilos_READY' \in Seq(Hilos \cup {Nadie})
  BY <1>6 DEF AgregarReady, InvTipos, Tipos
<1>8. rta' \in [Pedidos -> {0, 1, Nadie}]
  BY DEF AgregarReady, Olvida, InvTipos, Tipos
<1>9. Tipos' /\ Caben'
  BY <1>3, <1>7, <1>8, AnotaTipo DEF AgregarReady, Olvida, InvTipos, Tipos, Caben
<1> QED BY <1>5, <1>9 DEF InvTipos

LEMMA SacarTipos ==
  ASSUME InvTipos, NEW n \in KHilos, n # 0, Sacar(n)
  PROVE  InvTipos'
<1> USE DEF eleccion, colas, esperas, turnos, locales, cpus
<1>1. pc[n] = "saca_de_block" /\ "saca_de_block" \in Usa /\ "saca_de_block" \in DeDump
  BY DEF Sacar, En, Usa, DeDump
<1>2. n \in Pedidos /\ n <= hechos /\ args[n] \in Argumento
  BY <1>1, ConSuArgumento
<1>3. CASE Cae
  BY <1>3, CaeTipos
<1>4. CASE ~Cae
  <2> DEFINE h == args[n].hilo
             x == [args[n] EXCEPT !.hilo = IF EnBlock(h) THEN h ELSE Nadie]
  <2>1. /\ Pasa(n, "encola_ready") /\ cola_hilos_BLOCK' = RemoveFirst(cola_hilos_BLOCK, h)
        /\ args' = [args EXCEPT ![n] = x]
        /\ UNCHANGED <<eleccion, esperas, cola_procesos_READY, turnos, rta, hechos, victima,
                       kernel, cpus>>
    BY <1>4 DEF Sacar
  <2>2. x \in Argumento
    BY <1>2 DEF Argumento
  <2>3. x # Nadie
    BY <2>2, ConstantesDeIO DEF Argumento
  <2> HIDE DEF x, h
  <2>4. Control' /\ Argumentos' /\ Colas'
    <3>1. pc' = [pc EXCEPT ![n] = "encola_ready"]
      BY <2>1 DEF Pasa
    <3>2. /\ "encola_ready" \in Puntos /\ "encola_ready" \in Usa /\ "encola_ready" \notin DeDump
          /\ pc[n] # "nada"
      BY <1>1 DEF Puntos, Usa, DeDump
    <3> QED BY <1>2, <2>1, <2>2, <2>3, <3>1, <3>2, DejaTipos
  <2>5. cola_hilos_BLOCK' \in Seq(Hilos \cup {Nadie})
    BY <2>1, RemoveFirstTipo DEF InvTipos, Tipos
  <2>6. Tipos' /\ Caben'
    BY <2>1, <2>5, AnotaTipo DEF Pasa, InvTipos, Tipos, Caben
  <2> QED BY <2>4, <2>6 DEF InvTipos
<1> QED BY <1>3, <1>4

LEMMA RetirarTipos ==
  ASSUME InvTipos, NEW n \in KHilos, n # 0, Retirar(n)
  PROVE  InvTipos'
<1> USE DEF eleccion, colas, esperas, turnos, locales, cpus
<1>1. CASE Cae
  BY <1>1, CaeTipos
<1>2. CASE ~Cae
  <2>1. /\ Pasa(n, "prueba") /\ Olvida(n) /\ pc[n] = "retira"
        /\ cola_procesos_READY' = cola_procesos_READY \ {args[n].hilo[1]}
        /\ UNCHANGED <<eleccion, cola_hilos_BLOCK, esperas, turnos, kernel, cpus>>
    BY <1>2 DEF Retirar, En
  <2>2. Control' /\ Argumentos' /\ Colas'
    BY <2>1, DejaTipos DEF Olvida, Pasa, Puntos, Fuera, Usa, DeDump
  <2>3. cola_procesos_READY' \subseteq {h[1] : h \in Hilos}
    BY <2>1 DEF InvTipos, Tipos
  <2>4. rta' \in [Pedidos -> {0, 1, Nadie}]
    BY <2>1 DEF Olvida, InvTipos, Tipos
  <2>5. Tipos' /\ Caben'
    BY <2>1, <2>3, <2>4, AnotaTipo DEF Olvida, Pasa, InvTipos, Tipos, Caben
  <2> QED BY <2>2, <2>5 DEF InvTipos
<1> QED BY <1>1, <1>2

LEMMA FinalizarTipos ==
  ASSUME InvTipos, NEW n \in KHilos, n # 0, Finalizar(n)
  PROVE  InvTipos'
<1> USE DEF eleccion, colas, esperas, turnos, locales, cpus
<1>1. CASE Cae
  BY <1>1, CaeTipos
<1>2. CASE ~Cae
  <2>1. /\ Pasa(n, "busca_exec") /\ pc[n] = "finaliza"
        /\ UNCHANGED <<eleccion, colas, turnos, locales, kernel, cpus>>
    BY <1>2 DEF Finalizar, En
  <2>2. Control' /\ Argumentos' /\ Colas'
    BY <2>1, PasaTipos DEF Pasa, Puntos, Fuera, Usa, DeDump
  <2>3. Tipos' /\ Caben'
    BY <2>1, AnotaTipo DEF Pasa, InvTipos, Tipos, Caben
  <2> QED BY <2>2, <2>3 DEF InvTipos
<1> QED BY <1>1, <1>2

\* The search for a thread that ends goes on to one of these points.
LEMMA TrasBuscarTipo ==
  ASSUME NEW k \in KHilos, NEW b
  PROVE  /\ TrasBuscar(k, b) \in {"retira", "avisa", "reenvia"}
         /\ k # 0 <=> TrasBuscar(k, b) = "retira"
BY DEF TrasBuscar

LEMMA BuscarPasa ==
  ASSUME NEW k \in KHilos, buscar_hilo(k), ~Cae
  PROVE  /\ pc[k] \in {"busca_exec", "busca_ready", "busca_block"}
         /\ \E p \in {"retira", "avisa", "reenvia", "busca_ready", "busca_block"} :
              /\ Pasa(k, p)
              /\ k # 0 => p \notin {"avisa", "reenvia"}
              /\ k = 0 => p # "retira"
         /\ UNCHANGED <<hilo_EXEC, cola_hilos_BLOCK_IO, cola_hilos_BLOCK_DUMP_MEMORY>>
         /\ UNCHANGED <<cola_procesos_READY, hilo_IO, hilo_DUMP_MEMORY, args, rta, hechos, victima>>
         /\ UNCHANGED <<kernel, canal, pedidos>>
<1> USE DEF eleccion, colas, esperas, turnos, locales, cpus
<1>1. /\ pc[k] \in {"busca_exec", "busca_ready", "busca_block"}
      /\ UNCHANGED <<hilo_EXEC, cola_hilos_BLOCK_IO, cola_hilos_BLOCK_DUMP_MEMORY>>
      /\ UNCHANGED <<cola_procesos_READY, hilo_IO, hilo_DUMP_MEMORY, args, rta, hechos, victima>>
      /\ UNCHANGED <<kernel, canal, pedidos>>
  BY DEF buscar_hilo, BuscarExec, BuscarReady, BuscarBlock, En
<1>2. PICK p : /\ Pasa(k, p) /\ p \in {"retira", "avisa", "reenvia", "busca_ready", "busca_block"}
               /\ k # 0 => p \notin {"avisa", "reenvia"}
               /\ k = 0 => p # "retira"
  <2>1. CASE BuscarExec(k)
    <3>1. CASE hilo_EXEC = Buscado(k)
      <4>1. Pasa(k, TrasBuscar(k, TRUE))
        BY <2>1, <3>1 DEF BuscarExec
      <4> QED BY <4>1, TrasBuscarTipo
    <3>2. CASE hilo_EXEC # Buscado(k)
      BY <2>1, <3>2 DEF BuscarExec
    <3> QED BY <3>1, <3>2
  <2>2. CASE BuscarReady(k)
    <3>1. CASE Buscado(k) \in ToSet(cola_hilos_READY)
      <4>1. Pasa(k, TrasBuscar(k, TRUE))
        BY <2>2, <3>1 DEF BuscarReady
      <4> QED BY <4>1, TrasBuscarTipo
    <3>2. CASE Buscado(k) \notin ToSet(cola_hilos_READY)
      BY <2>2, <3>2 DEF BuscarReady
    <3> QED BY <3>1, <3>2
  <2>3. CASE BuscarBlock(k)
    <3>1. Pasa(k, TrasBuscar(k, EnBlock(Buscado(k))))
      BY <2>3 DEF BuscarBlock
    <3>2. PICK b : b = EnBlock(Buscado(k))
      OBVIOUS
    <3>3. Pasa(k, TrasBuscar(k, b))
      BY <3>1, <3>2
    <3> QED BY <3>3, TrasBuscarTipo
  <2> QED BY <2>1, <2>2, <2>3 DEF buscar_hilo
<1> QED BY <1>1, <1>2

LEMMA BuscarTipos ==
  ASSUME InvTipos, NEW k \in KHilos, buscar_hilo(k)
  PROVE  InvTipos'
<1> USE DEF eleccion, colas, esperas, turnos, locales, cpus
<1>1. CASE Cae
  BY <1>1, CaeTipos
<1>2. CASE ~Cae
  <2>1. PICK p \in {"retira", "avisa", "reenvia", "busca_ready", "busca_block"} :
          Pasa(k, p) /\ (k # 0 => p \notin {"avisa", "reenvia"})
    BY <1>2, BuscarPasa
  <2>2. /\ pc[k] \in {"busca_exec", "busca_ready", "busca_block"}
        /\ UNCHANGED <<hilo_EXEC, esperas, cola_procesos_READY, turnos, locales, kernel, cpus>>
    BY <1>2, BuscarPasa
  <2>3. Control' /\ Argumentos' /\ Colas'
    <3>1. /\ p \in Puntos /\ p \notin {"nada", "duerme"} /\ p \notin Preparando /\ pc[k] # "nada"
          /\ k # 0 => (p \in Usa <=> pc[k] \in Usa) /\ (p \in DeDump => pc[k] \in DeDump)
      BY <2>1, <2>2 DEF Puntos, Preparando, Usa, DeDump
    <3> QED BY <2>1, <2>2, <3>1, PasaTipos DEF Pasa
  <2>4. /\ cola_hilos_READY' \in Seq(Hilos \cup {Nadie})
        /\ cola_hilos_BLOCK' \in Seq(Hilos \cup {Nadie})
    <3>1. /\ cola_hilos_READY \in Seq(Hilos \cup {Nadie})
          /\ cola_hilos_BLOCK \in Seq(Hilos \cup {Nadie})
      BY DEF InvTipos, Tipos
    <3>2. /\ cola_hilos_READY' \in {cola_hilos_READY, RemoveFirst(cola_hilos_READY, Buscado(k))}
          /\ cola_hilos_BLOCK' \in {cola_hilos_BLOCK, RemoveFirst(cola_hilos_BLOCK, Buscado(k))}
      BY <1>2 DEF buscar_hilo, BuscarExec, BuscarReady, BuscarBlock
    <3> QED BY <3>1, <3>2, RemoveFirstTipo
  <2>5. Tipos' /\ Caben'
    BY <2>1, <2>2, <2>4, AnotaTipo DEF Pasa, InvTipos, Tipos, Caben
  <2> QED BY <2>3, <2>5 DEF InvTipos
<1> QED BY <1>1, <1>2

\* What the dispatch thread does after the search.
LEMMA FinDeHiloTipos ==
  ASSUME InvTipos, AvisarFin \/ RevisarExec \/ Reenviar
  PROVE  InvTipos'
<1> USE DEF eleccion, colas, esperas, turnos, locales, cpus
<1>1. CASE Cae
  BY <1>1, CaeTipos
<1>2. CASE ~Cae
  <2>1. PICK p \in {"elige", "revisa_exec", "reenvia", "recibe"} : Pasa(0, p)
    BY <1>2 DEF AvisarFin, RevisarExec, Reenviar, enviar_a_ejecucion, Termina
  <2>2. /\ pc[0] \in {"avisa", "revisa_exec", "reenvia"} /\ 0 \in KHilos
        /\ UNCHANGED <<eleccion, colas, turnos, args, rta, hechos, kernel, pedidos>>
    BY <1>2, ConstantesDeIO DEF AvisarFin, RevisarExec, Reenviar, enviar_a_ejecucion, En,
                                   KHilos
  <2>3. Control' /\ Argumentos' /\ Colas'
    <3>1. p \in Puntos /\ p \notin {"nada", "duerme"} /\ p \notin Preparando
      BY <2>1 DEF Puntos, Fuera, Preparando
    <3> QED BY <2>1, <2>2, <3>1, PasaTipos DEF Pasa
  <2>4. canal' \in Seq(Hilos) /\ victima' \in Hilos \cup {Nadie}
    <3>1. CASE AvisarFin
      BY <1>2, <3>1 DEF AvisarFin, InvTipos, Tipos
    <3>2. CASE Reenviar
      <4>1. hilo_EXEC # Nadie /\ canal' = Append(canal, hilo_EXEC) /\ victima' = victima
        BY <1>2, <3>2 DEF Reenviar, enviar_a_ejecucion
      <4>2. hilo_EXEC \in Hilos /\ canal \in Seq(Hilos) /\ victima \in Hilos \cup {Nadie}
        BY <4>1 DEF InvTipos, Tipos
      <4> QED BY <4>1, <4>2
    <3>3. CASE RevisarExec
      BY <3>3 DEF RevisarExec, InvTipos, Tipos
    <3> QED BY <3>1, <3>2, <3>3
  <2>5. Tipos' /\ Caben'
    BY <2>1, <2>2, <2>4, AnotaTipo DEF Pasa, InvTipos, Tipos, Caben
  <2> QED BY <2>3, <2>5 DEF InvTipos
<1> QED BY <1>1, <1>2

\* A request goes to BLOCK with hilo_EXEC, and takes it as its argument.
LEMMA PrepararTipos ==
  ASSUME InvTipos, Bloquear \/ AnotarArgs
  PROVE  InvTipos'
<1> USE DEF eleccion, colas, esperas, turnos, locales, cpus
<1>0. 0 \in KHilos /\ 0 \notin Pedidos /\ Pedidos \subseteq KHilos
  BY ConstantesDeIO DEF KHilos, Pedidos
<1>1. CASE Cae
  BY <1>1, CaeTipos
<1>2. CASE Bloquear
  <2>1. /\ pc[0] = "bloquea" /\ pc' = [pc EXCEPT ![0] = "anota_args"]
        /\ UNCHANGED <<args, hechos, cola_hilos_BLOCK_IO, cola_hilos_BLOCK_DUMP_MEMORY>>
    BY <1>2 DEF Bloquear, En, Pasa
  <2>4. "anota_args" \in Puntos /\ pc[0] \in Preparando
    BY <2>1 DEF Puntos, Preparando
  <2>5. Control' /\ Argumentos' /\ Colas'
    BY <1>0, <2>1, <2>4, MueveTipos
  <2>2. cola_hilos_BLOCK' \in Seq(Hilos \cup {Nadie})
    BY <1>2 DEF Bloquear, InvTipos, Tipos
  <2>3. Tipos' /\ Caben'
    BY <1>2, <2>2, AnotaTipo DEF Bloquear, Pasa, InvTipos, Tipos, Caben
  <2> QED BY <2>3, <2>5 DEF InvTipos
<1>3. CASE AnotarArgs /\ ~Cae
  <2>1. /\ pc[0] = "anota_args" /\ pc' = [pc EXCEPT ![0] = "encola"] /\ Anota /\ hilo_EXEC # Nadie
        /\ args' = [args EXCEPT ![hechos].hilo = hilo_EXEC]
        /\ UNCHANGED <<eleccion, colas, turnos, rta, hechos, victima, kernel, cpus>>
    BY <1>3 DEF AnotarArgs, En, Pasa
  <2>2. hechos \in Pedidos /\ pc[hechos] = "nada"
    BY <2>1 DEF InvTipos, Control, Preparando
  <2>3. args[hechos] \in Argumento /\ args[hechos] # Nadie
    BY <2>2 DEF InvTipos, Argumentos, Usa, Pedidos
  <2>4. PICK x : x = [args[hechos] EXCEPT !.hilo = hilo_EXEC]
    OBVIOUS
  <2>5. x \in Argumento /\ x # Nadie /\ x.clase = args[hechos].clase
    <3>1. hilo_EXEC \in Hilos \cup {Nadie}
      BY DEF InvTipos, Tipos
    <3>2. x \in Argumento /\ x.clase = args[hechos].clase
      BY <2>3, <2>4, <3>1 DEF Argumento
    <3> QED BY <3>2, ConstantesDeIO DEF Argumento
  <2>6. /\ args' \in [Pedidos -> Argumento \cup {Nadie}] /\ args'[hechos] = x
        /\ \A j \in Pedidos \ {hechos} : args'[j] = args[j]
    BY <2>1, <2>2, <2>4, <2>5 DEF InvTipos, Argumentos
  <2>7. /\ pc' \in [KHilos -> Puntos] /\ pc'[0] = "encola" /\ \A j \in Pedidos : pc'[j] = pc[j]
    BY <1>0, <2>1 DEF InvTipos, Control, Puntos
  <2>8. Control'
    BY <2>1, <2>2, <2>7 DEF InvTipos, Control
  <2>9. \A j \in Pedidos : (args'[j] # Nadie <=> args[j] # Nadie) /\ args'[j].clase = args[j].clase
    BY <2>3, <2>5, <2>6
  <2>10. Argumentos'
    BY <2>1, <2>6, <2>7, <2>9 DEF InvTipos, Argumentos
  <2>11. ASSUME NEW q, NEW c, EnEspera(q), DeClase(q, c)
         PROVE  EnEspera(q)' /\ DeClase(q, c)'
    <3>1. \A i \in 1 .. Len(q) : q[i] \in Pedidos /\ pc'[q[i]] = pc[q[i]] /\ q[i] # hechos
      BY <2>1, <2>7, <2>11 DEF EnEspera, Preparando
    <3>2. DeClase(q, c)'
      BY <2>9, <2>11, <3>1 DEF DeClase
    <3> QED BY <2>1, <2>11, <3>1, <3>2 DEF EnEspera
  <2>12. Colas'
    <3>1. PICK q, r : q = cola_hilos_BLOCK_IO /\ r = cola_hilos_BLOCK_DUMP_MEMORY
      OBVIOUS
    <3>2. EnEspera(q) /\ DeClase(q, "IO") /\ EnEspera(r) /\ DeClase(r, "DUMP")
      BY <3>1 DEF InvTipos, Colas
    <3>3. EnEspera(q)' /\ DeClase(q, "IO")' /\ EnEspera(r)' /\ DeClase(r, "DUMP")'
      BY <2>11, <3>2
    <3>4. cola_hilos_BLOCK_IO' = q /\ cola_hilos_BLOCK_DUMP_MEMORY' = r
      BY <2>1, <3>1
    <3> QED BY ONLY <3>3, <3>4 DEF Colas, EnEspera, DeClase
  <2>13. Tipos' /\ Caben'
    BY <2>1, AnotaTipo DEF InvTipos, Tipos, Caben
  <2> QED BY <2>8, <2>10, <2>12, <2>13 DEF InvTipos
<1> QED BY <1>1, <1>2, <1>3

\* A request appended to its queue.
LEMMA EncolarTipos ==
  ASSUME InvTipos, Encolar
  PROVE  InvTipos'
<1> USE DEF eleccion, colas, esperas, turnos, locales, cpus
<1>1. pc[0] = "encola" /\ hechos \in Pedidos /\ pc[hechos] = "nada"
  BY DEF Encolar, En, InvTipos, Control, Preparando
<1>2. PICK p \in {"revisa_io", "revisa_dump"} : pc' = [pc EXCEPT ![0] = p] /\ Anota
  BY DEF Encolar, Pasa
<1>3. /\ pc' \in [KHilos -> Puntos] /\ pc'[0] = p /\ 0 \in KHilos /\ Pedidos \subseteq KHilos
      /\ \A j \in Pedidos : pc'[j] = pc[j]
  BY <1>2, ConstantesDeIO DEF InvTipos, Control, KHilos, Pedidos, Puntos, Fuera
<1>4. UNCHANGED <<args, rta, hechos>>
  BY DEF Encolar
<1>5. Control' /\ Argumentos'
  <2>1. pc'[0] \notin Preparando
    BY <1>2, <1>3 DEF Preparando
  <2>2. Control'
    BY <1>3, <1>4, <2>1 DEF InvTipos, Control
  <2>3. Argumentos'
    BY <1>3, <1>4 DEF InvTipos, Argumentos
  <2> QED BY <2>2, <2>3
<1>6. ASSUME NEW q, NEW c, EnEspera(q), DeClase(q, c)
      PROVE  /\ EnEspera(q)' /\ DeClase(q, c)'
             /\ args[hechos].clase = c
                  => EnEspera(Append(q, hechos))' /\ DeClase(Append(q, hechos), c)'
  <2>1. \A i \in 1 .. Len(q) : q[i] \in Pedidos /\ pc'[q[i]] = "nada" /\ q[i] # hechos /\ q[i] <= hechos'
    <3>1. pc[0] \in Preparando
      BY <1>1 DEF Preparando
    <3> QED BY <1>6, <1>1, <1>3, <1>4, <3>1 DEF EnEspera
  <2>2. EnEspera(q)' /\ DeClase(q, c)'
    BY <1>6, <2>1, <1>3, <1>4 DEF EnEspera, DeClase
  <2>3. ASSUME args[hechos].clase = c
        PROVE  EnEspera(Append(q, hechos))' /\ DeClase(Append(q, hechos), c)'
    <3>1. PICK u, m : u = Append(q, hechos) /\ m = hechos
      OBVIOUS
    <3>2. /\ u \in Seq(Pedidos) /\ Len(u) = Len(q) + 1 /\ Len(q) \in Nat
          /\ \A i \in 1 .. Len(q) : u[i] = q[i]
          /\ u[Len(q) + 1] = m
      BY <1>6, <1>1, <3>1 DEF EnEspera
    <3>3. \A i \in 1 .. Len(u) : i \in 1 .. Len(q) \/ i = Len(q) + 1
      BY <3>2
    <3>4. \A i \in 1 .. Len(u) : pc'[u[i]] = "nada" /\ u[i] <= hechos'
      BY <2>1, <3>1, <3>2, <3>3, <1>1, <1>3, <1>4, ConstantesDeIO DEF Pedidos
    <3>5. \A i, j \in 1 .. Len(u) : u[i] = u[j] => i = j
      BY <1>6, <2>1, <3>1, <3>2, <3>3 DEF EnEspera
    <3>6. \A i \in 1 .. Len(u) : args'[u[i]].clase = c
      BY <1>6, <2>3, <3>1, <3>2, <3>3, <1>4 DEF DeClase
    <3>7. pc'[0] \notin Preparando
      BY <1>2, <1>3 DEF Preparando
    <3>8. EnEspera(u)' /\ DeClase(u, c)'
      BY <3>2, <3>4, <3>5, <3>6, <3>7 DEF EnEspera, DeClase
    <3>9. Append(q, hechos)' = u
      BY <3>1, <1>4
    <3> QED BY ONLY <3>8, <3>9 DEF EnEspera, DeClase
  <2> QED BY <2>2, <2>3
<1>7. PICK q, r : q = cola_hilos_BLOCK_IO /\ r = cola_hilos_BLOCK_DUMP_MEMORY
  OBVIOUS
<1>8. /\ EnEspera(q) /\ DeClase(q, "IO") /\ q \in Seq(Pedidos)
      /\ EnEspera(r) /\ DeClase(r, "DUMP") /\ r \in Seq(Pedidos)
  BY <1>7 DEF InvTipos, Colas, EnEspera
<1>9. /\ EnEspera(q)' /\ DeClase(q, "IO")' /\ EnEspera(r)' /\ DeClase(r, "DUMP")'
      /\ args[hechos].clase = "IO"
           => EnEspera(Append(q, hechos))' /\ DeClase(Append(q, hechos), "IO")'
      /\ args[hechos].clase = "DUMP"
           => EnEspera(Append(r, hechos))' /\ DeClase(Append(r, hechos), "DUMP")'
  BY <1>6, <1>8
<1>10. Colas'
  <2>1. CASE /\ args[hechos].clase = "IO" /\ cola_hilos_BLOCK_IO' = Append(q, hechos)
             /\ cola_hilos_BLOCK_DUMP_MEMORY' = r
    <3>1. cola_hilos_BLOCK_IO' = Append(q, hechos)'
      BY <2>1, <1>4
    <3> QED BY ONLY <2>1, <3>1, <1>9 DEF Colas, EnEspera, DeClase
  <2>2. CASE /\ args[hechos].clase = "DUMP" /\ cola_hilos_BLOCK_DUMP_MEMORY' = Append(r, hechos)
             /\ cola_hilos_BLOCK_IO' = q
    <3>1. cola_hilos_BLOCK_DUMP_MEMORY' = Append(r, hechos)'
      BY <2>2, <1>4
    <3> QED BY ONLY <2>2, <3>1, <1>9 DEF Colas, EnEspera, DeClase
  <2> QED BY <2>1, <2>2, <1>7 DEF Encolar
<1>11. Tipos' /\ Caben'
  BY <1>2, AnotaTipo DEF Encolar, InvTipos, Tipos, Caben
<1> QED BY <1>5, <1>10, <1>11 DEF InvTipos

\* A request received, and a thread that ends.
LEMMA RecibirTipos ==
  ASSUME InvTipos, TerminarHilo \/ \E c \in Clases : Recibir(c)
  PROVE  InvTipos'
<1> USE DEF eleccion, colas, esperas, turnos, locales, cpus
<1>1. CASE Cae
  BY <1>1, CaeTipos
<1>2. ASSUME pedidos # <<>>, pedidos' = Tail(pedidos), NEW m \in Nat, hechos' = hechos + m, m <= 1
      PROVE  Caben'
  <2>1. PICK s : s = pedidos
    OBVIOUS
  <2>2. /\ Tail(s) \in Seq(Clases \cup {"EXIT"}) /\ Len(Tail(s)) = Len(s) - 1 /\ Len(s) \in Nat
        /\ \A i \in 1 .. Len(Tail(s)) : Tail(s)[i] = s[i + 1] /\ i + 1 \in 1 .. Len(s)
    BY <1>2, <2>1 DEF InvTipos, Caben
  <2>3. \A i \in 1 .. Len(s) : s[i] # "EXIT" => hechos + i <= MaxPedidos
    BY <2>1 DEF InvTipos, Caben
  <2>4. \A i \in 1 .. Len(Tail(s)) : Tail(s)[i] # "EXIT" => hechos' + i <= MaxPedidos
    <3>1. hechos \in Nat /\ MaxPedidos \in Nat
      BY ConstantesDeIO DEF InvTipos, Tipos
    <3>2. \A i \in 1 .. Len(Tail(s)) : Tail(s)[i] # "EXIT" => hechos + (i + 1) <= MaxPedidos
      BY <2>2, <2>3
    <3> QED BY <1>2, <2>2, <3>1, <3>2
  <2>5. pedidos' = Tail(s)
    BY <1>2, <2>1
  <2> QED BY <2>2, <2>4, <2>5 DEF Caben
<1>3. CASE TerminarHilo /\ ~Cae
  <2>1. /\ pedidos # <<>> /\ pedidos' = Tail(pedidos) /\ Pasa(0, "busca_exec") /\ pc[0] = "recibe"
        /\ victima' = hilo_EXEC
        /\ UNCHANGED <<eleccion, colas, turnos, args, rta, hechos, kernel, canal>>
    BY <1>3 DEF TerminarHilo, En
  <2>2. 0 \in KHilos
    BY ConstantesDeIO DEF KHilos
  <2>3. Control' /\ Argumentos' /\ Colas'
    BY <2>1, <2>2, PasaTipos DEF Pasa, Puntos, Fuera, Usa, DeDump
  <2>4. hechos' = hechos + 0
    BY <2>1 DEF InvTipos, Tipos
  <2>5. Caben'
    BY <2>1, <2>4, <1>2
  <2>6. Tipos'
    BY <2>1, AnotaTipo DEF Pasa, InvTipos, Tipos
  <2> QED BY <2>3, <2>5, <2>6 DEF InvTipos
<1>4. ASSUME NEW c \in Clases, Recibir(c), ~Cae
      PROVE  InvTipos'
  <2> DEFINE m == hechos + 1
             x == [clase |-> c, hilo |-> Nadie]
  <2>1. /\ pedidos # <<>> /\ Head(pedidos) = c /\ pedidos' = Tail(pedidos)
        /\ Pasa(0, "bloquea") /\ pc[0] = "recibe"
        /\ hechos' = m /\ args' = [args EXCEPT ![m] = x]
        /\ UNCHANGED <<eleccion, colas, turnos, rta, victima, kernel, canal>>
    BY <1>4 DEF Recibir, En
  <2>2. m \in Pedidos
    <3>1. c # "EXIT"
      BY ConstantesDeIO
    <3>2. 1 \in 1 .. Len(pedidos) /\ pedidos[1] = c
      BY <2>1 DEF InvTipos, Caben
    <3>3. hechos + 1 <= MaxPedidos
      BY <3>1, <3>2 DEF InvTipos, Caben
    <3> QED BY <3>3, ConstantesDeIO DEF InvTipos, Tipos, Pedidos
  <2>3. x \in Argumento /\ x # Nadie /\ x.clase = c
    BY ConstantesDeIO DEF Argumento
  <2> HIDE DEF x
  <2>4. pc[m] = "nada" /\ hechos < m /\ hechos \in Nat
    BY <2>2, ConstantesDeIO DEF InvTipos, Control, Tipos, Pedidos
  <2>5. /\ pc' \in [KHilos -> Puntos] /\ pc'[0] = "bloquea" /\ 0 \in KHilos /\ Pedidos \subseteq KHilos
        /\ \A j \in Pedidos : pc'[j] = pc[j]
    BY <2>1, ConstantesDeIO DEF Pasa, InvTipos, Control, KHilos, Pedidos, Puntos
  <2>6. Control'
    <3>1. \A n \in Pedidos : n > hechos' => pc'[n] = "nada"
      BY <2>1, <2>4, <2>5 DEF InvTipos, Control, Pedidos
    <3> QED BY <3>1, <2>1, <2>2, <2>4, <2>5 DEF Control
  <2>7. Argumentos'
    <3>1. args' \in [Pedidos -> Argumento \cup {Nadie}] /\ args'[m] = x
          /\ \A j \in Pedidos \ {m} : args'[j] = args[j]
      BY <2>1, <2>2, <2>3 DEF InvTipos, Argumentos
    <3>2. \A j \in Pedidos \ {m} : j <= hechos' <=> j <= hechos
      BY <2>1, <2>4 DEF Pedidos
    <3>3. "nada" \in Usa /\ "nada" \notin DeDump /\ m <= hechos'
      BY <2>1, <2>4 DEF Usa, DeDump
    <3>4. \A j \in Pedidos : args'[j] # Nadie <=> j <= hechos' /\ pc'[j] \in Usa
      <4>1. args'[m] # Nadie /\ m <= hechos' /\ pc'[m] \in Usa
        BY <3>1, <3>3, <2>2, <2>3, <2>4, <2>5
      <4>2. \A j \in Pedidos \ {m} : args'[j] # Nadie <=> j <= hechos' /\ pc'[j] \in Usa
        BY <3>1, <3>2, <2>5 DEF InvTipos, Argumentos
      <4> HIDE DEF m
      <4> QED BY <4>1, <4>2
    <3>5. \A j \in Pedidos : pc'[j] = "duerme" => args'[j].clase = "IO"
      <4> HIDE DEF m
      <4> QED BY <3>1, <2>2, <2>4, <2>5 DEF InvTipos, Argumentos
    <3>6. \A j \in Pedidos : pc'[j] \in DeDump => args'[j].clase = "DUMP"
      <4> HIDE DEF m
      <4> QED BY <3>1, <3>3, <2>2, <2>4, <2>5 DEF InvTipos, Argumentos
    <3> QED BY <3>1, <3>4, <3>5, <3>6 DEF Argumentos
  <2>8. ASSUME NEW q, NEW d, EnEspera(q), DeClase(q, d)
        PROVE  EnEspera(q)' /\ DeClase(q, d)'
    <3>1. \A i \in 1 .. Len(q) : q[i] \in Pedidos /\ q[i] <= hechos
      BY <2>8 DEF EnEspera
    <3>2. \A i \in 1 .. Len(q) : q[i] <= hechos' /\ q[i] # hechos' /\ pc'[q[i]] = pc[q[i]]
      BY <3>1, <2>1, <2>4, <2>5 DEF Pedidos
    <3>3. \A j \in Pedidos : j # m => args'[j] = args[j]
      BY <2>1, <2>2 DEF InvTipos, Argumentos
    <3>4. \A i \in 1 .. Len(q) : args'[q[i]] = args[q[i]]
      BY <3>1, <3>2, <3>3, <2>1
    <3>5. DeClase(q, d)'
      BY <2>8, <3>4 DEF DeClase
    <3> QED BY <2>8, <3>2, <3>5 DEF EnEspera
  <2>9. Colas'
    <3>1. PICK q, r : q = cola_hilos_BLOCK_IO /\ r = cola_hilos_BLOCK_DUMP_MEMORY
      OBVIOUS
    <3>2. EnEspera(q) /\ DeClase(q, "IO") /\ EnEspera(r) /\ DeClase(r, "DUMP")
      BY <3>1 DEF InvTipos, Colas
    <3>3. EnEspera(q)' /\ DeClase(q, "IO")' /\ EnEspera(r)' /\ DeClase(r, "DUMP")'
      BY <2>8, <3>2
    <3>4. cola_hilos_BLOCK_IO' = q /\ cola_hilos_BLOCK_DUMP_MEMORY' = r
      BY <2>1, <3>1
    <3> QED BY ONLY <3>3, <3>4 DEF Colas, EnEspera, DeClase
  <2>10. Caben'
    BY <2>1, <1>2
  <2>11. hechos' \in 0 .. MaxPedidos
    BY <2>1, <2>2, <2>4 DEF Pedidos
  <2>12. Tipos'
    BY <2>1, <2>11, AnotaTipo DEF Pasa, InvTipos, Tipos
  <2> QED BY <2>6, <2>7, <2>9, <2>10, <2>12 DEF InvTipos
<1> QED BY <1>1, <1>3, <1>4

\* The cpu asks for something.
LEMMA PedirTipos ==
  ASSUME InvTipos, NEW c \in Clases \cup {"EXIT"}, Pedir(c)
  PROVE  InvTipos'
<1> USE DEF eleccion, colas, esperas, turnos, locales, cpus
<1>1. /\ canal # <<>> /\ canal' = Tail(canal) /\ pedidos' = Append(pedidos, c)
      /\ c # "EXIT" => hechos + Len(pedidos) < MaxPedidos
      /\ UNCHANGED <<hilo_EXEC, cola_hilos_READY, cola_hilos_BLOCK, cola_hilos_BLOCK_IO>>
      /\ UNCHANGED <<cola_hilos_BLOCK_DUMP_MEMORY, hilo_IO, hilo_DUMP_MEMORY, args, rta, hechos>>
      /\ UNCHANGED <<pc, kernel, solapado, victima, cola_procesos_READY>>
  BY DEF Pedir
<1>2. Control' /\ Argumentos' /\ Colas'
  BY <1>1 DEF InvTipos, Control, Argumentos, Colas, EnEspera, DeClase
<1>3. Caben'
  <2>1. PICK s, u : s = pedidos /\ u = Append(s, c)
    OBVIOUS
  <2>2. /\ u \in Seq(Clases \cup {"EXIT"}) /\ Len(u) = Len(s) + 1 /\ Len(s) \in Nat
        /\ \A i \in 1 .. Len(s) : u[i] = s[i]
        /\ u[Len(s) + 1] = c
    BY <2>1 DEF InvTipos, Caben
  <2>3. \A i \in 1 .. Len(s) : s[i] # "EXIT" => hechos + i <= MaxPedidos
    BY <2>1 DEF InvTipos, Caben
  <2>4. \A i \in 1 .. Len(u) : i \in 1 .. Len(s) \/ i = Len(s) + 1
    BY <2>2
  <2>5. c # "EXIT" => hechos + (Len(s) + 1) <= MaxPedidos
    BY <1>1, <2>1, <2>2, ConstantesDeIO DEF InvTipos, Tipos
  <2>6. \A i \in 1 .. Len(u) : u[i] # "EXIT" => hechos + i <= MaxPedidos
    BY <2>2, <2>3, <2>4, <2>5
  <2>7. pedidos' = u /\ hechos' = hechos
    BY <1>1, <2>1
  <2> QED BY <2>2, <2>6, <2>7 DEF Caben
<1>4. canal' \in Seq(Hilos)
  BY <1>1 DEF InvTipos, Tipos
<1>5. Tipos'
  BY <1>1, <1>4 DEF InvTipos, Tipos
<1> QED BY <1>2, <1>3, <1>5 DEF InvTipos

\* The actions one by one.
LEMMA Pasos ==
  ASSUME [Next]_vars
  PROVE  \/ \E k \in KHilos : \/ elegir_hilo(k)
                              \/ RevisarIO(k) \/ TomarIO(k)
                              \/ RevisarDump(k) \/ TomarDump(k)
                              \/ buscar_hilo(k)
         \/ \E n \in KHilos \ {0} : \/ desbloquear_hilo(n)
                                    \/ SoltarIO(n) \/ Arrancar(n) \/ SoltarDump(n) \/ Probar(n)
                                    \/ Responder(n)
                                    \/ Sacar(n)
                                    \/ Finalizar(n) \/ Retirar(n)
                                    \/ AgregarReady(n)
         \/ Bloquear \/ AnotarArgs \/ Encolar
         \/ AvisarFin \/ RevisarExec \/ Reenviar
         \/ TerminarHilo \/ \E c \in Clases : Recibir(c)
         \/ \E c \in Clases \cup {"EXIT"} : Pedir(c)
         \/ UNCHANGED vars
<1>1. CASE UNCHANGED vars
  BY <1>1
<1>2. CASE \E c \in Clases \cup {"EXIT"} : Pedir(c)
  BY <1>2
<1>3. CASE NextKernel
  <2>1. PICK k \in KHilos : KHilo(k)
    BY <1>3 DEF NextKernel
  <2> QED BY <2>1 DEF KHilo, revisar_fin_io, revisar_rta_volcado, finalizar_hilo
<1> QED BY <1>1, <1>2, <1>3 DEF Next

LEMMA NextTipos ==
  ASSUME InvTipos, [Next]_vars
  PROVE  InvTipos'
<1>1. CASE \E k \in KHilos : elegir_hilo(k)
  BY <1>1, ElegirTipos
<1>2. CASE \E k \in KHilos : RevisarIO(k) \/ TomarIO(k)
  BY <1>2, IOTipos
<1>3. CASE \E k \in KHilos : RevisarDump(k) \/ TomarDump(k)
  BY <1>3, DumpTipos
<1>4. CASE \E n \in KHilos \ {0} : SoltarIO(n) \/ Arrancar(n) \/ SoltarDump(n) \/ Probar(n)
  BY <1>4, ServicioTipos
<1>5. CASE \E n \in KHilos \ {0} : desbloquear_hilo(n)
  BY <1>5, DesbloquearTipos
<1>6. CASE \E n \in KHilos \ {0} : Responder(n)
  BY <1>6, ResponderTipos
<1>7. CASE \E n \in KHilos \ {0} : Sacar(n)
  BY <1>7, SacarTipos
<1>8. CASE \E n \in KHilos \ {0} : Finalizar(n)
  BY <1>8, FinalizarTipos
<1>9. CASE \E n \in KHilos \ {0} : AgregarReady(n)
  BY <1>9, AgregarReadyTipos
<1>10. CASE Encolar
  BY <1>10, EncolarTipos
<1>11. CASE TerminarHilo \/ \E c \in Clases : Recibir(c)
  BY <1>11, RecibirTipos
<1>12. CASE \E c \in Clases \cup {"EXIT"} : Pedir(c)
  BY <1>12, PedirTipos
<1>13. CASE UNCHANGED vars
  BY <1>13 DEF vars, eleccion, colas, esperas, turnos, locales, cpus, InvTipos, Tipos, Caben, Control,
               Argumentos, Colas, EnEspera, DeClase
<1>14. CASE \E k \in KHilos : buscar_hilo(k)
  BY <1>14, BuscarTipos
<1>15. CASE \E n \in KHilos \ {0} : Retirar(n)
  BY <1>15, RetirarTipos
<1>16. CASE Bloquear \/ AnotarArgs
  BY <1>16, PrepararTipos
<1>17. CASE AvisarFin \/ RevisarExec \/ Reenviar
  BY <1>17, FinDeHiloTipos
<1> QED BY Pasos, <1>1, <1>2, <1>3, <1>4, <1>5, <1>6, <1>7, <1>8, <1>9, <1>10, <1>11, <1>12, <1>13,
           <1>14, <1>15, <1>16, <1>17

\* Types in every interleaving, for any number of threads and requests: a NULL reaches READY
\* and BLOCK but no other queue, and a kernel thread has its argument until it has dealt with it.
THEOREM TiposDeIO == Spec => []TypeOK
<1>1. Init => InvTipos
  BY InitTipos
<1>2. InvTipos /\ [Next]_vars => InvTipos'
  BY NextTipos
<1>3. InvTipos => TypeOK
  BY InvTiposTypeOK
<1> QED BY <1>1, <1>2, <1>3, PTL DEF Spec

-----------------------------------------------------------------------------
(* Who will look again *)

\* The cpu: kernel threads that will send hilo_EXEC, if nobody clears it, or clear it, and those
\* that will look at the ready queue or at hilo_EXEC when it is NULL. The dispatch thread at
\* "revisa_exec" is of the first and not of the second.
Enviara(k) ==
  \/ pc[k] = "elige_envia"
  \/ k = 0 /\ pc[k] \in {"bloquea", "anota_args", "encola", "revisa_io", "toma_io", "revisa_dump",
                         "toma_dump", "elige", "busca_exec", "busca_ready", "busca_block", "avisa",
                         "revisa_exec", "reenvia"}
Mirara(k) == pc[k] \notin Fuera \cup {"revisa_exec"}

AvisoCpu ==
  /\ hilo_EXEC # Nadie /\ CpuParada => \E k \in KHilos : Enviara(k)
  /\ hilo_EXEC = Nadie /\ cola_hilos_READY # <<>> /\ CpuParada => \E k \in KHilos : Mirara(k)

\* IO: who holds the turn, from its start until it gives it back, and who looks at it.
Sirve(n)  == pc[n] \in {"duerme", "suelta_io"} \/ (pc[n] = "encola_ready" /\ args[n].clase = "IO")
MiraIO(k) == pc[k] \in {"revisa_io", "toma_io"}

AvisoIO ==
  /\ hilo_IO # Nadie => \E n \in Pedidos : Sirve(n)
  /\ cola_hilos_BLOCK_IO # <<>> => (\E n \in Pedidos : Sirve(n)) \/ (\E k \in KHilos : MiraIO(k))

\* Dumps, the same.
Vuelca(n)   == pc[n] \in {"arranca", "volcando", "suelta_dump"}
MiraDump(k) == pc[k] \in {"revisa_dump", "toma_dump"}

AvisoDump ==
  /\ hilo_DUMP_MEMORY # Nadie => \E n \in Pedidos : Vuelca(n)
  /\ cola_hilos_BLOCK_DUMP_MEMORY # <<>> =>
       (\E n \in Pedidos : Vuelca(n)) \/ (\E k \in KHilos : MiraDump(k))

Avisos == AvisoCpu /\ AvisoIO /\ AvisoDump

LEMMA InitAvisos ==
  Init => Avisos
BY DEF Init, Avisos, AvisoCpu, CpuParada, AvisoIO, AvisoDump

LEMMA AvisosNadieOlvidado ==
  ASSUME InvTipos, Avisos
  PROVE  NadieOlvidado
<1> SUFFICES ASSUME EnReposo
             PROVE  /\ cola_hilos_READY # <<>> => ~CpuParada
                    /\ cola_hilos_BLOCK_IO # <<>> => \E n \in Pedidos : pc[n] = "duerme"
                    /\ cola_hilos_BLOCK_DUMP_MEMORY # <<>> =>
                         \E n \in Pedidos : pc[n] \in {"arranca", "volcando"}
  BY DEF NadieOlvidado
<1>1. \A k \in KHilos : ~Enviara(k) /\ ~Mirara(k) /\ ~MiraIO(k) /\ ~MiraDump(k)
  BY DEF EnReposo, Enviara, Mirara, MiraIO, MiraDump, Fuera
<1>2. \A n \in Pedidos : (Sirve(n) => pc[n] = "duerme") /\ (Vuelca(n) => pc[n] \in {"arranca", "volcando"})
  BY DEF EnReposo, Sirve, Vuelca, Fuera, KHilos, Pedidos
<1> QED BY <1>1, <1>2 DEF Avisos, AvisoCpu, AvisoIO, AvisoDump

\* What keeps each part when the thing it is about does not change.
LEMMA CpuSigue ==
  ASSUME AvisoCpu, UNCHANGED <<hilo_EXEC, canal, pedidos>>,
         cola_hilos_READY' = cola_hilos_READY \/ \E k \in KHilos : Mirara(k)',
         \A k \in KHilos : (Enviara(k) => Enviara(k)') /\ (Mirara(k) => Mirara(k)')
  PROVE  AvisoCpu'
BY DEF AvisoCpu, CpuParada

LEMMA IOSigue ==
  ASSUME AvisoIO, UNCHANGED <<hilo_IO, cola_hilos_BLOCK_IO>>,
         \A n \in Pedidos : Sirve(n) => Sirve(n)',
         \A k \in KHilos : MiraIO(k) => MiraIO(k)'
  PROVE  AvisoIO'
BY DEF AvisoIO

LEMMA DumpSigue ==
  ASSUME AvisoDump, UNCHANGED <<hilo_DUMP_MEMORY, cola_hilos_BLOCK_DUMP_MEMORY>>,
         \A n \in Pedidos : Vuelca(n) => Vuelca(n)',
         \A k \in KHilos : MiraDump(k) => MiraDump(k)'
  PROVE  AvisoDump'
BY DEF AvisoDump

LEMMA CaeAvisos ==
  ASSUME Avisos, Cae
  PROVE  Avisos'
BY DEF Avisos, AvisoCpu, CpuParada, Enviara, Mirara, AvisoIO, Sirve, MiraIO, AvisoDump, Vuelca,
       MiraDump, Cae, eleccion, colas, esperas, turnos, locales, cpus

\* One kernel thread moves.
LEMMA UnPunto ==
  ASSUME InvTipos, NEW k \in KHilos, NEW p, pc' = [pc EXCEPT ![k] = p]
  PROVE  /\ pc'[k] = p /\ \A j \in KHilos : j # k => pc'[j] = pc[j]
         /\ 0 \in KHilos /\ 0 \notin Pedidos /\ Pedidos \subseteq KHilos
BY ConstantesDeIO DEF InvTipos, Control, KHilos, Pedidos

LEMMA ElegirAvisos ==
  ASSUME InvTipos, Avisos, NEW k \in KHilos, elegir_hilo(k)
  PROVE  Avisos'
<1> USE DEF eleccion, colas, esperas, turnos, locales, cpus
<1>1. CASE Cae
  BY <1>1, CaeAvisos
<1>2. CASE ~Cae
  <2>1. PICK p : pc' = [pc EXCEPT ![k] = p]
    BY <1>2 DEF elegir_hilo, Elegir_limpia, Elegir_mira, Elegir_saca, Elegir_envia, enviar_a_ejecucion, Termina, Pasa
  <2>2. /\ pc'[k] = p /\ \A j \in KHilos : j # k => pc'[j] = pc[j]
        /\ 0 \in KHilos /\ 0 \notin Pedidos /\ Pedidos \subseteq KHilos
    BY <2>1, UnPunto
  <2>3. /\ pc[k] \in {"elige", "elige_mira", "elige_saca", "elige_envia"}
        /\ UNCHANGED <<hilo_IO, hilo_DUMP_MEMORY, cola_hilos_BLOCK_IO, cola_hilos_BLOCK_DUMP_MEMORY, args>>
    BY <1>2 DEF elegir_hilo, Elegir_limpia, Elegir_mira, Elegir_saca, Elegir_envia, enviar_a_ejecucion, En
  <2>4. \A n \in Pedidos : (Sirve(n) => Sirve(n)') /\ (Vuelca(n) => Vuelca(n)')
    BY <2>2, <2>3 DEF Sirve, Vuelca
  <2>5. \A j \in KHilos : (MiraIO(j) => MiraIO(j)') /\ (MiraDump(j) => MiraDump(j)')
    BY <2>2, <2>3 DEF MiraIO, MiraDump
  <2>6. AvisoIO' /\ AvisoDump'
    BY <2>3, <2>4, <2>5, IOSigue, DumpSigue DEF Avisos
  <2>7. AvisoCpu'
    <3>1. CASE Elegir_limpia(k)
      <4>1. hilo_EXEC' = Nadie /\ pc'[k] = "elige_mira"
        BY <3>1, <2>2, <2>1 DEF Elegir_limpia, Pasa, InvTipos, Control
      <4>2. Mirara(k)'
        BY <4>1 DEF Mirara, Fuera
      <4> QED BY <4>1, <4>2 DEF AvisoCpu
    <3>2. CASE Elegir_mira(k)
      <4>1. pc[k] = "elige_mira" /\ UNCHANGED <<hilo_EXEC, cola_hilos_READY, canal, pedidos>>
        BY <3>2 DEF Elegir_mira, En
      <4>2. \A j \in KHilos : Enviara(j) => Enviara(j)'
        BY <4>1, <2>2 DEF Enviara
      <4>3. CASE cola_hilos_READY = <<>>
        BY <4>1, <4>2, <4>3 DEF Avisos, AvisoCpu, CpuParada
      <4>4. CASE cola_hilos_READY # <<>>
        <5>1. pc' = [pc EXCEPT ![k] = "elige_saca"]
          BY <3>2, <4>4 DEF Elegir_mira, Pasa
        <5>2. pc'[k] = "elige_saca"
          BY <5>1, UnPunto
        <5>3. \A j \in KHilos : Mirara(j) => Mirara(j)'
          BY <2>2, <5>2 DEF Mirara, Fuera
        <5> QED BY <4>1, <4>2, <5>3, CpuSigue DEF Avisos
      <4> QED BY <4>3, <4>4
    <3>3. CASE Elegir_saca(k)
      <4>1. pc' = [pc EXCEPT ![k] = "elige_envia"]
        BY <3>3 DEF Elegir_saca, Pasa
      <4>2. pc'[k] = "elige_envia"
        BY <4>1, UnPunto
      <4>3. Enviara(k)' /\ Mirara(k)'
        BY <4>2 DEF Enviara, Mirara, Fuera
      <4> QED BY <4>3 DEF AvisoCpu
    <3>4. CASE Elegir_envia(k)
      <4>1. canal' = Append(canal, hilo_EXEC)
        BY <3>4, <1>2 DEF Elegir_envia, enviar_a_ejecucion
      <4>2. canal' # <<>>
        BY <4>1 DEF InvTipos, Tipos
      <4> QED BY <4>2 DEF AvisoCpu, CpuParada
    <3> QED BY <3>1, <3>2, <3>3, <3>4 DEF elegir_hilo
  <2> QED BY <2>6, <2>7 DEF Avisos
<1> QED BY <1>1, <1>2

LEMMA IOAvisos ==
  ASSUME InvTipos, Avisos, NEW k \in KHilos, RevisarIO(k) \/ TomarIO(k)
  PROVE  Avisos'
<1> USE DEF eleccion, colas, esperas, turnos, locales, cpus
<1>1. CASE RevisarIO(k)
  <2>1. PICK p : pc' = [pc EXCEPT ![k] = p] /\ p = IF HayTurnoDeIO THEN "toma_io" ELSE TrasRevisarIO(k)
    BY <1>1 DEF RevisarIO, Pasa
  <2>2. /\ pc'[k] = p /\ \A j \in KHilos : j # k => pc'[j] = pc[j]
        /\ 0 \in KHilos /\ 0 \notin Pedidos /\ Pedidos \subseteq KHilos
    BY <2>1, UnPunto
  <2>3. /\ pc[k] = "revisa_io" /\ UNCHANGED <<hilo_EXEC, canal, pedidos, cola_hilos_READY, args>>
        /\ UNCHANGED <<hilo_IO, hilo_DUMP_MEMORY, cola_hilos_BLOCK_IO, cola_hilos_BLOCK_DUMP_MEMORY>>
        /\ p \in {"toma_io", "elige", "prueba"} /\ (k = 0 => p \in {"toma_io", "elige"})
    BY <1>1, <2>1 DEF RevisarIO, TrasRevisarIO, En
  <2>4. AvisoCpu'
    <3>1. \A j \in KHilos : (Enviara(j) => Enviara(j)') /\ (Mirara(j) => Mirara(j)')
      BY <2>2, <2>3 DEF Enviara, Mirara, Fuera
    <3> QED BY <2>3, <3>1, CpuSigue DEF Avisos
  <2>5. AvisoDump'
    <3>1. /\ \A n \in Pedidos : Vuelca(n) => Vuelca(n)'
          /\ \A j \in KHilos : MiraDump(j) => MiraDump(j)'
      BY <2>2, <2>3 DEF Vuelca, MiraDump
    <3> QED BY <2>3, <3>1, DumpSigue DEF Avisos
  <2>6. AvisoIO'
    <3>1. \A n \in Pedidos : Sirve(n) => Sirve(n)'
      BY <2>2, <2>3 DEF Sirve
    <3>2. CASE HayTurnoDeIO
      <4>1. MiraIO(k)'
        BY <3>2, <2>1, <2>2 DEF MiraIO
      <4> QED BY <2>3, <3>1, <4>1 DEF Avisos, AvisoIO
    <3>3. CASE ~HayTurnoDeIO
      BY <2>3, <3>1, <3>3 DEF Avisos, AvisoIO, HayTurnoDeIO
    <3> QED BY <3>2, <3>3
  <2> QED BY <2>4, <2>5, <2>6 DEF Avisos
<1>2. CASE TomarIO(k) /\ cola_hilos_BLOCK_IO = <<>>
  <2>1. PICK p : pc' = [pc EXCEPT ![k] = p] /\ p = TrasRevisarIO(k)
    BY <1>2 DEF TomarIO, Pasa
  <2>2. /\ pc'[k] = p /\ \A j \in KHilos : j # k => pc'[j] = pc[j]
        /\ 0 \in KHilos /\ 0 \notin Pedidos /\ Pedidos \subseteq KHilos
    BY <2>1, UnPunto
  <2>3. /\ pc[k] = "toma_io" /\ UNCHANGED <<hilo_EXEC, canal, pedidos, cola_hilos_READY, args>>
        /\ UNCHANGED <<hilo_DUMP_MEMORY, cola_hilos_BLOCK_IO, cola_hilos_BLOCK_DUMP_MEMORY>>
        /\ p \in {"elige", "prueba"} /\ (k = 0 => p = "elige") /\ hilo_IO' = Nadie
    BY <1>2, <2>1 DEF TomarIO, TrasRevisarIO, En
  <2>4. AvisoCpu'
    <3>1. \A j \in KHilos : (Enviara(j) => Enviara(j)') /\ (Mirara(j) => Mirara(j)')
      BY <2>2, <2>3 DEF Enviara, Mirara, Fuera
    <3> QED BY <2>3, <3>1, CpuSigue DEF Avisos
  <2>5. AvisoDump'
    <3>1. /\ \A n \in Pedidos : Vuelca(n) => Vuelca(n)'
          /\ \A j \in KHilos : MiraDump(j) => MiraDump(j)'
      BY <2>2, <2>3 DEF Vuelca, MiraDump
    <3> QED BY <2>3, <3>1, DumpSigue DEF Avisos
  <2>6. AvisoIO'
    BY <1>2, <2>3 DEF AvisoIO
  <2> QED BY <2>4, <2>5, <2>6 DEF Avisos
<1>3. CASE TomarIO(k) /\ cola_hilos_BLOCK_IO # <<>>
  <2>1. PICK m, p : m = Head(cola_hilos_BLOCK_IO) /\ p = TrasRevisarIO(k)
    OBVIOUS
  <2>2. m \in Pedidos /\ pc[m] = "nada"
    BY <1>3, <2>1 DEF InvTipos, Colas, EnEspera
  <2>3. /\ pc[k] = "toma_io" /\ UNCHANGED <<hilo_EXEC, canal, pedidos, cola_hilos_READY, args>>
        /\ UNCHANGED <<hilo_DUMP_MEMORY, cola_hilos_BLOCK_DUMP_MEMORY>>
        /\ p \in {"elige", "prueba"} /\ (k = 0 => p = "elige")
        /\ pc' = [pc EXCEPT ![k] = p, ![m] = "duerme"]
    BY <1>3, <2>1 DEF TomarIO, TrasRevisarIO, En
  <2>4. /\ pc'[k] = p /\ pc'[m] = "duerme" /\ \A j \in KHilos : j # k /\ j # m => pc'[j] = pc[j]
        /\ m # k /\ m # 0 /\ 0 \in KHilos /\ Pedidos \subseteq KHilos
    BY <2>2, <2>3, ConstantesDeIO DEF InvTipos, Control, KHilos, Pedidos
  <2>5. AvisoCpu'
    <3>1. \A j \in KHilos : (Enviara(j) => Enviara(j)') /\ (Mirara(j) => Mirara(j)')
      BY <2>2, <2>3, <2>4 DEF Enviara, Mirara, Fuera
    <3> QED BY <2>3, <3>1, CpuSigue DEF Avisos
  <2>6. AvisoDump'
    <3>1. /\ \A n \in Pedidos : Vuelca(n) => Vuelca(n)'
          /\ \A j \in KHilos : MiraDump(j) => MiraDump(j)'
      BY <2>2, <2>3, <2>4 DEF Vuelca, MiraDump
    <3> QED BY <2>3, <3>1, DumpSigue DEF Avisos
  <2>7. AvisoIO'
    <3>1. Sirve(m)'
      BY <2>4 DEF Sirve
    <3> QED BY <2>2, <3>1 DEF AvisoIO
  <2> QED BY <2>5, <2>6, <2>7 DEF Avisos
<1> QED BY <1>1, <1>2, <1>3

LEMMA DumpAvisos ==
  ASSUME InvTipos, Avisos, NEW k \in KHilos, RevisarDump(k) \/ TomarDump(k)
  PROVE  Avisos'
<1> USE DEF eleccion, colas, esperas, turnos, locales, cpus
<1>0. CASE Cae
  BY <1>0, CaeAvisos
<1>1. CASE RevisarDump(k)
  <2>1. PICK p : /\ pc' = [pc EXCEPT ![k] = p]
                 /\ p = IF hilo_DUMP_MEMORY = Nadie /\ cola_hilos_BLOCK_DUMP_MEMORY # <<>>
                        THEN "toma_dump" ELSE TrasRevisarDump(k)
    BY <1>1 DEF RevisarDump, Pasa
  <2>2. /\ pc'[k] = p /\ \A j \in KHilos : j # k => pc'[j] = pc[j]
        /\ 0 \in KHilos /\ 0 \notin Pedidos /\ Pedidos \subseteq KHilos
    BY <2>1, UnPunto
  <2>3. /\ pc[k] = "revisa_dump" /\ UNCHANGED <<hilo_EXEC, canal, pedidos, cola_hilos_READY, args>>
        /\ UNCHANGED <<hilo_IO, hilo_DUMP_MEMORY, cola_hilos_BLOCK_IO, cola_hilos_BLOCK_DUMP_MEMORY>>
        /\ p \in {"toma_dump", "elige", "saca_de_block", "finaliza"}
        /\ (k = 0 => p \in {"toma_dump", "elige"})
    BY <1>1, <2>1 DEF RevisarDump, TrasRevisarDump, En
  <2>4. AvisoCpu'
    <3>1. \A j \in KHilos : (Enviara(j) => Enviara(j)') /\ (Mirara(j) => Mirara(j)')
      BY <2>2, <2>3 DEF Enviara, Mirara, Fuera
    <3> QED BY <2>3, <3>1, CpuSigue DEF Avisos
  <2>5. AvisoIO'
    <3>1. /\ \A n \in Pedidos : Sirve(n) => Sirve(n)'
          /\ \A j \in KHilos : MiraIO(j) => MiraIO(j)'
      BY <2>2, <2>3 DEF Sirve, MiraIO
    <3> QED BY <2>3, <3>1, IOSigue DEF Avisos
  <2>6. AvisoDump'
    <3>1. \A n \in Pedidos : Vuelca(n) => Vuelca(n)'
      BY <2>2, <2>3 DEF Vuelca
    <3>2. CASE hilo_DUMP_MEMORY = Nadie /\ cola_hilos_BLOCK_DUMP_MEMORY # <<>>
      <4>1. MiraDump(k)'
        BY <3>2, <2>1, <2>2 DEF MiraDump
      <4> QED BY <2>3, <3>1, <4>1 DEF Avisos, AvisoDump
    <3>3. CASE ~(hilo_DUMP_MEMORY = Nadie /\ cola_hilos_BLOCK_DUMP_MEMORY # <<>>)
      BY <2>3, <3>1, <3>3 DEF Avisos, AvisoDump
    <3> QED BY <3>2, <3>3
  <2> QED BY <2>4, <2>5, <2>6 DEF Avisos
<1>2. CASE TomarDump(k) /\ cola_hilos_BLOCK_DUMP_MEMORY = <<>>
  <2>1. PICK p : pc' = [pc EXCEPT ![k] = p] /\ p = TrasRevisarDump(k)
    BY <1>2 DEF TomarDump, Pasa
  <2>2. /\ pc'[k] = p /\ \A j \in KHilos : j # k => pc'[j] = pc[j]
        /\ 0 \in KHilos /\ 0 \notin Pedidos /\ Pedidos \subseteq KHilos
    BY <2>1, UnPunto
  <2>3. /\ pc[k] = "toma_dump" /\ UNCHANGED <<hilo_EXEC, canal, pedidos, cola_hilos_READY, args>>
        /\ UNCHANGED <<hilo_IO, cola_hilos_BLOCK_IO, cola_hilos_BLOCK_DUMP_MEMORY>>
        /\ p \in {"elige", "saca_de_block", "finaliza"} /\ (k = 0 => p = "elige")
        /\ hilo_DUMP_MEMORY' = Nadie
    BY <1>2, <2>1 DEF TomarDump, TrasRevisarDump, En
  <2>4. AvisoCpu'
    <3>1. \A j \in KHilos : (Enviara(j) => Enviara(j)') /\ (Mirara(j) => Mirara(j)')
      BY <2>2, <2>3 DEF Enviara, Mirara, Fuera
    <3> QED BY <2>3, <3>1, CpuSigue DEF Avisos
  <2>5. AvisoIO'
    <3>1. /\ \A n \in Pedidos : Sirve(n) => Sirve(n)'
          /\ \A j \in KHilos : MiraIO(j) => MiraIO(j)'
      BY <2>2, <2>3 DEF Sirve, MiraIO
    <3> QED BY <2>3, <3>1, IOSigue DEF Avisos
  <2>6. AvisoDump'
    BY <1>2, <2>3 DEF AvisoDump
  <2> QED BY <2>4, <2>5, <2>6 DEF Avisos
<1>3. CASE TomarDump(k) /\ cola_hilos_BLOCK_DUMP_MEMORY # <<>> /\ ~Cae
  <2>1. PICK m, p : m = Head(cola_hilos_BLOCK_DUMP_MEMORY) /\ p = TrasRevisarDump(k)
    OBVIOUS
  <2>2. m \in Pedidos /\ pc[m] = "nada"
    BY <1>3, <2>1 DEF InvTipos, Colas, EnEspera
  <2>3. /\ pc[k] = "toma_dump" /\ UNCHANGED <<hilo_EXEC, canal, pedidos, cola_hilos_READY, args>>
        /\ UNCHANGED <<hilo_IO, cola_hilos_BLOCK_IO>>
        /\ p \in {"elige", "saca_de_block", "finaliza"} /\ (k = 0 => p = "elige")
        /\ pc' = [pc EXCEPT ![k] = p, ![m] = "arranca"]
    BY <1>3, <2>1 DEF TomarDump, TrasRevisarDump, En
  <2>4. /\ pc'[k] = p /\ pc'[m] = "arranca" /\ \A j \in KHilos : j # k /\ j # m => pc'[j] = pc[j]
        /\ m # k /\ m # 0 /\ 0 \in KHilos /\ Pedidos \subseteq KHilos
    BY <2>2, <2>3, ConstantesDeIO DEF InvTipos, Control, KHilos, Pedidos
  <2>5. AvisoCpu'
    <3>1. \A j \in KHilos : (Enviara(j) => Enviara(j)') /\ (Mirara(j) => Mirara(j)')
      BY <2>2, <2>3, <2>4 DEF Enviara, Mirara, Fuera
    <3> QED BY <2>3, <3>1, CpuSigue DEF Avisos
  <2>6. AvisoIO'
    <3>1. /\ \A n \in Pedidos : Sirve(n) => Sirve(n)'
          /\ \A j \in KHilos : MiraIO(j) => MiraIO(j)'
      BY <2>2, <2>3, <2>4 DEF Sirve, MiraIO
    <3> QED BY <2>3, <3>1, IOSigue DEF Avisos
  <2>7. AvisoDump'
    <3>1. Vuelca(m)'
      BY <2>4 DEF Vuelca
    <3> QED BY <2>2, <3>1 DEF AvisoDump
  <2> QED BY <2>5, <2>6, <2>7 DEF Avisos
<1> QED BY <1>0, <1>1, <1>2, <1>3

\* A thread of a request, in a step that touches neither turn: it goes on to p.
LEMMA SigueAvisos ==
  ASSUME InvTipos, Avisos, NEW n \in KHilos, n # 0, NEW p, pc' = [pc EXCEPT ![n] = p],
         p \notin Fuera \cup {"revisa_exec"},
         UNCHANGED <<hilo_EXEC, canal, pedidos, turnos, cola_hilos_BLOCK_IO,
                     cola_hilos_BLOCK_DUMP_MEMORY>>,
         pc[n] \notin {"elige_envia", "revisa_io", "toma_io", "revisa_dump", "toma_dump"},
         Sirve(n) => Sirve(n)', Vuelca(n) => Vuelca(n)',
         \A j \in Pedidos : j # n => args'[j] = args[j]
  PROVE  Avisos'
<1>1. /\ pc'[n] = p /\ \A j \in KHilos : j # n => pc'[j] = pc[j]
      /\ 0 \in KHilos /\ 0 \notin Pedidos /\ Pedidos \subseteq KHilos /\ n \in Pedidos
  <2>1. n \in Pedidos
    BY DEF KHilos, Pedidos
  <2> QED BY <2>1, UnPunto
<1>2. Mirara(n)' /\ \A j \in KHilos : (Enviara(j) => Enviara(j)') /\ (Mirara(j) => Mirara(j)')
  BY <1>1 DEF Enviara, Mirara
<1>3. AvisoCpu'
  BY <1>2, CpuSigue DEF Avisos
<1>4. \A j \in Pedidos : (Sirve(j) => Sirve(j)') /\ (Vuelca(j) => Vuelca(j)')
  BY <1>1 DEF Sirve, Vuelca
<1>5. \A j \in KHilos : (MiraIO(j) => MiraIO(j)') /\ (MiraDump(j) => MiraDump(j)')
  BY <1>1 DEF MiraIO, MiraDump
<1>6. UNCHANGED <<hilo_IO, hilo_DUMP_MEMORY>>
  BY DEF turnos
<1>7. AvisoIO' /\ AvisoDump'
  BY <1>4, <1>5, <1>6, IOSigue, DumpSigue DEF Avisos
<1> QED BY <1>3, <1>7 DEF Avisos

LEMMA ServicioAvisos ==
  ASSUME InvTipos, Avisos, NEW n \in KHilos, n # 0,
         \/ desbloquear_hilo(n) \/ Responder(n) \/ Sacar(n) \/ Finalizar(n) \/ Retirar(n)
         \/ AgregarReady(n)
  PROVE  Avisos'
<1> USE DEF eleccion, colas, esperas, turnos, locales, cpus
<1>0. n \in Pedidos
  BY DEF KHilos, Pedidos
<1>1. CASE Cae
  BY <1>1, CaeAvisos
<1>2. CASE desbloquear_hilo(n) /\ ~Cae
  <2>1. /\ pc[n] = "duerme" /\ pc' = [pc EXCEPT ![n] = "encola_ready"] /\ UNCHANGED args
        /\ args[n].clase = "IO"
    BY <1>0, <1>2 DEF desbloquear_hilo, En, Pasa, InvTipos, Argumentos
  <2>2. pc'[n] = "encola_ready"
    BY <2>1, UnPunto
  <2>3. Sirve(n)' /\ ~Vuelca(n)
    BY <2>1, <2>2 DEF Sirve, Vuelca
  <2> QED BY <1>2, <2>1, <2>3, SigueAvisos DEF desbloquear_hilo, Fuera
<1>3. CASE Responder(n) /\ ~Cae
  <2>1. /\ pc[n] = "volcando" /\ pc' = [pc EXCEPT ![n] = "suelta_dump"] /\ UNCHANGED args
        /\ UNCHANGED <<hilo_EXEC, canal, pedidos, turnos, cola_hilos_BLOCK_IO,
                       cola_hilos_BLOCK_DUMP_MEMORY>>
    BY <1>3 DEF Responder, En, Pasa
  <2>2. pc'[n] = "suelta_dump"
    BY <2>1, UnPunto
  <2>3. ~Sirve(n) /\ Vuelca(n)'
    BY <2>1, <2>2 DEF Sirve, Vuelca
  <2> QED BY <2>1, <2>3, SigueAvisos DEF Fuera
<1>4. CASE Sacar(n) /\ ~Cae
  <2>1. /\ pc[n] = "saca_de_block" /\ pc' = [pc EXCEPT ![n] = "encola_ready"]
        /\ UNCHANGED <<hilo_EXEC, canal, pedidos, turnos, cola_hilos_BLOCK_IO,
                       cola_hilos_BLOCK_DUMP_MEMORY>>
        /\ \A j \in Pedidos : j # n => args'[j] = args[j]
    BY <1>4 DEF Sacar, En, Pasa, InvTipos, Argumentos
  <2>2. ~Sirve(n) /\ ~Vuelca(n)
    BY <2>1 DEF Sirve, Vuelca
  <2> QED BY <2>1, <2>2, SigueAvisos DEF Fuera
<1>5. CASE Finalizar(n) /\ ~Cae
  <2>1. /\ pc[n] = "finaliza" /\ pc' = [pc EXCEPT ![n] = "busca_exec"] /\ UNCHANGED args
        /\ UNCHANGED <<hilo_EXEC, canal, pedidos, turnos, cola_hilos_BLOCK_IO,
                       cola_hilos_BLOCK_DUMP_MEMORY>>
    BY <1>5 DEF Finalizar, En, Pasa
  <2>2. ~Sirve(n) /\ ~Vuelca(n)
    BY <2>1 DEF Sirve, Vuelca
  <2> QED BY <2>1, <2>2, SigueAvisos DEF Fuera
<1>7. CASE Retirar(n) /\ ~Cae
  <2>1. /\ pc[n] = "retira" /\ pc' = [pc EXCEPT ![n] = "prueba"]
        /\ UNCHANGED <<hilo_EXEC, canal, pedidos, turnos, cola_hilos_BLOCK_IO,
                       cola_hilos_BLOCK_DUMP_MEMORY>>
        /\ \A j \in Pedidos : j # n => args'[j] = args[j]
    BY <1>7 DEF Retirar, Olvida, En, Pasa, InvTipos, Argumentos
  <2>2. ~Sirve(n) /\ ~Vuelca(n)
    BY <2>1 DEF Sirve, Vuelca
  <2> QED BY <2>1, <2>2, SigueAvisos DEF Fuera
<1>6. CASE AgregarReady(n)
  <2>1. PICK p : /\ p = IF args[n].clase = "IO" THEN "suelta_io" ELSE "prueba"
                 /\ pc' = [pc EXCEPT ![n] = p]
    BY <1>6 DEF AgregarReady, Pasa
  <2>2. /\ pc[n] = "encola_ready"
        /\ UNCHANGED <<hilo_EXEC, canal, pedidos, turnos, cola_hilos_BLOCK_IO,
                       cola_hilos_BLOCK_DUMP_MEMORY>>
        /\ \A j \in Pedidos : j # n => args'[j] = args[j]
    BY <1>6 DEF AgregarReady, Olvida, En, InvTipos, Argumentos
  <2>3. pc'[n] = p
    BY <2>1, UnPunto
  <2>4. (Sirve(n) => Sirve(n)') /\ ~Vuelca(n)
    BY <2>1, <2>2, <2>3 DEF Sirve, Vuelca
  <2>5. p \notin Fuera \cup {"revisa_exec"}
    BY <2>1 DEF Fuera
  <2> QED BY <2>1, <2>2, <2>4, <2>5, SigueAvisos
<1> QED BY <1>1, <1>2, <1>3, <1>4, <1>5, <1>6, <1>7

LEMMA TurnosAvisos ==
  ASSUME InvTipos, Avisos, NEW n \in KHilos, n # 0, SoltarIO(n) \/ Arrancar(n) \/ SoltarDump(n) \/ Probar(n)
  PROVE  Avisos'
<1> USE DEF eleccion, colas, esperas, turnos, locales, cpus
<1>1. PICK p : pc' = [pc EXCEPT ![n] = p]
  BY DEF SoltarIO, Arrancar, SoltarDump, Probar, Pasa
<1>2. /\ pc'[n] = p /\ \A j \in KHilos : j # n => pc'[j] = pc[j]
      /\ 0 \in KHilos /\ 0 \notin Pedidos /\ Pedidos \subseteq KHilos /\ n \in Pedidos
  <2>1. n \in Pedidos
    BY DEF KHilos, Pedidos
  <2> QED BY <1>1, <2>1, UnPunto
<1>3. /\ UNCHANGED <<hilo_EXEC, cola_hilos_READY, canal, pedidos, cola_hilos_BLOCK_IO, args>>
      /\ UNCHANGED cola_hilos_BLOCK_DUMP_MEMORY
  BY DEF SoltarIO, Arrancar, SoltarDump, Probar
<1>4. CASE SoltarIO(n)
  <2>1. p = "revisa_io" /\ pc[n] = "suelta_io" /\ hilo_IO' = Nadie /\ UNCHANGED hilo_DUMP_MEMORY
    BY <1>2, <1>4, UnPunto DEF SoltarIO, En, Pasa
  <2>2. \A j \in KHilos : (Enviara(j) => Enviara(j)') /\ (Mirara(j) => Mirara(j)')
    BY <1>2, <2>1 DEF Enviara, Mirara, Fuera
  <2>3. AvisoCpu'
    BY <1>3, <2>2, CpuSigue DEF Avisos
  <2>4. /\ \A j \in Pedidos : Vuelca(j) => Vuelca(j)'
        /\ \A j \in KHilos : MiraDump(j) => MiraDump(j)'
    BY <1>2, <2>1 DEF Vuelca, MiraDump
  <2>5. AvisoDump'
    BY <1>3, <2>1, <2>4, DumpSigue DEF Avisos
  <2>6. MiraIO(n)'
    BY <1>2, <2>1 DEF MiraIO
  <2>7. AvisoIO'
    BY <2>1, <2>6 DEF AvisoIO
  <2> QED BY <2>3, <2>5, <2>7 DEF Avisos
<1>5. CASE Arrancar(n)
  <2>1. p = "volcando" /\ pc[n] = "arranca" /\ hilo_DUMP_MEMORY' = Nadie /\ UNCHANGED hilo_IO
    BY <1>2, <1>5, UnPunto DEF Arrancar, En, Pasa
  <2>2. \A j \in KHilos : (Enviara(j) => Enviara(j)') /\ (Mirara(j) => Mirara(j)')
    BY <1>2, <2>1 DEF Enviara, Mirara, Fuera
  <2>3. AvisoCpu'
    BY <1>3, <2>2, CpuSigue DEF Avisos
  <2>4. /\ \A j \in Pedidos : Sirve(j) => Sirve(j)'
        /\ \A j \in KHilos : MiraIO(j) => MiraIO(j)'
    BY <1>2, <1>3, <2>1 DEF Sirve, MiraIO
  <2>5. AvisoIO'
    BY <1>3, <2>1, <2>4, IOSigue DEF Avisos
  <2>6. Vuelca(n)'
    BY <1>2, <2>1 DEF Vuelca
  <2>7. AvisoDump'
    BY <1>2, <2>1, <2>6 DEF AvisoDump
  <2> QED BY <2>3, <2>5, <2>7 DEF Avisos
<1>6. CASE SoltarDump(n)
  <2>1. p = "revisa_dump" /\ pc[n] = "suelta_dump" /\ hilo_DUMP_MEMORY' = Nadie /\ UNCHANGED hilo_IO
    BY <1>2, <1>6, UnPunto DEF SoltarDump, En, Pasa
  <2>2. \A j \in KHilos : (Enviara(j) => Enviara(j)') /\ (Mirara(j) => Mirara(j)')
    BY <1>2, <2>1 DEF Enviara, Mirara, Fuera
  <2>3. AvisoCpu'
    BY <1>3, <2>2, CpuSigue DEF Avisos
  <2>4. /\ \A j \in Pedidos : Sirve(j) => Sirve(j)'
        /\ \A j \in KHilos : MiraIO(j) => MiraIO(j)'
    BY <1>2, <1>3, <2>1 DEF Sirve, MiraIO
  <2>5. AvisoIO'
    BY <1>3, <2>1, <2>4, IOSigue DEF Avisos
  <2>6. MiraDump(n)'
    BY <1>2, <2>1 DEF MiraDump
  <2>7. AvisoDump'
    BY <1>2, <2>1, <2>6 DEF AvisoDump
  <2> QED BY <2>3, <2>5, <2>7 DEF Avisos
<1>7. CASE Probar(n)
  <2>1. p = (IF Ocupada THEN "fin" ELSE "elige") /\ pc[n] = "prueba" /\ UNCHANGED turnos
    BY <1>2, <1>7, UnPunto DEF Probar, En, Pasa
  <2>2. \A j \in KHilos : Enviara(j) => Enviara(j)' /\ j # n
    BY <1>2, <2>1 DEF Enviara
  <2>3. AvisoCpu'
    <3>1. hilo_EXEC' # Nadie /\ CpuParada' => \E j \in KHilos : Enviara(j)'
      BY <1>3, <2>2 DEF Avisos, AvisoCpu, CpuParada
    <3>2. CASE Ocupada
      BY <1>3, <3>1, <3>2 DEF AvisoCpu, Ocupada
    <3>3. CASE ~Ocupada
      <4>1. Mirara(n)'
        BY <1>2, <2>1, <3>3 DEF Mirara, Fuera
      <4> QED BY <3>1, <4>1 DEF AvisoCpu
    <3> QED BY <3>2, <3>3
  <2>4. /\ \A j \in Pedidos : (Sirve(j) => Sirve(j)') /\ (Vuelca(j) => Vuelca(j)')
        /\ \A j \in KHilos : (MiraIO(j) => MiraIO(j)') /\ (MiraDump(j) => MiraDump(j)')
    BY <1>2, <1>3, <2>1 DEF Sirve, MiraIO, Vuelca, MiraDump
  <2>5. AvisoIO' /\ AvisoDump'
    BY <1>3, <2>1, <2>4, IOSigue, DumpSigue DEF Avisos
  <2> QED BY <2>3, <2>5 DEF Avisos
<1> QED BY <1>4, <1>5, <1>6, <1>7

\* The dispatch thread goes on to a point from which it will still send a thread.
LEMMA DespachoSigueAvisos ==
  ASSUME InvTipos, Avisos, NEW p, pc' = [pc EXCEPT ![0] = p], Enviara(0)',
         Mirara(0)' \/ hilo_EXEC' # Nadie,
         pc[0] \notin {"revisa_io", "toma_io", "revisa_dump", "toma_dump"},
         UNCHANGED <<hilo_IO, hilo_DUMP_MEMORY, cola_hilos_BLOCK_IO, cola_hilos_BLOCK_DUMP_MEMORY>>,
         \A n \in Pedidos : Sirve(n) => args'[n] = args[n]
  PROVE  Avisos'
<1>1. /\ pc'[0] = p /\ \A j \in KHilos : j # 0 => pc'[j] = pc[j]
      /\ 0 \in KHilos /\ 0 \notin Pedidos /\ Pedidos \subseteq KHilos
  <2>1. 0 \in KHilos
    BY ConstantesDeIO DEF KHilos
  <2> QED BY <2>1, UnPunto
<1>2. Enviara(0)' /\ (Mirara(0)' \/ hilo_EXEC' # Nadie)
  OBVIOUS
<1>3. AvisoCpu'
  BY <1>1, <1>2 DEF AvisoCpu
<1>4. \A n \in Pedidos : (Sirve(n) => Sirve(n)') /\ (Vuelca(n) => Vuelca(n)')
  BY <1>1 DEF Sirve, Vuelca
<1>5. \A j \in KHilos : (MiraIO(j) => MiraIO(j)') /\ (MiraDump(j) => MiraDump(j)')
  BY <1>1 DEF MiraIO, MiraDump
<1>6. AvisoIO' /\ AvisoDump'
  BY <1>4, <1>5, IOSigue, DumpSigue DEF Avisos
<1> QED BY <1>3, <1>6 DEF Avisos

LEMMA BuscarAvisos ==
  ASSUME InvTipos, Avisos, NEW k \in KHilos, buscar_hilo(k)
  PROVE  Avisos'
<1>1. CASE Cae
  BY <1>1, CaeAvisos
<1>2. CASE ~Cae
  <2>1. PICK p \in {"retira", "avisa", "reenvia", "busca_ready", "busca_block"} :
          pc' = [pc EXCEPT ![k] = p] /\ (k = 0 => p # "retira")
    BY <1>2, BuscarPasa DEF Pasa
  <2>2. /\ pc[k] \in {"busca_exec", "busca_ready", "busca_block"}
        /\ UNCHANGED <<hilo_EXEC, canal, pedidos, hilo_IO, hilo_DUMP_MEMORY, cola_hilos_BLOCK_IO>>
        /\ UNCHANGED <<cola_hilos_BLOCK_DUMP_MEMORY, args>>
    BY <1>2, BuscarPasa
  <2>3. CASE k = 0
    <3>1. pc'[0] = p /\ p # "retira"
      BY <2>1, <2>3, UnPunto
    <3>2. Enviara(0)' /\ Mirara(0)'
      BY <3>1 DEF Enviara, Mirara, Fuera
    <3> QED BY <2>1, <2>2, <2>3, <3>2, DespachoSigueAvisos
  <2>4. CASE k # 0
    <3>1. ~Sirve(k) /\ ~Vuelca(k) /\ p \notin Fuera \cup {"revisa_exec"}
      BY <2>2 DEF Sirve, Vuelca, Fuera
    <3> QED BY <2>1, <2>2, <2>4, <3>1, SigueAvisos DEF turnos
  <2> QED BY <2>3, <2>4
<1> QED BY <1>1, <1>2

\* The dispatch thread receives a message and prepares its request, or looks whose turn it is.
LEMMA PrepararAvisos ==
  ASSUME InvTipos, Avisos,
         Bloquear \/ AnotarArgs \/ AvisarFin \/ TerminarHilo \/ \E c \in Clases : Recibir(c)
  PROVE  Avisos'
<1> USE DEF eleccion, colas, esperas, turnos, locales, cpus
<1>1. CASE Cae
  BY <1>1, CaeAvisos
<1>2. CASE ~Cae
  <2>1. PICK p \in {"bloquea", "anota_args", "encola", "busca_exec", "elige", "revisa_exec"} :
          pc' = [pc EXCEPT ![0] = p] /\ (p = "revisa_exec" => hilo_EXEC' # Nadie)
    BY <1>2 DEF Bloquear, AnotarArgs, AvisarFin, TerminarHilo, Recibir, Pasa
  <2>2. /\ pc[0] \in {"recibe", "bloquea", "anota_args", "avisa"}
        /\ UNCHANGED <<hilo_IO, hilo_DUMP_MEMORY, cola_hilos_BLOCK_IO, cola_hilos_BLOCK_DUMP_MEMORY>>
    BY <1>2 DEF Bloquear, AnotarArgs, AvisarFin, TerminarHilo, Recibir, En
  <2>3. Enviara(0)' /\ (Mirara(0)' \/ hilo_EXEC' # Nadie)
    <3>1. 0 \in KHilos
      BY ConstantesDeIO DEF KHilos
    <3>2. pc'[0] = p
      BY <2>1, <3>1, UnPunto
    <3> QED BY <2>1, <3>2 DEF Enviara, Mirara, Fuera
  <2>4. ASSUME NEW n \in Pedidos, Sirve(n)
        PROVE  args'[n] = args[n]
    <3>1. pc[n] # "nada" /\ n <= hechos
      BY <2>4, ConstantesDeIO DEF Sirve, InvTipos, Control, Tipos, Pedidos
    <3>2. CASE AnotarArgs
      <4>1. n # hechos
        BY <3>1, <3>2 DEF AnotarArgs, En, InvTipos, Control, Preparando
      <4> QED BY <1>2, <3>2, <4>1 DEF AnotarArgs, InvTipos, Argumentos
    <3>3. CASE \E c \in Clases : Recibir(c)
      <4>1. n # hechos + 1
        BY <3>1, ConstantesDeIO DEF InvTipos, Tipos, Pedidos
      <4> QED BY <1>2, <3>3, <4>1 DEF Recibir, InvTipos, Argumentos
    <3>4. CASE Bloquear \/ AvisarFin \/ TerminarHilo
      BY <1>2, <3>4 DEF Bloquear, AvisarFin, TerminarHilo
    <3> QED BY <3>2, <3>3, <3>4
  <2> QED BY <2>1, <2>2, <2>3, <2>4, DespachoSigueAvisos
<1> QED BY <1>1, <1>2

LEMMA DespachoAvisos ==
  ASSUME InvTipos, Avisos,
         Encolar \/ RevisarExec \/ Reenviar \/ \E c \in Clases \cup {"EXIT"} : Pedir(c)
  PROVE  Avisos'
<1> USE DEF eleccion, colas, esperas, turnos, locales, cpus
<1>1. CASE Cae
  BY <1>1, CaeAvisos
<1>2. CASE \E c \in Clases \cup {"EXIT"} : Pedir(c)
  <2>1. PICK c \in Clases \cup {"EXIT"} : Pedir(c)
    BY <1>2
  <2>2. pedidos' # <<>>
    BY <2>1 DEF Pedir, InvTipos, Caben
  <2>3. AvisoCpu'
    BY <2>2 DEF AvisoCpu, CpuParada
  <2> QED BY <2>1, <2>3 DEF Pedir, Avisos, AvisoIO, Sirve, MiraIO, AvisoDump, Vuelca, MiraDump
<1>3. CASE Reenviar /\ ~Cae
  <2>1. /\ canal' = Append(canal, hilo_EXEC) /\ pc[0] = "reenvia" /\ pc' = [pc EXCEPT ![0] = "recibe"]
        /\ UNCHANGED <<hilo_IO, hilo_DUMP_MEMORY, cola_hilos_BLOCK_IO, args>>
        /\ UNCHANGED cola_hilos_BLOCK_DUMP_MEMORY
    BY <1>3 DEF Reenviar, enviar_a_ejecucion, Termina, Pasa, En
  <2>2. canal' # <<>>
    BY <2>1 DEF InvTipos, Tipos
  <2>3. AvisoCpu'
    BY <2>2 DEF AvisoCpu, CpuParada
  <2>4. /\ \A j \in KHilos : j # 0 => pc'[j] = pc[j]
        /\ 0 \in KHilos /\ 0 \notin Pedidos /\ Pedidos \subseteq KHilos
    <3>1. 0 \in KHilos
      BY ConstantesDeIO DEF KHilos
    <3> QED BY <2>1, <3>1, UnPunto
  <2>5. /\ \A n \in Pedidos : (Sirve(n) => Sirve(n)') /\ (Vuelca(n) => Vuelca(n)')
        /\ \A j \in KHilos : (MiraIO(j) => MiraIO(j)') /\ (MiraDump(j) => MiraDump(j)')
    BY <2>1, <2>4 DEF Sirve, MiraIO, Vuelca, MiraDump
  <2>6. AvisoIO' /\ AvisoDump'
    BY <2>1, <2>5, IOSigue, DumpSigue DEF Avisos
  <2> QED BY <2>3, <2>6 DEF Avisos
<1>4. CASE Encolar
  <2>1. PICK p \in {"revisa_io", "revisa_dump"} : pc' = [pc EXCEPT ![0] = p]
    BY <1>4 DEF Encolar, Pasa
  <2>2. /\ pc'[0] = p /\ \A j \in KHilos : j # 0 => pc'[j] = pc[j]
        /\ 0 \in KHilos /\ 0 \notin Pedidos /\ Pedidos \subseteq KHilos
    <3>1. 0 \in KHilos
      BY ConstantesDeIO DEF KHilos
    <3> QED BY <2>1, <3>1, UnPunto
  <2>3. pc[0] = "encola" /\ UNCHANGED <<hilo_IO, hilo_DUMP_MEMORY, args>>
    BY <1>4 DEF Encolar, En
  <2>4. Enviara(0)' /\ Mirara(0)'
    BY <2>2 DEF Enviara, Mirara, Fuera
  <2>5. AvisoCpu'
    BY <2>2, <2>4 DEF AvisoCpu
  <2>7. /\ \A j \in Pedidos : (Sirve(j) => Sirve(j)') /\ (Vuelca(j) => Vuelca(j)')
        /\ \A j \in KHilos : (MiraIO(j) => MiraIO(j)') /\ (MiraDump(j) => MiraDump(j)')
    BY <2>2, <2>3 DEF Sirve, MiraIO, Vuelca, MiraDump
  <2>8. /\ cola_hilos_BLOCK_IO' = cola_hilos_BLOCK_IO \/ p = "revisa_io"
        /\ cola_hilos_BLOCK_DUMP_MEMORY' = cola_hilos_BLOCK_DUMP_MEMORY \/ p = "revisa_dump"
    <3>1. p = pc'[0] /\ (args[hechos].clase = "IO" => pc' = [pc EXCEPT ![0] = "revisa_io"])
          /\ (args[hechos].clase # "IO" => pc' = [pc EXCEPT ![0] = "revisa_dump"])
      BY <1>4, <2>2 DEF Encolar, Pasa
    <3>2. args[hechos].clase = "IO" => p = "revisa_io"
      BY <2>2, <3>1, UnPunto
    <3>3. args[hechos].clase # "IO" => p = "revisa_dump"
      BY <2>2, <3>1, UnPunto
    <3> QED BY <1>4, <3>2, <3>3 DEF Encolar
  <2>9. AvisoIO'
    <3>1. CASE p = "revisa_io"
      <4>1. MiraIO(0)'
        BY <2>2, <3>1 DEF MiraIO
      <4> QED BY <2>2, <2>3, <2>7, <4>1 DEF Avisos, AvisoIO
    <3>2. CASE cola_hilos_BLOCK_IO' = cola_hilos_BLOCK_IO
      BY <2>3, <2>7, <3>2, IOSigue DEF Avisos
    <3> QED BY <2>8, <3>1, <3>2
  <2>10. AvisoDump'
    <3>1. CASE p = "revisa_dump"
      <4>1. MiraDump(0)'
        BY <2>2, <3>1 DEF MiraDump
      <4> QED BY <2>2, <2>3, <2>7, <4>1 DEF Avisos, AvisoDump
    <3>2. CASE cola_hilos_BLOCK_DUMP_MEMORY' = cola_hilos_BLOCK_DUMP_MEMORY
      BY <2>3, <2>7, <3>2, DumpSigue DEF Avisos
    <3> QED BY <2>8, <3>1, <3>2
  <2> QED BY <2>5, <2>9, <2>10 DEF Avisos
<1>5. CASE RevisarExec
  <2>1. PICK p : /\ p = IF hilo_EXEC = Nadie THEN "recibe" ELSE "reenvia"
                 /\ pc' = [pc EXCEPT ![0] = p]
    BY <1>5 DEF RevisarExec, Pasa
  <2>2. /\ pc'[0] = p /\ \A j \in KHilos : j # 0 => pc'[j] = pc[j]
        /\ 0 \in KHilos /\ 0 \notin Pedidos /\ Pedidos \subseteq KHilos
    <3>1. 0 \in KHilos
      BY ConstantesDeIO DEF KHilos
    <3> QED BY <2>1, <3>1, UnPunto
  <2>3. /\ pc[0] = "revisa_exec" /\ UNCHANGED <<hilo_EXEC, cola_hilos_READY, canal, pedidos, args>>
        /\ UNCHANGED <<hilo_IO, hilo_DUMP_MEMORY, cola_hilos_BLOCK_IO, cola_hilos_BLOCK_DUMP_MEMORY>>
    BY <1>5 DEF RevisarExec, En
  <2>4. AvisoCpu'
    <3>1. CASE hilo_EXEC = Nadie
      <4>1. \A j \in KHilos : Mirara(j) => Mirara(j)'
        BY <2>2, <2>3 DEF Mirara
      <4> QED BY <2>3, <3>1, <4>1 DEF Avisos, AvisoCpu, CpuParada
    <3>2. CASE hilo_EXEC # Nadie
      <4>1. Enviara(0)'
        BY <2>1, <2>2, <3>2 DEF Enviara
      <4> QED BY <2>2, <2>3, <3>2, <4>1 DEF AvisoCpu
    <3> QED BY <3>1, <3>2
  <2>5. /\ \A n \in Pedidos : (Sirve(n) => Sirve(n)') /\ (Vuelca(n) => Vuelca(n)')
        /\ \A j \in KHilos : (MiraIO(j) => MiraIO(j)') /\ (MiraDump(j) => MiraDump(j)')
    BY <2>2, <2>3 DEF Sirve, MiraIO, Vuelca, MiraDump
  <2>6. AvisoIO' /\ AvisoDump'
    BY <2>3, <2>5, IOSigue, DumpSigue DEF Avisos
  <2> QED BY <2>4, <2>6 DEF Avisos
<1> QED BY <1>1, <1>2, <1>3, <1>4, <1>5

LEMMA NextAvisos ==
  ASSUME InvTipos, Avisos, [Next]_vars
  PROVE  Avisos'
<1>1. CASE \E k \in KHilos : elegir_hilo(k)
  BY <1>1, ElegirAvisos
<1>2. CASE \E k \in KHilos : RevisarIO(k) \/ TomarIO(k)
  BY <1>2, IOAvisos
<1>3. CASE \E k \in KHilos : RevisarDump(k) \/ TomarDump(k)
  BY <1>3, DumpAvisos
<1>4. CASE \E n \in KHilos \ {0} : SoltarIO(n) \/ Arrancar(n) \/ SoltarDump(n) \/ Probar(n)
  BY <1>4, TurnosAvisos
<1>5. CASE \E n \in KHilos \ {0} :
             \/ desbloquear_hilo(n) \/ Responder(n) \/ Sacar(n) \/ Finalizar(n) \/ Retirar(n)
             \/ AgregarReady(n)
  BY <1>5, ServicioAvisos
<1>6. CASE Encolar \/ RevisarExec \/ Reenviar \/ \E c \in Clases \cup {"EXIT"} : Pedir(c)
  BY <1>6, DespachoAvisos
<1>7. CASE UNCHANGED vars
  BY <1>7 DEF vars, eleccion, colas, esperas, turnos, locales, cpus, Avisos, AvisoCpu, CpuParada, Enviara,
              Mirara, AvisoIO, Sirve, MiraIO, AvisoDump, Vuelca, MiraDump
<1>8. CASE Bloquear \/ AnotarArgs \/ AvisarFin \/ TerminarHilo \/ \E c \in Clases : Recibir(c)
  BY <1>8, PrepararAvisos
<1>9. CASE \E k \in KHilos : buscar_hilo(k)
  BY <1>9, BuscarAvisos
<1> QED BY Pasos, <1>1, <1>2, <1>3, <1>4, <1>5, <1>6, <1>7, <1>8, <1>9

\* No wake-up is lost, whatever the interleaving of the kernel threads: when all are out of their
\* accesses, a ready thread finds the cpu busy, a request of IO one being served, and a request
\* of dump one that will look at the queue when it ends.
THEOREM NadieOlvidadoSiempre == Spec => []NadieOlvidado
<1> DEFINE Inv == InvTipos /\ Avisos
<1>1. Init => Inv
  BY InitTipos, InitAvisos
<1>2. Inv /\ [Next]_vars => Inv'
  BY NextTipos, NextAvisos
<1>3. Inv => NadieOlvidado
  BY AvisosNadieOlvidado
<1> HIDE DEF Inv
<1> QED BY <1>1, <1>2, <1>3, PTL DEF Spec

-----------------------------------------------------------------------------
(* While no two kernel threads have overlapped *)

Despierto(k) == pc[k] \notin Fuera

\* At most one kernel thread is among its accesses.
UnoSolo == ~solapado => \A j, k \in KHilos : Despierto(j) /\ Despierto(k) => j = k

\* What kernel and cpu say of each other when nobody is electing.
Acuerdo ==
  /\ hilo_EXEC = Nadie => CpuParada
  /\ hilo_EXEC # Nadie =>
       \/ canal = <<hilo_EXEC>> /\ pedidos = <<>>
       \/ canal = <<>> /\ Len(pedidos) = 1

\* The kernel thread that has cleared hilo_EXEC, or received a request, finds the cpu
\* stopped until it sends; the others find the agreement.
Eligiendo(k) ==
  \/ pc[k] \in {"elige", "elige_mira", "elige_saca", "elige_envia"}
  \/ k = 0 /\ Despierto(k)

CpuDeAcuerdo ==
  ~solapado =>
    /\ \A k \in KHilos : Eligiendo(k) => CpuParada
    /\ \A k \in KHilos : pc[k] \in {"elige_mira", "elige_saca"} => hilo_EXEC = Nadie
    /\ (\A k \in KHilos : ~Eligiendo(k)) => Acuerdo

\* Who holds the turn of IO is who hilo_IO says, and who takes it has seen it free.
TurnoDeIO ==
  ~solapado =>
    /\ \A n \in Pedidos : Sirve(n) => hilo_IO = n
    /\ \A k \in KHilos : pc[k] = "toma_io" => hilo_IO = Nadie

InvAcuerdo == UnoSolo /\ CpuDeAcuerdo /\ TurnoDeIO

LEMMA InitAcuerdo ==
  Init => InvAcuerdo
<1> SUFFICES ASSUME Init PROVE InvAcuerdo
  OBVIOUS
<1>1. \A k \in KHilos : ~Despierto(k) /\ ~Eligiendo(k) /\ pc[k] \in {"recibe", "nada"}
  BY DEF Init, Despierto, Eligiendo, Fuera
<1>2. \A n \in Pedidos : ~Sirve(n)
  BY <1>1 DEF Sirve, KHilos, Pedidos
<1>3. Acuerdo
  BY ConstantesDeIO DEF Init, Acuerdo, CpuParada
<1> QED BY <1>1, <1>2, <1>3 DEF InvAcuerdo, UnoSolo, CpuDeAcuerdo, TurnoDeIO

LEMMA AcuerdoVale ==
  ASSUME InvAcuerdo
  PROVE  KernelYCpuDeAcuerdo /\ UnaIO
<1>1. EnReposo => \A k \in KHilos : ~Eligiendo(k)
  BY DEF EnReposo, Eligiendo, Despierto, Fuera
<1>2. KernelYCpuDeAcuerdo
  BY <1>1 DEF InvAcuerdo, CpuDeAcuerdo, Acuerdo, KernelYCpuDeAcuerdo
<1>3. UnaIO
  BY DEF InvAcuerdo, TurnoDeIO, Sirve, UnaIO
<1> QED BY <1>2, <1>3

\* The count of Anota says that there is one at most.
LEMMA UnoSoloSigue ==
  ASSUME Anota
  PROVE  UnoSolo' /\ (solapado => solapado')
<1>1. solapado => solapado'
  BY DEF Anota
<1>2. ASSUME ~solapado', NEW j \in KHilos, NEW k \in KHilos, Despierto(j)', Despierto(k)', j # k
      PROVE  FALSE
  <2> DEFINE S == {i \in KHilos : pc'[i] \notin Fuera}
  <2>1. IsFiniteSet(KHilos)
    <3>1. 0 \in Int /\ MaxPedidos \in Int
      BY ConstantesDeIO
    <3> QED BY <3>1, FS_Interval DEF KHilos
  <2>2. IsFiniteSet(S)
    BY <2>1, FS_Subset
  <2>3. {j, k} \subseteq S
    BY <1>2 DEF Despierto
  <2>4. Cardinality({j, k}) = 2
    <3>1. IsFiniteSet({j}) /\ Cardinality({j}) = 1
      BY FS_Singleton
    <3>2. {j, k} = {j} \cup {k} /\ k \notin {j}
      BY <1>2
    <3>3. Cardinality({j} \cup {k}) = Cardinality({j}) + 1
      BY <3>1, <3>2, FS_AddElement
    <3> QED BY <3>1, <3>2, <3>3
  <2>5. Cardinality({j, k}) <= Cardinality(S)
    BY <2>2, <2>3, FS_Subset
  <2>6. Cardinality(S) \in Nat
    BY <2>2, FS_CardinalityType
  <2>7. solapado' = (solapado \/ Cardinality(S) > 1)
    BY DEF Anota
  <2> HIDE DEF S
  <2>8. Cardinality(S) > 1
    BY <2>4, <2>5, <2>6
  <2> QED BY <1>2, <2>7, <2>8
<1> QED BY <1>1, <1>2 DEF UnoSolo

\* A kernel thread that is, or comes to be, among its accesses is the only one.
LEMMA LosDemasDuermen ==
  ASSUME InvTipos, InvAcuerdo, ~solapado', Anota, NEW k \in KHilos, Despierto(k) \/ Despierto(k)',
         \A j \in KHilos : j # k => (Despierto(j) <=> Despierto(j)')
  PROVE  /\ ~solapado
         /\ \A j \in KHilos : j # k => ~Despierto(j) /\ ~Despierto(j)' /\ ~Eligiendo(j) /\ ~Eligiendo(j)'
<1>1. UnoSolo' /\ ~solapado
  BY UnoSoloSigue
<1>2. \A j \in KHilos : j # k => ~Despierto(j) /\ ~Despierto(j)'
  BY <1>1 DEF InvAcuerdo, UnoSolo
<1>3. \A j \in KHilos : (Eligiendo(j) => Despierto(j)) /\ (Eligiendo(j)' => Despierto(j)')
  BY DEF Eligiendo, Despierto, Fuera
<1> QED BY <1>1, <1>2, <1>3

\* A step that neither elects nor receives: it may only come to elect when nobody runs.
LEMMA CpuIgual ==
  ASSUME InvTipos, InvAcuerdo, Anota, UNCHANGED <<hilo_EXEC, canal, pedidos>>,
         NEW k \in KHilos, Despierto(k) \/ Despierto(k)',
         \A j \in KHilos : j # k => (Despierto(j) <=> Despierto(j)'),
         Eligiendo(k)' => Eligiendo(k) \/ hilo_EXEC = Nadie,
         Eligiendo(k) => Eligiendo(k)',
         pc'[k] \notin {"elige_mira", "elige_saca"}
  PROVE  CpuDeAcuerdo'
<1> SUFFICES ASSUME ~solapado' PROVE CpuDeAcuerdo'
  BY DEF CpuDeAcuerdo
<1>1. /\ ~solapado
      /\ \A j \in KHilos : j # k => ~Despierto(j) /\ ~Despierto(j)' /\ ~Eligiendo(j) /\ ~Eligiendo(j)'
  BY LosDemasDuermen
<1>2. /\ Eligiendo(k) => CpuParada
      /\ ~Eligiendo(k) => Acuerdo
  BY <1>1 DEF InvAcuerdo, CpuDeAcuerdo
<1>3. CpuParada' = CpuParada /\ Acuerdo' = Acuerdo
  BY DEF CpuParada, Acuerdo
<1>4. Eligiendo(k)' => CpuParada'
  BY <1>2, <1>3 DEF Acuerdo
<1>5. ~Eligiendo(k)' => Acuerdo'
  BY <1>2, <1>3
<1>6. \A j \in KHilos : pc'[j] \in {"elige_mira", "elige_saca"} => j = k
  BY <1>1 DEF Eligiendo
<1> QED BY <1>1, <1>4, <1>5, <1>6 DEF CpuDeAcuerdo

\* A step that does not touch the turn of IO.
LEMMA TurnoIgual ==
  ASSUME TurnoDeIO, solapado => solapado', UNCHANGED hilo_IO,
         \A n \in Pedidos : Sirve(n)' => Sirve(n),
         \A k \in KHilos : pc'[k] = "toma_io" => pc[k] = "toma_io"
  PROVE  TurnoDeIO'
BY DEF TurnoDeIO

LEMMA CaeAcuerdo ==
  ASSUME InvAcuerdo, Cae
  PROVE  InvAcuerdo'
BY DEF InvAcuerdo, UnoSolo, Despierto, CpuDeAcuerdo, CpuParada, Eligiendo, Acuerdo, TurnoDeIO, Sirve,
       Cae, eleccion, colas, esperas, turnos, locales, cpus

LEMMA ElegirAcuerdo ==
  ASSUME InvTipos, InvAcuerdo, NEW k \in KHilos, elegir_hilo(k)
  PROVE  InvAcuerdo'
<1> USE DEF eleccion, colas, esperas, turnos, locales, cpus
<1>1. CASE Cae
  BY <1>1, CaeAcuerdo
<1>2. CASE ~Cae
  <2>1. PICK p : pc' = [pc EXCEPT ![k] = p] /\ Anota
    BY <1>2 DEF elegir_hilo, Elegir_limpia, Elegir_mira, Elegir_saca, Elegir_envia, enviar_a_ejecucion, Termina, Pasa
  <2>2. /\ pc'[k] = p /\ \A j \in KHilos : j # k => pc'[j] = pc[j]
        /\ 0 \in KHilos /\ 0 \notin Pedidos /\ Pedidos \subseteq KHilos
    BY <2>1, UnPunto
  <2>3. /\ pc[k] \in {"elige", "elige_mira", "elige_saca", "elige_envia"}
        /\ UNCHANGED <<hilo_IO, args>>
        /\ p \in {"elige_mira", "elige_saca", "elige_envia", "recibe", "fin"}
    <3>1. CASE Elegir_limpia(k)
      BY <3>1, <2>2, UnPunto DEF Elegir_limpia, En, Pasa
    <3>2. CASE Elegir_mira(k)
      BY <3>2, <2>2, UnPunto DEF Elegir_mira, Termina, En, Pasa
    <3>3. CASE Elegir_saca(k)
      BY <3>3, <2>2, UnPunto DEF Elegir_saca, En, Pasa
    <3>4. CASE Elegir_envia(k)
      BY <1>2, <3>4, <2>2, UnPunto DEF Elegir_envia, enviar_a_ejecucion, Termina, En, Pasa
    <3> QED BY <3>1, <3>2, <3>3, <3>4 DEF elegir_hilo
  <2>4. UnoSolo' /\ (solapado => solapado')
    BY <2>1, UnoSoloSigue
  <2>5. TurnoDeIO'
    <3>1. \A n \in Pedidos : Sirve(n)' => Sirve(n)
      BY <2>2, <2>3 DEF Sirve
    <3>2. \A j \in KHilos : pc'[j] = "toma_io" => pc[j] = "toma_io"
      BY <2>2, <2>3
    <3> QED BY <2>3, <2>4, <3>1, <3>2, TurnoIgual DEF InvAcuerdo
  <2>6. CpuDeAcuerdo'
    <3> SUFFICES ASSUME ~solapado' PROVE CpuDeAcuerdo'
      BY DEF CpuDeAcuerdo
    <3>1. Despierto(k) /\ \A j \in KHilos : j # k => (Despierto(j) <=> Despierto(j)')
      BY <2>2, <2>3 DEF Despierto, Fuera
    <3>2. /\ ~solapado
          /\ \A j \in KHilos : j # k =>
               ~Despierto(j) /\ ~Despierto(j)' /\ ~Eligiendo(j) /\ ~Eligiendo(j)'
      BY <2>1, <3>1, LosDemasDuermen
    <3>3. CpuParada /\ (pc[k] \in {"elige_mira", "elige_saca"} => hilo_EXEC = Nadie)
      BY <2>3, <3>2 DEF InvAcuerdo, CpuDeAcuerdo, Eligiendo
    <3>4. \A j \in KHilos : pc'[j] \in {"elige_mira", "elige_saca"} => j = k
      BY <3>2 DEF Eligiendo
    <3>5. CASE UNCHANGED <<canal, pedidos>> /\ (hilo_EXEC' = Nadie \/ Eligiendo(k)')
               /\ (p \in {"elige_mira", "elige_saca"} => hilo_EXEC' = Nadie)
      <4>1. CpuParada'
        BY <3>3, <3>5 DEF CpuParada
      <4>2. ~Eligiendo(k)' => Acuerdo'
        BY <4>1, <3>5 DEF Acuerdo
      <4> QED BY <2>2, <3>2, <3>4, <3>5, <4>1, <4>2 DEF CpuDeAcuerdo
    <3>6. CASE Elegir_envia(k)
      <4>1. /\ canal' = Append(canal, hilo_EXEC) /\ UNCHANGED <<hilo_EXEC, pedidos>>
            /\ hilo_EXEC # Nadie /\ Termina(k)
        BY <1>2, <3>6 DEF Elegir_envia, enviar_a_ejecucion
      <4>2. canal' = <<hilo_EXEC>> /\ pedidos' = <<>>
        BY <3>3, <4>1 DEF CpuParada
      <4>3. Acuerdo'
        BY <4>1, <4>2 DEF Acuerdo
      <4>4. pc'[k] = IF k = 0 THEN "recibe" ELSE "fin"
        BY <4>1, UnPunto DEF Termina, Pasa
      <4>5. ~Eligiendo(k)'
        BY <4>4 DEF Eligiendo, Despierto, Fuera
      <4> QED BY <3>2, <3>4, <4>3, <4>4, <4>5 DEF CpuDeAcuerdo
    <3>7. CASE Elegir_limpia(k)
      BY <3>5, <3>7 DEF Elegir_limpia
    <3>8. CASE Elegir_mira(k)
      <4>1. pc[k] = "elige_mira" /\ UNCHANGED <<hilo_EXEC, canal, pedidos>>
        BY <3>8 DEF Elegir_mira, En
      <4> QED BY <3>3, <3>5, <4>1
    <3>9. CASE Elegir_saca(k)
      <4>1. pc' = [pc EXCEPT ![k] = "elige_envia"] /\ UNCHANGED <<canal, pedidos>>
        BY <3>9 DEF Elegir_saca, Pasa
      <4>2. pc'[k] = "elige_envia"
        BY <4>1, UnPunto
      <4>3. Eligiendo(k)'
        BY <4>2 DEF Eligiendo
      <4> QED BY <2>2, <3>5, <4>1, <4>2, <4>3
    <3> QED BY <3>6, <3>7, <3>8, <3>9 DEF elegir_hilo
  <2> QED BY <2>4, <2>5, <2>6 DEF InvAcuerdo
<1> QED BY <1>1, <1>2

\* NULL is no kernel thread.
LEMMA NadieNoSirve == Nadie \notin KHilos /\ Nadie \notin Pedidos
<1>1. Nadie \notin Nat
  BY ConstantesDeIO
<1>2. KHilos \subseteq Nat /\ Pedidos \subseteq Nat
  BY ConstantesDeIO DEF KHilos, Pedidos
<1> QED BY <1>1, <1>2

LEMMA IOAcuerdo ==
  ASSUME InvTipos, InvAcuerdo, NEW k \in KHilos, RevisarIO(k) \/ TomarIO(k)
  PROVE  InvAcuerdo'
<1> USE DEF eleccion, colas, esperas, turnos, locales, cpus
<1>1. PICK p \in {"toma_io", "elige", "prueba"}, m \in Pedidos \cup {Nadie} :
        /\ Anota /\ UNCHANGED <<hilo_EXEC, canal, pedidos, args>>
        /\ pc[k] \in {"revisa_io", "toma_io"} /\ (k = 0 => p # "prueba")
        /\ (k # 0 => p # "elige")
        /\ \/ m = Nadie /\ pc' = [pc EXCEPT ![k] = p] /\ (p = "toma_io" => hilo_IO = Nadie)
              /\ (UNCHANGED hilo_IO \/ (pc[k] = "toma_io" /\ hilo_IO' = Nadie))
           \/ m \in Pedidos /\ pc[m] = "nada" /\ pc' = [pc EXCEPT ![k] = p, ![m] = "duerme"]
              /\ hilo_IO' = m /\ pc[k] = "toma_io" /\ p # "toma_io"
  <2>1. CASE RevisarIO(k)
    <3>1. PICK p : p = IF HayTurnoDeIO THEN "toma_io" ELSE TrasRevisarIO(k)
      OBVIOUS
    <3> QED BY <2>1, <3>1 DEF RevisarIO, TrasRevisarIO, HayTurnoDeIO, En, Pasa
  <2>2. CASE TomarIO(k) /\ cola_hilos_BLOCK_IO = <<>>
    BY <2>2 DEF TomarIO, TrasRevisarIO, En, Pasa
  <2>3. CASE TomarIO(k) /\ cola_hilos_BLOCK_IO # <<>>
    <3>1. PICK m : m = Head(cola_hilos_BLOCK_IO)
      OBVIOUS
    <3>2. m \in Pedidos /\ pc[m] = "nada"
      BY <2>3, <3>1 DEF InvTipos, Colas, EnEspera
    <3> QED BY <2>3, <3>1, <3>2 DEF TomarIO, TrasRevisarIO, En
  <2> QED BY <2>1, <2>2, <2>3
<1>2. /\ pc'[k] = p /\ (m \in Pedidos => pc'[m] = "duerme" /\ pc[m] = "nada")
      /\ m # k /\ m # 0
      /\ \A j \in KHilos : j # k /\ j # m => pc'[j] = pc[j]
      /\ 0 \in KHilos /\ 0 \notin Pedidos /\ Pedidos \subseteq KHilos
  <2>1. CASE m = Nadie
    <3>1. m # k /\ m \notin Pedidos /\ m \notin KHilos /\ m # 0
      BY <2>1, NadieNoSirve, UnPunto, <1>1
    <3>2. pc' = [pc EXCEPT ![k] = p]
      BY <1>1, <3>1
    <3> QED BY <3>1, <3>2, UnPunto
  <2>2. CASE m # Nadie
    <3>1. m \in Pedidos /\ pc[m] = "nada" /\ pc[k] # "nada"
      BY <1>1, <2>2
    <3>2. pc' = [pc EXCEPT ![k] = p, ![m] = "duerme"]
      BY <1>1, <2>2
    <3> QED BY <3>1, <3>2, ConstantesDeIO DEF InvTipos, Control, KHilos, Pedidos
  <2> QED BY <2>1, <2>2
<1>3. Despierto(k) /\ \A j \in KHilos : j # k => (Despierto(j) <=> Despierto(j)')
  BY <1>1, <1>2, NadieNoSirve DEF Despierto, Fuera
<1>4. UnoSolo' /\ (solapado => solapado')
  BY <1>1, UnoSoloSigue
<1>5. CpuDeAcuerdo'
  <2>1. Eligiendo(k)' <=> Eligiendo(k)
    BY <1>1, <1>2 DEF Eligiendo, Despierto, Fuera
  <2> QED BY <1>1, <1>2, <1>3, <2>1, CpuIgual
<1>6. TurnoDeIO'
  <2> SUFFICES ASSUME ~solapado' PROVE TurnoDeIO'
    BY DEF TurnoDeIO
  <2>1. ~solapado /\ \A j \in KHilos : j # k => ~Despierto(j)
    BY <1>1, <1>3, LosDemasDuermen
  <2>2. pc[k] = "toma_io" => hilo_IO = Nadie /\ \A n \in Pedidos : ~Sirve(n)
    BY <2>1, NadieNoSirve DEF InvAcuerdo, TurnoDeIO
  <2>3. \A n \in Pedidos : n # m => (Sirve(n)' => Sirve(n))
    BY <1>1, <1>2 DEF Sirve
  <2>4. \A j \in KHilos : pc'[j] = "toma_io" => j = k /\ p = "toma_io"
    BY <1>2, <2>1, NadieNoSirve DEF Despierto, Fuera
  <2>5. CASE m \in Pedidos
    BY <1>1, <2>2, <2>3, <2>4, <2>5, NadieNoSirve DEF TurnoDeIO
  <2>6. CASE m = Nadie
    <3>1. \A n \in Pedidos : Sirve(n)' => Sirve(n)
      BY <2>3, <2>6, NadieNoSirve
    <3>2. \A n \in Pedidos : Sirve(n) => hilo_IO = n
      BY <2>1 DEF InvAcuerdo, TurnoDeIO
    <3>3. UNCHANGED hilo_IO \/ (hilo_IO' = Nadie /\ \A n \in Pedidos : ~Sirve(n))
      BY <1>1, <2>2, <2>6, NadieNoSirve
    <3>4. p = "toma_io" => hilo_IO' = Nadie
      BY <1>1, <2>6, NadieNoSirve
    <3> QED BY <2>4, <3>1, <3>2, <3>3, <3>4 DEF TurnoDeIO
  <2> QED BY <1>1, <2>5, <2>6
<1> QED BY <1>4, <1>5, <1>6 DEF InvAcuerdo

LEMMA DumpAcuerdo ==
  ASSUME InvTipos, InvAcuerdo, NEW k \in KHilos, RevisarDump(k) \/ TomarDump(k)
  PROVE  InvAcuerdo'
<1> USE DEF eleccion, colas, esperas, turnos, locales, cpus
<1>1. CASE Cae
  BY <1>1, CaeAcuerdo
<1>2. CASE ~Cae
  <2>1. PICK p \in {"toma_dump", "elige", "saca_de_block", "finaliza"}, m \in Pedidos \cup {Nadie} :
          /\ Anota /\ UNCHANGED <<hilo_EXEC, canal, pedidos, args, hilo_IO>>
          /\ pc[k] \in {"revisa_dump", "toma_dump"} /\ (k = 0 => p \in {"toma_dump", "elige"})
          /\ (k # 0 => p # "elige")
          /\ \/ m = Nadie /\ pc' = [pc EXCEPT ![k] = p]
             \/ m \in Pedidos /\ pc[m] = "nada" /\ pc' = [pc EXCEPT ![k] = p, ![m] = "arranca"]
    <3>1. CASE RevisarDump(k)
      <4>1. PICK p : p = IF hilo_DUMP_MEMORY = Nadie /\ cola_hilos_BLOCK_DUMP_MEMORY # <<>>
                         THEN "toma_dump" ELSE TrasRevisarDump(k)
        OBVIOUS
      <4> QED BY <3>1, <4>1 DEF RevisarDump, TrasRevisarDump, En, Pasa
    <3>2. CASE TomarDump(k) /\ cola_hilos_BLOCK_DUMP_MEMORY = <<>>
      BY <3>2 DEF TomarDump, TrasRevisarDump, En, Pasa
    <3>3. CASE TomarDump(k) /\ cola_hilos_BLOCK_DUMP_MEMORY # <<>>
      <4>1. PICK m : m = Head(cola_hilos_BLOCK_DUMP_MEMORY)
        OBVIOUS
      <4>2. m \in Pedidos /\ pc[m] = "nada"
        BY <3>3, <4>1 DEF InvTipos, Colas, EnEspera
      <4> QED BY <1>2, <3>3, <4>1, <4>2 DEF TomarDump, TrasRevisarDump, En
    <3> QED BY <3>1, <3>2, <3>3
  <2>2. /\ pc'[k] = p /\ (m \in Pedidos => pc'[m] = "arranca" /\ pc[m] = "nada")
        /\ m # k /\ m # 0
        /\ \A j \in KHilos : j # k /\ j # m => pc'[j] = pc[j]
        /\ 0 \in KHilos /\ 0 \notin Pedidos /\ Pedidos \subseteq KHilos
    <3>1. CASE m = Nadie
      <4>1. m # k /\ m \notin Pedidos /\ m \notin KHilos /\ m # 0
        BY <3>1, NadieNoSirve, UnPunto, <2>1
      <4>2. pc' = [pc EXCEPT ![k] = p]
        BY <2>1, <4>1
      <4> QED BY <4>1, <4>2, UnPunto
    <3>2. CASE m # Nadie
      <4>1. m \in Pedidos /\ pc[m] = "nada" /\ pc[k] # "nada"
        BY <2>1, <3>2
      <4>2. pc' = [pc EXCEPT ![k] = p, ![m] = "arranca"]
        BY <2>1, <3>2
      <4> QED BY <4>1, <4>2, ConstantesDeIO DEF InvTipos, Control, KHilos, Pedidos
    <3> QED BY <3>1, <3>2
  <2>3. Despierto(k) /\ \A j \in KHilos : j # k => (Despierto(j) <=> Despierto(j)')
    BY <2>1, <2>2, NadieNoSirve DEF Despierto, Fuera
  <2>4. UnoSolo' /\ (solapado => solapado')
    BY <2>1, UnoSoloSigue
  <2>5. CpuDeAcuerdo'
    <3>1. Eligiendo(k)' <=> Eligiendo(k)
      BY <2>1, <2>2 DEF Eligiendo, Despierto, Fuera
    <3> QED BY <2>1, <2>2, <2>3, <3>1, CpuIgual
  <2>6. TurnoDeIO'
    <3>1. \A n \in Pedidos : Sirve(n)' => Sirve(n)
      BY <2>1, <2>2 DEF Sirve
    <3>2. \A j \in KHilos : pc'[j] = "toma_io" => pc[j] = "toma_io"
      BY <2>1, <2>2, NadieNoSirve
    <3> QED BY <2>1, <2>4, <3>1, <3>2, TurnoIgual DEF InvAcuerdo
  <2> QED BY <2>4, <2>5, <2>6 DEF InvAcuerdo
<1> QED BY <1>1, <1>2

\* The thread of a request moves: it comes to elect only when it saw nobody running, and the
\* turn of IO changes only when it is the one that gives it back.
LEMMA MueveAcuerdo ==
  ASSUME InvTipos, InvAcuerdo, NEW n \in KHilos, n # 0, NEW p, pc' = [pc EXCEPT ![n] = p], Anota,
         UNCHANGED <<hilo_EXEC, canal, pedidos>>,
         Despierto(n) \/ Despierto(n)',
         pc[n] \notin {"elige", "elige_mira", "elige_saca", "elige_envia"},
         p \notin {"elige_mira", "elige_saca", "elige_envia", "toma_io"},
         p = "elige" => hilo_EXEC = Nadie,
         \A j \in Pedidos : j # n => args'[j] = args[j],
         Sirve(n)' => Sirve(n),
         UNCHANGED hilo_IO \/ (Sirve(n) /\ ~Sirve(n)' /\ hilo_IO' = Nadie)
  PROVE  InvAcuerdo'
<1>1. n \in Pedidos
  BY DEF KHilos, Pedidos
<1>2. /\ pc'[n] = p /\ \A j \in KHilos : j # n => pc'[j] = pc[j]
      /\ 0 \in KHilos /\ 0 \notin Pedidos /\ Pedidos \subseteq KHilos
  BY UnPunto
<1>3. UnoSolo' /\ (solapado => solapado')
  BY UnoSoloSigue
<1>4. CpuDeAcuerdo'
  <2>1. \A j \in KHilos : j # n => (Despierto(j) <=> Despierto(j)')
    BY <1>2 DEF Despierto
  <2>2. ~Eligiendo(n) /\ (Eligiendo(n)' => hilo_EXEC = Nadie)
        /\ pc'[n] \notin {"elige_mira", "elige_saca"}
    BY <1>2 DEF Eligiendo
  <2> QED BY <2>1, <2>2, CpuIgual
<1>5. TurnoDeIO'
  <2>1. \A j \in Pedidos : Sirve(j)' => Sirve(j)
    BY <1>2 DEF Sirve
  <2>2. \A j \in KHilos : pc'[j] = "toma_io" => pc[j] = "toma_io"
    BY <1>2
  <2>3. CASE UNCHANGED hilo_IO
    BY <1>3, <2>1, <2>2, <2>3, TurnoIgual DEF InvAcuerdo
  <2>4. CASE Sirve(n) /\ ~Sirve(n)' /\ hilo_IO' = Nadie
    BY <1>1, <1>3, <2>1, <2>4 DEF InvAcuerdo, TurnoDeIO
  <2> QED BY <2>3, <2>4
<1> QED BY <1>3, <1>4, <1>5 DEF InvAcuerdo

LEMMA ServicioAcuerdo ==
  ASSUME InvTipos, InvAcuerdo, NEW n \in KHilos, n # 0,
         \/ desbloquear_hilo(n) \/ Responder(n) \/ Sacar(n)
         \/ Finalizar(n) \/ Retirar(n) \/ AgregarReady(n)
  PROVE  InvAcuerdo'
<1> USE DEF eleccion, colas, esperas, turnos, locales, cpus
<1>0. n \in Pedidos
  BY DEF KHilos, Pedidos
<1>1. CASE Cae
  BY <1>1, CaeAcuerdo
<1>2. CASE ~Cae
  <2>1. PICK p : /\ pc' = [pc EXCEPT ![n] = p] /\ Anota
                 /\ p \in {"encola_ready", "suelta_dump", "prueba", "suelta_io", "busca_exec"}
    BY <1>2 DEF desbloquear_hilo, Responder, Sacar, Finalizar, Retirar, AgregarReady, Pasa
  <2>2. pc'[n] = p
    BY <2>1, UnPunto
  <2>3. /\ pc[n] \in {"duerme", "volcando", "saca_de_block", "finaliza", "retira", "encola_ready"}
        /\ UNCHANGED <<hilo_EXEC, canal, pedidos, hilo_IO>>
    BY <1>2 DEF desbloquear_hilo, Responder, Sacar, Finalizar, Retirar, AgregarReady, En
  <2>4. \A j \in Pedidos : j # n => args'[j] = args[j]
    BY <1>2 DEF desbloquear_hilo, Responder, Sacar, Finalizar, Retirar, AgregarReady, Olvida,
                InvTipos, Argumentos
  <2>5. Sirve(n)' => Sirve(n)
    <3>1. CASE desbloquear_hilo(n)
      <4>1. pc[n] = "duerme"
        BY <3>1 DEF desbloquear_hilo, En
      <4> QED BY <4>1 DEF Sirve
    <3>2. CASE Responder(n)
      <4>1. pc' = [pc EXCEPT ![n] = "suelta_dump"]
        BY <1>2, <3>2 DEF Responder, Pasa
      <4>2. pc'[n] = "suelta_dump"
        BY <4>1, UnPunto
      <4> QED BY <4>2 DEF Sirve
    <3>3. CASE Sacar(n)
      <4>1. /\ args[n].clase = "DUMP" /\ args[n] \in Argumento
            /\ pc' = [pc EXCEPT ![n] = "encola_ready"]
        BY <1>0, <1>2, <3>3, ConSuArgumento DEF Sacar, Pasa, En, InvTipos, Argumentos, DeDump, Usa
      <4>2. args' = [args EXCEPT ![n].hilo = IF EnBlock(args[n].hilo) THEN args[n].hilo ELSE Nadie]
        BY <1>2, <3>3 DEF Sacar
      <4>3. args'[n].clase = "DUMP"
        BY <1>0, <4>1, <4>2 DEF InvTipos, Argumentos, Argumento
      <4>4. pc'[n] = "encola_ready"
        BY <4>1, UnPunto
      <4> QED BY <4>3, <4>4 DEF Sirve
    <3>4. CASE Finalizar(n)
      <4>1. pc' = [pc EXCEPT ![n] = "busca_exec"]
        BY <1>2, <3>4 DEF Finalizar, Pasa
      <4>2. pc'[n] = "busca_exec"
        BY <4>1, UnPunto
      <4> QED BY <4>2 DEF Sirve
    <3>5. CASE AgregarReady(n)
      <4>1. pc[n] = "encola_ready" /\ p = IF args[n].clase = "IO" THEN "suelta_io" ELSE "prueba"
        <5>1. /\ pc[n] = "encola_ready"
              /\ pc' = [pc EXCEPT ![n] = IF args[n].clase = "IO" THEN "suelta_io" ELSE "prueba"]
          BY <3>5 DEF AgregarReady, Pasa, En
        <5>2. pc'[n] = IF args[n].clase = "IO" THEN "suelta_io" ELSE "prueba"
          BY <5>1, UnPunto
        <5> QED BY <5>1, <5>2, <2>2
      <4> QED BY <2>2, <4>1 DEF Sirve
    <3>6. CASE Retirar(n)
      <4>1. pc' = [pc EXCEPT ![n] = "prueba"]
        BY <1>2, <3>6 DEF Retirar, Pasa
      <4>2. pc'[n] = "prueba"
        BY <4>1, UnPunto
      <4> QED BY <4>2 DEF Sirve
    <3> QED BY <3>1, <3>2, <3>3, <3>4, <3>5, <3>6
  <2>6. Despierto(n)'
    BY <2>1, <2>2 DEF Despierto, Fuera
  <2> QED BY <2>1, <2>3, <2>4, <2>5, <2>6, MueveAcuerdo
<1> QED BY <1>1, <1>2

LEMMA TurnosAcuerdo ==
  ASSUME InvTipos, InvAcuerdo, NEW n \in KHilos, n # 0,
         SoltarIO(n) \/ Arrancar(n) \/ SoltarDump(n) \/ Probar(n)
  PROVE  InvAcuerdo'
<1> USE DEF eleccion, colas, esperas, turnos, locales, cpus
<1>1. PICK p : pc' = [pc EXCEPT ![n] = p] /\ Anota
  BY DEF SoltarIO, Arrancar, SoltarDump, Probar, Pasa
<1>2. /\ pc'[n] = p /\ \A j \in KHilos : j # n => pc'[j] = pc[j]
      /\ 0 \in KHilos /\ 0 \notin Pedidos /\ Pedidos \subseteq KHilos
  BY <1>1, UnPunto
<1>3. UNCHANGED <<hilo_EXEC, canal, pedidos, args>>
  BY DEF SoltarIO, Arrancar, SoltarDump, Probar
<1>4. CASE SoltarIO(n)
  <2>1. p = "revisa_io" /\ pc[n] = "suelta_io" /\ hilo_IO' = Nadie
    BY <1>2, <1>4, UnPunto DEF SoltarIO, En, Pasa
  <2>2. Sirve(n) /\ ~Sirve(n)' /\ Despierto(n)
    BY <1>2, <2>1 DEF Sirve, Despierto, Fuera
  <2> QED BY <1>1, <1>3, <2>1, <2>2, MueveAcuerdo
<1>5. CASE SoltarDump(n)
  <2>1. p = "revisa_dump" /\ pc[n] = "suelta_dump" /\ UNCHANGED hilo_IO
    BY <1>2, <1>5, UnPunto DEF SoltarDump, En, Pasa
  <2>2. ~Sirve(n)' /\ Despierto(n)
    BY <1>2, <2>1 DEF Sirve, Despierto, Fuera
  <2> QED BY <1>1, <1>3, <2>1, <2>2, MueveAcuerdo
<1>6. CASE Probar(n)
  <2>1. p = (IF Ocupada THEN "fin" ELSE "elige") /\ pc[n] = "prueba" /\ UNCHANGED hilo_IO
    BY <1>2, <1>6, UnPunto DEF Probar, En, Pasa
  <2>2. ~Sirve(n)' /\ Despierto(n) /\ (p = "elige" => hilo_EXEC = Nadie)
        /\ p \in {"fin", "elige"}
    BY <1>2, <2>1 DEF Sirve, Despierto, Fuera, Ocupada
  <2> QED BY <1>1, <1>3, <2>1, <2>2, MueveAcuerdo
<1>7. CASE Arrancar(n)
  <2>1. p = "volcando" /\ pc[n] = "arranca" /\ UNCHANGED hilo_IO
    BY <1>2, <1>7, UnPunto DEF Arrancar, En, Pasa
  <2>2. UnoSolo' /\ (solapado => solapado')
    BY <1>1, UnoSoloSigue
  <2>3. /\ \A j \in KHilos : Eligiendo(j)' <=> Eligiendo(j)
        /\ \A j \in KHilos : /\ pc'[j] \in {"elige_mira", "elige_saca"}
                                  => pc[j] \in {"elige_mira", "elige_saca"}
                             /\ pc'[j] = "toma_io" => pc[j] = "toma_io"
    BY <1>2, <2>1 DEF Eligiendo, Despierto
  <2>4. CpuDeAcuerdo'
    BY <1>3, <2>2, <2>3 DEF InvAcuerdo, CpuDeAcuerdo, CpuParada, Acuerdo
  <2>5. \A j \in Pedidos : Sirve(j)' => Sirve(j)
    BY <1>2, <1>3, <2>1 DEF Sirve
  <2>6. TurnoDeIO'
    BY <2>1, <2>2, <2>3, <2>5, TurnoIgual DEF InvAcuerdo
  <2> QED BY <2>2, <2>4, <2>6 DEF InvAcuerdo
<1> QED BY <1>4, <1>5, <1>6, <1>7

\* The dispatch thread receives the request of the only thread the cpu had, and the cpu is stopped
\* until the next one is sent to it.
LEMMA RecibirAcuerdo ==
  ASSUME InvTipos, InvAcuerdo, TerminarHilo \/ (\E c \in Clases : Recibir(c))
  PROVE  InvAcuerdo'
<1> USE DEF eleccion, colas, esperas, turnos, locales, cpus
<1>1. CASE Cae
  BY <1>1, CaeAcuerdo
<1>2. CASE ~Cae
  <2>1. PICK p \in {"busca_exec", "bloquea"} : pc' = [pc EXCEPT ![0] = p] /\ Anota
    BY <1>2 DEF TerminarHilo, Recibir, Pasa
  <2>2. /\ pc'[0] = p /\ \A j \in KHilos : j # 0 => pc'[j] = pc[j]
        /\ 0 \in KHilos /\ 0 \notin Pedidos /\ Pedidos \subseteq KHilos
    <3>1. 0 \in KHilos
      BY ConstantesDeIO DEF KHilos
    <3> QED BY <2>1, <3>1, UnPunto
  <2>3. /\ pc[0] = "recibe" /\ hilo_EXEC # Nadie /\ pedidos # <<>> /\ pedidos' = Tail(pedidos)
        /\ UNCHANGED <<hilo_EXEC, canal, hilo_IO>>
    BY <1>2 DEF TerminarHilo, Recibir, En
  <2>4. UnoSolo' /\ (solapado => solapado')
    BY <2>1, UnoSoloSigue
  <2>5. CpuDeAcuerdo'
    <3> SUFFICES ASSUME ~solapado' PROVE CpuDeAcuerdo'
      BY DEF CpuDeAcuerdo
    <3>1. Despierto(0)' /\ \A j \in KHilos : j # 0 => (Despierto(j) <=> Despierto(j)')
      BY <2>1, <2>2 DEF Despierto, Fuera
    <3>2. /\ ~solapado
          /\ \A j \in KHilos : j # 0 =>
               ~Despierto(j) /\ ~Despierto(j)' /\ ~Eligiendo(j) /\ ~Eligiendo(j)'
      BY <2>1, <2>2, <3>1, LosDemasDuermen
    <3>3. \A j \in KHilos : ~Eligiendo(j)
      BY <2>3, <3>2 DEF Eligiendo, Despierto, Fuera
    <3>4. canal = <<>> /\ Len(pedidos) = 1
      BY <2>3, <3>2, <3>3 DEF InvAcuerdo, CpuDeAcuerdo, Acuerdo
    <3>5. CpuParada'
      BY <2>3, <3>4 DEF CpuParada, InvTipos, Caben
    <3>6. \A j \in KHilos : pc'[j] \notin {"elige_mira", "elige_saca"}
      BY <2>1, <2>2, <3>2 DEF Eligiendo
    <3>7. Eligiendo(0)'
      BY <3>1 DEF Eligiendo
    <3> QED BY <2>2, <3>5, <3>6, <3>7 DEF CpuDeAcuerdo
  <2>6. TurnoDeIO'
    <3>1. \A n \in Pedidos : Sirve(n)' => Sirve(n)
      <4>1. CASE TerminarHilo
        BY <1>2, <2>2, <4>1 DEF TerminarHilo, Sirve
      <4>2. ASSUME NEW c \in Clases, Recibir(c), NEW n \in Pedidos, Sirve(n)'
            PROVE  Sirve(n)
        <5>1. pc[n] = pc'[n]
          BY <2>2
        <5>2. n # hechos + 1
          BY SMTT(30), <4>2, <5>1, ConstantesDeIO DEF Sirve, InvTipos, Control, Tipos, Pedidos
        <5>3. args'[n] = args[n]
          BY <1>2, <4>2, <5>2 DEF Recibir, InvTipos, Argumentos
        <5> QED BY <4>2, <5>1, <5>3 DEF Sirve
      <4> QED BY <4>1, <4>2
    <3>2. \A j \in KHilos : pc'[j] = "toma_io" => pc[j] = "toma_io"
      BY <2>1, <2>2
    <3> QED BY <2>3, <2>4, <3>1, <3>2, TurnoIgual DEF InvAcuerdo
  <2> QED BY <2>4, <2>5, <2>6 DEF InvAcuerdo
<1> QED BY <1>1, <1>2

\* Until it sends, the dispatch thread is the one that elects, wherever it is.
LEMMA DespachoAcuerdo ==
  ASSUME InvTipos, InvAcuerdo, NEW p, pc' = [pc EXCEPT ![0] = p], Anota,
         pc[0] \notin Fuera,
         p \notin Fuera \cup {"elige_mira", "elige_saca", "toma_io"},
         UNCHANGED <<hilo_EXEC, canal, pedidos, hilo_IO>>,
         \A n \in Pedidos : Sirve(n) \/ pc[n] = "encola_ready" => args'[n] = args[n]
  PROVE  InvAcuerdo'
<1>1. /\ pc'[0] = p /\ \A j \in KHilos : j # 0 => pc'[j] = pc[j]
      /\ 0 \in KHilos /\ 0 \notin Pedidos /\ Pedidos \subseteq KHilos
  <2>1. 0 \in KHilos
    BY ConstantesDeIO DEF KHilos
  <2> QED BY <2>1, UnPunto
<1>2. UnoSolo' /\ (solapado => solapado')
  BY UnoSoloSigue
<1>3. CpuDeAcuerdo'
  <2>1. Despierto(0) /\ \A j \in KHilos : j # 0 => (Despierto(j) <=> Despierto(j)')
    BY <1>1 DEF Despierto
  <2>2. Eligiendo(0) /\ Eligiendo(0)' /\ pc'[0] \notin {"elige_mira", "elige_saca"}
    BY <1>1 DEF Eligiendo, Despierto
  <2> QED BY <1>1, <2>1, <2>2, CpuIgual
<1>4. TurnoDeIO'
  <2>1. \A n \in Pedidos : Sirve(n)' => Sirve(n)
    BY <1>1 DEF Sirve
  <2>2. \A j \in KHilos : pc'[j] = "toma_io" => pc[j] = "toma_io"
    BY <1>1
  <2> QED BY <1>2, <2>1, <2>2, TurnoIgual DEF InvAcuerdo
<1> QED BY <1>2, <1>3, <1>4 DEF InvAcuerdo

LEMMA PrepararAcuerdo ==
  ASSUME InvTipos, InvAcuerdo, Bloquear \/ AnotarArgs \/ Encolar \/ AvisarFin
  PROVE  InvAcuerdo'
<1> USE DEF eleccion, colas, esperas, turnos, locales, cpus
<1>1. CASE Cae
  BY <1>1, CaeAcuerdo
<1>2. CASE ~Cae
  <2>1. PICK p \in {"anota_args", "encola", "revisa_io", "revisa_dump", "elige", "revisa_exec"} :
          pc' = [pc EXCEPT ![0] = p] /\ Anota
    BY <1>2 DEF Bloquear, AnotarArgs, Encolar, AvisarFin, Pasa
  <2>2. /\ pc[0] \in {"bloquea", "anota_args", "encola", "avisa"}
        /\ UNCHANGED <<hilo_EXEC, canal, pedidos, hilo_IO>>
    BY <1>2 DEF Bloquear, AnotarArgs, Encolar, AvisarFin, En
  <2>3. ASSUME NEW n \in Pedidos, Sirve(n) \/ pc[n] = "encola_ready"
        PROVE  args'[n] = args[n]
    <3>1. CASE AnotarArgs
      <4>1. n # hechos
        BY <2>3, <3>1 DEF AnotarArgs, En, InvTipos, Control, Preparando, Sirve
      <4> QED BY <1>2, <3>1, <4>1 DEF AnotarArgs, InvTipos, Argumentos
    <3>2. CASE Bloquear \/ Encolar \/ AvisarFin
      BY <1>2, <3>2 DEF Bloquear, Encolar, AvisarFin
    <3> QED BY <3>1, <3>2
  <2>4. pc[0] \notin Fuera /\ p \notin Fuera
    BY <2>1, <2>2 DEF Fuera
  <2> QED BY <2>1, <2>2, <2>3, <2>4, DespachoAcuerdo
<1> QED BY <1>1, <1>2

\* The search moves the dispatch thread, or that of a dump, and nothing of the cpu or of IO.
LEMMA BuscarAcuerdo ==
  ASSUME InvTipos, InvAcuerdo, NEW k \in KHilos, buscar_hilo(k)
  PROVE  InvAcuerdo'
<1>1. CASE Cae
  BY <1>1, CaeAcuerdo
<1>2. CASE ~Cae
  <2>1. PICK p \in {"retira", "avisa", "reenvia", "busca_ready", "busca_block"} :
          pc' = [pc EXCEPT ![k] = p] /\ Anota
    BY <1>2, BuscarPasa DEF Pasa
  <2>2. /\ pc[k] \in {"busca_exec", "busca_ready", "busca_block"}
        /\ UNCHANGED <<hilo_EXEC, canal, pedidos, hilo_IO, args>>
    BY <1>2, BuscarPasa
  <2>3. pc[k] \notin Fuera /\ p \notin Fuera
    BY <2>1, <2>2 DEF Fuera
  <2>4. CASE k = 0
    BY <2>1, <2>2, <2>3, <2>4, DespachoAcuerdo
  <2>5. CASE k # 0
    <3>1. ~Sirve(k)' /\ Despierto(k)
      <4>1. pc'[k] = p
        BY <2>1, UnPunto
      <4> QED BY <2>3, <4>1 DEF Sirve, Despierto
    <3> QED BY <2>1, <2>2, <2>5, <3>1, MueveAcuerdo
  <2> QED BY <2>4, <2>5
<1> QED BY <1>1, <1>2

\* The thread that ended was not the one of hilo_EXEC any more: the turn is sent again, and the
\* cpu, stopped since the message was received, has it.
LEMMA ReenviarAcuerdo ==
  ASSUME InvTipos, InvAcuerdo, Reenviar
  PROVE  InvAcuerdo'
<1> USE DEF eleccion, colas, esperas, turnos, locales, cpus
<1>1. CASE Cae
  BY <1>1, CaeAcuerdo
<1>2. CASE ~Cae
  <2>1. /\ pc[0] = "reenvia" /\ pc' = [pc EXCEPT ![0] = "recibe"] /\ Anota
        /\ canal' = Append(canal, hilo_EXEC) /\ hilo_EXEC # Nadie
        /\ UNCHANGED <<hilo_EXEC, pedidos, hilo_IO, args>>
    BY <1>2 DEF Reenviar, enviar_a_ejecucion, En, Termina, Pasa
  <2>2. /\ pc'[0] = "recibe" /\ \A j \in KHilos : j # 0 => pc'[j] = pc[j]
        /\ 0 \in KHilos /\ 0 \notin Pedidos /\ Pedidos \subseteq KHilos
    <3>1. 0 \in KHilos
      BY ConstantesDeIO DEF KHilos
    <3> QED BY <2>1, <3>1, UnPunto
  <2>3. UnoSolo' /\ (solapado => solapado')
    BY <2>1, UnoSoloSigue
  <2>4. CpuDeAcuerdo'
    <3> SUFFICES ASSUME ~solapado' PROVE CpuDeAcuerdo'
      BY DEF CpuDeAcuerdo
    <3>1. /\ Despierto(0) /\ Eligiendo(0)
          /\ \A j \in KHilos : j # 0 => (Despierto(j) <=> Despierto(j)')
      BY <2>1, <2>2 DEF Eligiendo, Despierto, Fuera
    <3>2. /\ ~solapado
          /\ \A j \in KHilos : j # 0 =>
               ~Despierto(j) /\ ~Despierto(j)' /\ ~Eligiendo(j) /\ ~Eligiendo(j)'
      BY <2>1, <2>2, <3>1, LosDemasDuermen
    <3>3. CpuParada
      BY <2>2, <3>1, <3>2 DEF InvAcuerdo, CpuDeAcuerdo
    <3>4. Acuerdo'
      BY <2>1, <3>3 DEF CpuParada, Acuerdo
    <3>5. ~Eligiendo(0)'
      BY <2>2 DEF Eligiendo, Despierto, Fuera
    <3>6. \A j \in KHilos : pc'[j] \notin {"elige_mira", "elige_saca"}
      BY <2>2, <3>2 DEF Eligiendo
    <3> QED BY <3>2, <3>4, <3>5, <3>6 DEF CpuDeAcuerdo
  <2>5. TurnoDeIO'
    <3>1. \A n \in Pedidos : Sirve(n)' => Sirve(n)
      BY <2>1, <2>2 DEF Sirve
    <3>2. \A j \in KHilos : pc'[j] = "toma_io" => pc[j] = "toma_io"
      BY <2>2
    <3> QED BY <2>1, <2>3, <3>1, <3>2, TurnoIgual DEF InvAcuerdo
  <2> QED BY <2>3, <2>4, <2>5 DEF InvAcuerdo
<1> QED BY <1>1, <1>2

\* If it is nobody's any more, the cpu stays stopped.
LEMMA RevisarExecAcuerdo ==
  ASSUME InvTipos, InvAcuerdo, RevisarExec
  PROVE  InvAcuerdo'
<1> USE DEF eleccion, colas, esperas, turnos, locales, cpus
<1>1. PICK p : /\ p = IF hilo_EXEC = Nadie THEN "recibe" ELSE "reenvia"
               /\ pc' = [pc EXCEPT ![0] = p] /\ Anota
  BY DEF RevisarExec, Pasa
<1>2. /\ pc[0] = "revisa_exec"
      /\ UNCHANGED <<hilo_EXEC, canal, pedidos, hilo_IO, args>>
  BY DEF RevisarExec, En
<1>3. CASE hilo_EXEC # Nadie
  <2>1. p = "reenvia" /\ pc[0] \notin Fuera /\ p \notin Fuera
    BY <1>1, <1>2, <1>3 DEF Fuera
  <2> QED BY <1>1, <1>2, <2>1, DespachoAcuerdo
<1>4. CASE hilo_EXEC = Nadie
  <2>1. pc' = [pc EXCEPT ![0] = "recibe"] /\ Anota
    BY <1>1, <1>4
  <2>2. /\ pc'[0] = "recibe" /\ \A j \in KHilos : j # 0 => pc'[j] = pc[j]
        /\ 0 \in KHilos /\ 0 \notin Pedidos /\ Pedidos \subseteq KHilos
    <3>1. 0 \in KHilos
      BY ConstantesDeIO DEF KHilos
    <3> QED BY <2>1, <3>1, UnPunto
  <2>3. UnoSolo' /\ (solapado => solapado')
    BY <2>1, UnoSoloSigue
  <2>4. CpuDeAcuerdo'
    <3> SUFFICES ASSUME ~solapado' PROVE CpuDeAcuerdo'
      BY DEF CpuDeAcuerdo
    <3>1. /\ Despierto(0) /\ Eligiendo(0)
          /\ \A j \in KHilos : j # 0 => (Despierto(j) <=> Despierto(j)')
      BY <1>2, <2>2 DEF Eligiendo, Despierto, Fuera
    <3>2. /\ ~solapado
          /\ \A j \in KHilos : j # 0 =>
               ~Despierto(j) /\ ~Despierto(j)' /\ ~Eligiendo(j) /\ ~Eligiendo(j)'
      BY <2>1, <2>2, <3>1, LosDemasDuermen
    <3>3. CpuParada
      BY <2>2, <3>1, <3>2 DEF InvAcuerdo, CpuDeAcuerdo
    <3>4. Acuerdo'
      BY <1>2, <1>4, <3>3 DEF CpuParada, Acuerdo
    <3>5. ~Eligiendo(0)'
      BY <2>2 DEF Eligiendo, Despierto, Fuera
    <3>6. \A j \in KHilos : pc'[j] \notin {"elige_mira", "elige_saca"}
      BY <2>2, <3>2 DEF Eligiendo
    <3> QED BY <3>2, <3>4, <3>5, <3>6 DEF CpuDeAcuerdo
  <2>5. TurnoDeIO'
    <3>1. \A n \in Pedidos : Sirve(n)' => Sirve(n)
      BY <1>2, <2>2 DEF Sirve
    <3>2. \A j \in KHilos : pc'[j] = "toma_io" => pc[j] = "toma_io"
      BY <2>2
    <3> QED BY <1>2, <2>3, <3>1, <3>2, TurnoIgual DEF InvAcuerdo
  <2> QED BY <2>3, <2>4, <2>5 DEF InvAcuerdo
<1> QED BY <1>3, <1>4

LEMMA PedirAcuerdo ==
  ASSUME InvTipos, InvAcuerdo, NEW c \in Clases \cup {"EXIT"}, Pedir(c)
  PROVE  InvAcuerdo'
<1>1. UNCHANGED <<pc, solapado, hilo_EXEC, hilo_IO, args>>
  BY DEF Pedir, eleccion, turnos, locales
<1>2. /\ \A j \in KHilos : (Despierto(j)' <=> Despierto(j)) /\ (Eligiendo(j)' <=> Eligiendo(j))
      /\ \A n \in Pedidos : Sirve(n)' <=> Sirve(n)
  BY <1>1 DEF Despierto, Eligiendo, Sirve
<1>3. UnoSolo' /\ TurnoDeIO'
  BY <1>1, <1>2 DEF InvAcuerdo, UnoSolo, TurnoDeIO
<1>4. ASSUME ~solapado
      PROVE  (\A k \in KHilos : ~Eligiendo(k)) /\ Acuerdo'
  <2>1. ~CpuParada
    BY DEF Pedir, CpuParada
  <2>2. \A k \in KHilos : ~Eligiendo(k)
    BY <1>4, <2>1 DEF InvAcuerdo, CpuDeAcuerdo
  <2>3. Acuerdo
    BY <1>4, <2>2 DEF InvAcuerdo, CpuDeAcuerdo
  <2>4. hilo_EXEC # Nadie /\ canal = <<hilo_EXEC>> /\ pedidos = <<>>
    BY <2>1, <2>3 DEF Acuerdo, Pedir
  <2>5. canal' = <<>> /\ pedidos' = <<c>>
    BY <2>4 DEF Pedir
  <2> QED BY <1>1, <2>2, <2>4, <2>5 DEF Acuerdo
<1>5. CpuDeAcuerdo'
  <2>1. ~solapado => \A k \in KHilos : pc'[k] \notin {"elige_mira", "elige_saca"}
    BY <1>1, <1>4 DEF Eligiendo
  <2> QED BY <1>1, <1>2, <1>4, <2>1 DEF CpuDeAcuerdo
<1> QED BY <1>3, <1>5 DEF InvAcuerdo

LEMMA NextAcuerdo ==
  ASSUME InvTipos, InvAcuerdo, [Next]_vars
  PROVE  InvAcuerdo'
<1>1. CASE \E k \in KHilos : elegir_hilo(k)
  BY <1>1, ElegirAcuerdo
<1>2. CASE \E k \in KHilos : RevisarIO(k) \/ TomarIO(k)
  BY <1>2, IOAcuerdo
<1>3. CASE \E k \in KHilos : RevisarDump(k) \/ TomarDump(k)
  BY <1>3, DumpAcuerdo
<1>4. CASE \E n \in KHilos \ {0} : SoltarIO(n) \/ Arrancar(n) \/ SoltarDump(n) \/ Probar(n)
  BY <1>4, TurnosAcuerdo
<1>5. CASE \E n \in KHilos \ {0} :
             \/ desbloquear_hilo(n) \/ Responder(n) \/ Sacar(n)
             \/ Finalizar(n) \/ Retirar(n) \/ AgregarReady(n)
  BY <1>5, ServicioAcuerdo
<1>6. CASE Bloquear \/ AnotarArgs \/ Encolar \/ AvisarFin
  BY <1>6, PrepararAcuerdo
<1>7. CASE TerminarHilo \/ \E c \in Clases : Recibir(c)
  BY <1>7, RecibirAcuerdo
<1>8. CASE \E c \in Clases \cup {"EXIT"} : Pedir(c)
  BY <1>8, PedirAcuerdo
<1>9. CASE UNCHANGED vars
  BY <1>9 DEF vars, eleccion, colas, esperas, turnos, locales, cpus, InvAcuerdo, UnoSolo,
              Despierto, CpuDeAcuerdo, CpuParada, Eligiendo, Acuerdo, TurnoDeIO, Sirve
<1>10. CASE \E k \in KHilos : buscar_hilo(k)
  BY <1>10, BuscarAcuerdo
<1>11. CASE Reenviar
  BY <1>11, ReenviarAcuerdo
<1>12. CASE RevisarExec
  BY <1>12, RevisarExecAcuerdo
<1> QED BY Pasos, <1>1, <1>2, <1>3, <1>4, <1>5, <1>6, <1>7, <1>8, <1>9, <1>10, <1>11, <1>12

\* As long as the accesses of two kernel threads have not overlapped, kernel and cpu mean the
\* same thread: the cpu has the thread of hilo_EXEC, or one request of its on the way.
THEOREM KernelYCpuDeAcuerdoSiempre == Spec => []KernelYCpuDeAcuerdo
<1> DEFINE Inv == InvTipos /\ InvAcuerdo
<1>1. Init => Inv
  BY InitTipos, InitAcuerdo
<1>2. Inv /\ [Next]_vars => Inv'
  BY NextTipos, NextAcuerdo
<1>3. Inv => KernelYCpuDeAcuerdo
  BY AcuerdoVale
<1> HIDE DEF Inv
<1> QED BY <1>1, <1>2, <1>3, PTL DEF Spec

\* Under the same condition there is one IO at a time, the one hilo_IO says.
THEOREM UnaIOSiempre == Spec => []UnaIO
<1> DEFINE Inv == InvTipos /\ InvAcuerdo
<1>1. Init => Inv
  BY InitTipos, InitAcuerdo
<1>2. Inv /\ [Next]_vars => Inv'
  BY NextTipos, NextAcuerdo
<1>3. Inv => UnaIO
  BY AcuerdoVale
<1> HIDE DEF Inv
<1> QED BY <1>1, <1>2, <1>3, PTL DEF Spec
=============================================================================
