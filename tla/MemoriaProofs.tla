--------------------------- MODULE MemoriaProofs ----------------------------
(***************************************************************************)
(* The dynamic partitions tile the memory and the merge never reads past   *)
(* the list, for every size of the memory, every number of processes of    *)
(* every size, and the three search algorithms. Then who has which bytes,  *)
(* for both schemes of partitions, and which of them a write touches.      *)
(*                                                                         *)
(* Tiling alone is not inductive: a merge must not lose a partition in     *)
(* use, so free partitions have no PID; and the last partition is always   *)
(* free, empty or not, which is what protects liberar_particion_dinamica.  *)
(* Each process that may ask to be freed has a partition with its PID.     *)
(***************************************************************************)
EXTENDS Proteccion, LemasDeColas, TLAPS, SequenceTheorems, FiniteSetTheorems

\* The list of dynamic partitions tiles the memory and ends in a free one.
EnOrden(s) == \A i \in 1 .. Len(s) - 1 : s[i + 1].base = s[i].base + s[i].tamanio
EnMemoria(s)  == \A i \in 1 .. Len(s) :
                /\ s[i].tamanio >= 0 /\ s[i].base >= 0
                /\ s[i].base + s[i].tamanio <= TAM_MEMORIA
SinPIDLibre(s) == \A i \in 1 .. Len(s) : s[i].PID # Nadie => s[i].esta_ocupado
Bien(s) ==
  /\ s \in Seq(Particiones) /\ Len(s) >= 1
  /\ s[1].base = 0 /\ EnOrden(s) /\ EnMemoria(s)
  /\ s[Len(s)].base + s[Len(s)].tamanio = TAM_MEMORIA
  /\ ~s[Len(s)].esta_ocupado
  /\ SinPIDLibre(s)

\* Some partition has the PID p.
Tiene(s, p) == \E i \in 1 .. Len(s) : s[i].PID = p

\* The processes that memory may be asked to free.
ConMemoria == activos \cup (IF iniciando THEN {cabeza} ELSE {})

Inv ==
  /\ memoria = "activa"
  /\ ESQUEMA = "DINAMICAS" =>
       /\ ALGORITMO_BUSQUEDA \in {"FIRST", "BEST", "WORST"}
       /\ Bien(lista_particiones)
       /\ \A p \in ConMemoria : Tiene(lista_particiones, p)
       /\ tam \in [PIDs -> Tamanios]
       /\ cabeza \in Nat /\ activos \subseteq PIDs /\ \A p \in activos : p < cabeza
       /\ iniciando \in BOOLEAN /\ (iniciando => cabeza \in PIDs)

-----------------------------------------------------------------------------
(* Search *)

\* When the process fits somewhere, the search takes a free partition where it fits.
LEMMA ElegidaEntra ==
  ASSUME NEW s \in Seq(Particiones), EnMemoria(s), NEW t \in Nat, Entran(s, t) # {},
         ALGORITMO_BUSQUEDA \in {"FIRST", "BEST", "WORST"}
  PROVE  Elegida(s, t) \in Entran(s, t)
<1> DEFINE E == Entran(s, t)
           clave(i) == IF ALGORITMO_BUSQUEDA = "BEST" THEN s[i].tamanio
                       ELSE IF ALGORITMO_BUSQUEDA = "WORST" THEN TAM_MEMORIA - s[i].tamanio
                       ELSE 0
           C == {clave(i) : i \in E}
<1>1. E \subseteq 1 .. Len(s) /\ E \subseteq Nat /\ Len(s) \in Nat
  BY DEF Entran
<1>2. \A i \in E : clave(i) \in Nat /\ s[i].tamanio \in Int
  <2> SUFFICES ASSUME NEW i \in E PROVE clave(i) \in Nat /\ s[i].tamanio \in Int
    OBVIOUS
  <2>1. i \in 1 .. Len(s)
    BY <1>1
  <2>2. s[i] \in Particiones
    BY <2>1
  <2>3. s[i].tamanio \in Int /\ s[i].base \in Int
    BY <2>2 DEF Particiones
  <2>4. s[i].tamanio >= 0 /\ s[i].base >= 0 /\ s[i].base + s[i].tamanio <= TAM_MEMORIA
    BY <2>1 DEF EnMemoria
  <2> QED BY <2>3, <2>4, ConstantesDeMemoria
<1>3. PICK m \in C : \A k \in C : m <= k
  <2>1. C \in SUBSET Nat /\ C # {}
    BY <1>2
  <2> HIDE DEF C
  <2> QED BY <2>1, Minimo
<1> DEFINE T == {i \in E : clave(i) = m}
<1>4. PICK i \in T : \A k \in T : i <= k
  <2>1. T \in SUBSET Nat /\ T # {}
    BY <1>1, <1>3
  <2> HIDE DEF T
  <2> QED BY <2>1, Minimo
<1>5. ASSUME NEW k \in E
      PROVE  ~Mejor(s, k, i) /\ (k < i => Mejor(s, i, k))
  <2>1. clave(i) <= clave(k) /\ clave(i) = m
    BY <1>3, <1>4
  <2>2. k < i => clave(k) # m
    BY <1>4, <1>1
  <2>3. s[i].tamanio \in Int /\ s[k].tamanio \in Int
    BY <1>2, <1>4
  <2> HIDE DEF E, C, T
  <2>4. CASE ALGORITMO_BUSQUEDA = "BEST"
    <3>1. s[i].tamanio <= s[k].tamanio /\ (k < i => s[k].tamanio # s[i].tamanio)
      BY <2>1, <2>2, <2>4
    <3> QED BY <3>1, <2>3, <2>4 DEF Mejor
  <2>5. CASE ALGORITMO_BUSQUEDA = "WORST"
    <3>1. /\ TAM_MEMORIA - s[i].tamanio <= TAM_MEMORIA - s[k].tamanio
          /\ k < i => TAM_MEMORIA - s[k].tamanio # TAM_MEMORIA - s[i].tamanio
      BY <2>1, <2>2, <2>5
    <3>2. s[k].tamanio <= s[i].tamanio /\ (k < i => s[k].tamanio # s[i].tamanio)
      BY <3>1, <2>3, ConstantesDeMemoria
    <3> QED BY <3>2, <2>3, <2>5 DEF Mejor
  <2>6. CASE ALGORITMO_BUSQUEDA = "FIRST"
    <3>1. ~(k < i)
      BY <2>1, <2>2, <2>6
    <3> QED BY <3>1, <2>6 DEF Mejor
  <2> QED BY <2>4, <2>5, <2>6
<1> QED BY <1>4, <1>5 DEF Elegida

-----------------------------------------------------------------------------
(* Split, free and merge *)

\* The split keeps the tiling and every PID, and gives the new one a partition.
LEMMA PartirBien ==
  ASSUME NEW s, Bien(s), NEW t \in Nat, NEW i \in Entran(s, t), NEW pid \in PIDs
  PROVE  /\ Bien(Partir(s, i, pid, t)) /\ Tiene(Partir(s, i, pid, t), pid)
         /\ \A p \in PIDs : Tiene(s, p) => Tiene(Partir(s, i, pid, t), p)
<1> DEFINE nueva == Particion(pid, s[i].base, t - 1, t, TRUE)
           resto == Particion(Nadie, s[i].base + t, s[i].limite - (t - 2),
                              s[i].tamanio - t, FALSE)
           u == Partir(s, i, pid, t)
           L == Len(s)
<1>1. /\ L \in Nat /\ L >= 1 /\ i \in 1 .. L /\ ~s[i].esta_ocupado /\ t <= s[i].tamanio
      /\ \A n \in 1 .. L : s[n] \in Particiones
  BY DEF Bien, Entran
<1>2. /\ nueva \in Particiones /\ nueva.base = s[i].base /\ nueva.tamanio = t
      /\ nueva.PID = pid /\ nueva.esta_ocupado
  BY <1>1 DEF Particiones, Particion
<1>3. /\ resto \in Particiones /\ resto.base = s[i].base + t
      /\ resto.tamanio = s[i].tamanio - t /\ resto.PID = Nadie /\ ~resto.esta_ocupado
  BY <1>1 DEF Particiones, Particion
<1> HIDE DEF nueva, resto
<1>4. u = [n \in 1 .. L + 1 |-> IF n < i THEN s[n] ELSE IF n = i THEN nueva
                                ELSE IF n = i + 1 THEN resto ELSE s[n - 1]]
  BY DEF Partir, nueva, resto
<1>5. u \in Seq(Particiones) /\ Len(u) = L + 1
  BY <1>1, <1>2, <1>3, <1>4
<1>6. /\ \A n \in 1 .. L + 1 : n < i => u[n] = s[n]
      /\ u[i] = nueva /\ u[i + 1] = resto
      /\ \A n \in 1 .. L + 1 : n > i + 1 => u[n] = s[n - 1]
  BY <1>1, <1>4
<1> HIDE DEF u
<1>7. /\ s[1].base = 0 /\ EnOrden(s) /\ EnMemoria(s) /\ SinPIDLibre(s)
      /\ s[L].base + s[L].tamanio = TAM_MEMORIA /\ ~s[L].esta_ocupado
  BY DEF Bien
<1>8. \A n \in 1 .. L : s[n].base \in Int /\ s[n].tamanio \in Int
  BY <1>1 DEF Particiones
<1>9. u[1].base = 0
  <2>1. CASE i = 1
    BY <2>1, <1>2, <1>6, <1>7
  <2>2. CASE i > 1
    BY <2>2, <1>1, <1>6, <1>7
  <2> QED BY <2>1, <2>2, <1>1
<1>10. EnOrden(u)
  <2> SUFFICES ASSUME NEW n \in 1 .. L PROVE u[n + 1].base = u[n].base + u[n].tamanio
    BY <1>5, <1>1 DEF EnOrden
  <2>1. CASE n + 1 < i
    <3>1. n \in 1 .. L - 1 /\ n + 1 \in 1 .. L + 1 /\ n \in 1 .. L + 1 /\ n < i
      BY <2>1, <1>1
    <3>2. u[n + 1] = s[n + 1] /\ u[n] = s[n]
      BY <3>1, <2>1, <1>6
    <3>3. s[n + 1].base = s[n].base + s[n].tamanio
      BY <3>1, <1>7 DEF EnOrden
    <3> QED BY <3>2, <3>3
  <2>2. CASE n + 1 = i
    <3>1. n \in 1 .. L - 1 /\ n \in 1 .. L + 1 /\ n < i
      BY <2>2, <1>1
    <3>2. s[n + 1].base = s[n].base + s[n].tamanio
      BY <3>1, <1>7 DEF EnOrden
    <3>3. u[n] = s[n] /\ u[n + 1] = nueva
      BY <3>1, <2>2, <1>6
    <3> QED BY <3>2, <3>3, <2>2, <1>2
  <2>3. CASE n = i
    <3>1. u[n] = nueva /\ u[n + 1] = resto
      BY <2>3, <1>6
    <3> QED BY <3>1, <2>3, <1>2, <1>3
  <2>4. CASE n = i + 1
    <3>1. i \in 1 .. L - 1 /\ u[n + 1] = s[i + 1] /\ u[n] = resto
      BY <2>4, <1>1, <1>6
    <3>2. s[i + 1].base = s[i].base + s[i].tamanio
      BY <3>1, <1>7 DEF EnOrden
    <3> QED BY <3>1, <3>2, <1>3, <1>8, <1>1
  <2>5. CASE n > i + 1
    <3>1. n - 1 \in 1 .. L - 1 /\ u[n + 1] = s[n] /\ u[n] = s[n - 1] /\ (n - 1) + 1 = n
      BY <2>5, <1>1, <1>6
    <3>2. s[(n - 1) + 1].base = s[n - 1].base + s[n - 1].tamanio
      BY <3>1, <1>7 DEF EnOrden
    <3> QED BY <3>1, <3>2
  <2> QED BY <2>1, <2>2, <2>3, <2>4, <2>5, <1>1
<1>11. EnMemoria(u) /\ SinPIDLibre(u)
  <2> SUFFICES ASSUME NEW n \in 1 .. L + 1
               PROVE  /\ u[n].tamanio >= 0 /\ u[n].base >= 0
                      /\ u[n].base + u[n].tamanio <= TAM_MEMORIA
                      /\ u[n].PID # Nadie => u[n].esta_ocupado
    BY <1>5 DEF EnMemoria, SinPIDLibre
  <2>1. CASE n < i
    BY <2>1, <1>1, <1>6, <1>7 DEF EnMemoria, SinPIDLibre
  <2>2. CASE n = i \/ n = i + 1
    <3>1. s[i].tamanio >= 0 /\ s[i].base >= 0 /\ s[i].base + s[i].tamanio <= TAM_MEMORIA
      BY <1>1, <1>7 DEF EnMemoria
    <3>2. s[i].tamanio \in Int /\ s[i].base \in Int /\ TAM_MEMORIA \in Nat
      BY <1>1, <1>8, ConstantesDeMemoria
    <3>3. CASE n = i
      BY <3>1, <3>2, <3>3, <1>1, <1>2, <1>6
    <3>4. CASE n = i + 1
      BY <3>1, <3>2, <3>4, <1>1, <1>3, <1>6
    <3> QED BY <2>2, <3>3, <3>4
  <2>3. CASE n > i + 1
    <3>1. n - 1 \in 1 .. L /\ u[n] = s[n - 1]
      BY <2>3, <1>1, <1>6
    <3> QED BY <3>1, <1>7 DEF EnMemoria, SinPIDLibre
  <2> QED BY <2>1, <2>2, <2>3, <1>1
<1>12. u[L + 1].base + u[L + 1].tamanio = TAM_MEMORIA /\ ~u[L + 1].esta_ocupado
  <2>1. CASE i = L
    <3>1. u[L + 1] = resto
      BY <2>1, <1>6
    <3>2. /\ s[L].base \in Int /\ s[L].tamanio \in Int /\ t \in Int
          /\ s[L].base + s[L].tamanio = TAM_MEMORIA
      BY <1>1, <1>7, <1>8
    <3>3. u[L + 1].base = s[L].base + t /\ u[L + 1].tamanio = s[L].tamanio - t
      BY <3>1, <2>1, <1>3
    <3>4. ~u[L + 1].esta_ocupado
      BY <3>1, <1>3
    <3> QED BY <3>2, <3>3, <3>4
  <2>2. CASE i < L
    <3>1. L + 1 \in 1 .. L + 1 /\ L + 1 > i + 1 /\ (L + 1) - 1 = L
      BY <2>2, <1>1
    <3>2. u[L + 1] = s[L]
      BY <3>1, <1>6
    <3> QED BY <3>2, <1>7
  <2> QED BY <2>1, <2>2, <1>1
<1>13. Tiene(u, pid)
  BY <1>1, <1>2, <1>5, <1>6 DEF Tiene
<1>14. ASSUME NEW p \in PIDs, Tiene(s, p) PROVE Tiene(u, p)
  <2>1. PICK n \in 1 .. L : s[n].PID = p
    BY <1>14 DEF Tiene
  <2>2. s[n].esta_ocupado
    BY <2>1, <1>7 DEF SinPIDLibre, Nadie, PIDs
  <2>3. n # i
    BY <2>2, <1>1
  <2>4. CASE n < i
    <3>1. n \in 1 .. L + 1
      BY <1>1
    <3>2. u[n] = s[n]
      BY <3>1, <2>4, <1>6
    <3> QED BY <3>1, <3>2, <2>1, <1>5 DEF Tiene
  <2>5. CASE n > i
    <3>1. n + 1 \in 1 .. L + 1 /\ n + 1 > i + 1 /\ (n + 1) - 1 = n
      BY <2>5, <1>1
    <3>2. u[n + 1] = s[n]
      BY <3>1, <1>6
    <3> QED BY <3>1, <3>2, <2>1, <1>5 DEF Tiene
  <2> QED BY <2>3, <2>4, <2>5, <1>1
<1> QED
  <2>1. Bien(u)
    BY <1>1, <1>5, <1>9, <1>10, <1>11, <1>12 DEF Bien
  <2> QED BY <2>1, <1>13, <1>14 DEF u

\* A partition in use is freed: it is not the last one, and the tiling stays.
LEMMA LiberarBien ==
  ASSUME NEW s, Bien(s), NEW i \in 1 .. Len(s), s[i].esta_ocupado
  PROVE  /\ i < Len(s) /\ Len(Liberar(s, i)) = Len(s)
         /\ Bien(Liberar(s, i)) /\ ~Liberar(s, i)[i].esta_ocupado
         /\ \A p \in PIDs : p # s[i].PID /\ Tiene(s, p) => Tiene(Liberar(s, i), p)
<1> DEFINE libre == Particion(Nadie, s[i].base, s[i].limite, s[i].tamanio, FALSE)
           u == Liberar(s, i)
           L == Len(s)
<1>1. /\ s \in Seq(Particiones) /\ L \in Nat /\ L >= 1 /\ i \in 1 .. L
      /\ \A n \in 1 .. L : s[n] \in Particiones
  BY DEF Bien
<1>2. /\ libre \in Particiones /\ libre.base = s[i].base /\ libre.tamanio = s[i].tamanio
      /\ libre.PID = Nadie /\ ~libre.esta_ocupado
  BY <1>1 DEF Particiones, Particion
<1> HIDE DEF libre
<1>3. u = [s EXCEPT ![i] = libre]
  BY DEF Liberar, libre
<1>4. u \in Seq(Particiones) /\ Len(u) = L
  BY <1>1, <1>2, <1>3
<1>5. u[i] = libre /\ \A n \in 1 .. L : n # i => u[n] = s[n]
  BY <1>1, <1>3
<1> HIDE DEF u
<1>6. /\ s[1].base = 0 /\ EnOrden(s) /\ EnMemoria(s) /\ SinPIDLibre(s)
      /\ s[L].base + s[L].tamanio = TAM_MEMORIA /\ ~s[L].esta_ocupado
  BY DEF Bien
<1>7. i < L
  BY <1>1, <1>6
<1>8. \A n \in 1 .. L : u[n].base = s[n].base /\ u[n].tamanio = s[n].tamanio
  BY <1>2, <1>5
<1>9. u[1].base = 0 /\ u[L].base + u[L].tamanio = TAM_MEMORIA /\ ~u[L].esta_ocupado
  <2>1. L \in 1 .. L /\ 1 \in 1 .. L /\ L # i
    BY <1>1, <1>7
  <2> QED BY <2>1, <1>5, <1>6, <1>8
<1>10. EnOrden(u)
  <2> SUFFICES ASSUME NEW n \in 1 .. L - 1 PROVE u[n + 1].base = u[n].base + u[n].tamanio
    BY <1>4 DEF EnOrden
  <2>1. n \in 1 .. L /\ n + 1 \in 1 .. L
    BY <1>1
  <2>2. s[n + 1].base = s[n].base + s[n].tamanio
    BY <1>6 DEF EnOrden
  <2> QED BY <2>1, <2>2, <1>8
<1>11. EnMemoria(u)
  BY <1>4, <1>6, <1>8 DEF EnMemoria
<1>12. SinPIDLibre(u)
  BY <1>2, <1>4, <1>5, <1>6 DEF SinPIDLibre
<1>13. ASSUME NEW p \in PIDs, p # s[i].PID, Tiene(s, p) PROVE Tiene(u, p)
  BY <1>4, <1>5, <1>13 DEF Tiene
<1>14. Bien(u)
  BY <1>1, <1>4, <1>9, <1>10, <1>11, <1>12 DEF Bien
<1> QED BY <1>2, <1>4, <1>5, <1>7, <1>13, <1>14 DEF u

\* A merge of two free neighbours keeps the tiling and every PID.
LEMMA UnirBien ==
  ASSUME NEW s, Bien(s), NEW i \in 1 .. Len(s) - 1,
         ~s[i].esta_ocupado, ~s[i + 1].esta_ocupado
  PROVE  /\ Len(Unir(s, i)) = Len(s) - 1
         /\ Bien(Unir(s, i)) /\ ~Unir(s, i)[i].esta_ocupado
         /\ \A p \in PIDs : Tiene(s, p) => Tiene(Unir(s, i), p)
<1> DEFINE union == Particion(s[i].PID, s[i].base, s[i].limite + s[i + 1].tamanio,
                              s[i].tamanio + s[i + 1].tamanio, s[i].esta_ocupado)
           u == Unir(s, i)
           L == Len(s)
<1>1. /\ L \in Nat /\ L >= 2 /\ i \in 1 .. L /\ i + 1 \in 1 .. L /\ i < L
      /\ \A n \in 1 .. L : s[n] \in Particiones
  BY DEF Bien
<1>2. \A n \in 1 .. L : s[n].base \in Int /\ s[n].tamanio \in Int /\ s[n].limite \in Int
  BY <1>1 DEF Particiones
<1>3. /\ s[1].base = 0 /\ EnOrden(s) /\ EnMemoria(s) /\ SinPIDLibre(s)
      /\ s[L].base + s[L].tamanio = TAM_MEMORIA /\ ~s[L].esta_ocupado
  BY DEF Bien
<1>4. /\ union.base = s[i].base /\ union.tamanio = s[i].tamanio + s[i + 1].tamanio
      /\ union.PID = s[i].PID /\ union.esta_ocupado = s[i].esta_ocupado
      /\ union \in Particiones
  <2>1. s[i].PID \in PIDs \cup {Nadie} /\ s[i].esta_ocupado \in BOOLEAN
    BY <1>1 DEF Particiones
  <2> QED BY <2>1, <1>1, <1>2 DEF Particiones, Particion
<1> HIDE DEF union
<1>5. u = [n \in 1 .. L - 1 |-> IF n < i THEN s[n] ELSE IF n = i THEN union ELSE s[n + 1]]
  BY DEF Unir, union
<1>6. u \in Seq(Particiones) /\ Len(u) = L - 1
  BY <1>1, <1>4, <1>5
<1>7. /\ \A n \in 1 .. L - 1 : n < i => u[n] = s[n]
      /\ u[i] = union
      /\ \A n \in 1 .. L - 1 : n > i => u[n] = s[n + 1]
  BY <1>1, <1>5
<1> HIDE DEF u
<1>8. u[1].base = 0
  <2>1. CASE i = 1
    BY <2>1, <1>3, <1>4, <1>7
  <2>2. CASE i > 1
    BY <2>2, <1>1, <1>3, <1>7
  <2> QED BY <2>1, <2>2, <1>1
<1>9. EnOrden(u)
  <2> SUFFICES ASSUME NEW n \in 1 .. L - 2 PROVE u[n + 1].base = u[n].base + u[n].tamanio
    BY <1>6, <1>1 DEF EnOrden
  <2>1. s[n + 1].base = s[n].base + s[n].tamanio
    BY <1>1, <1>3 DEF EnOrden
  <2>2. s[(n + 1) + 1].base = s[n + 1].base + s[n + 1].tamanio
    BY <1>1, <1>3 DEF EnOrden
  <2>3. n \in 1 .. L - 1 /\ n + 1 \in 1 .. L - 1 /\ n \in Int
    BY <1>1
  <2>4. CASE n + 1 < i
    <3>1. u[n + 1] = s[n + 1] /\ u[n] = s[n]
      BY <2>3, <2>4, <1>1, <1>7
    <3> QED BY <3>1, <2>1
  <2>5. CASE n + 1 = i
    BY <2>1, <2>3, <2>5, <1>1, <1>4, <1>7
  <2>6. CASE n = i
    <3>1. u[n + 1] = s[(n + 1) + 1] /\ u[n] = union
      BY <2>3, <2>6, <1>1, <1>7
    <3>2. s[n].base \in Int /\ s[n].tamanio \in Int /\ s[n + 1].tamanio \in Int
      BY <2>3, <1>1, <1>2
    <3> QED BY <3>1, <3>2, <2>1, <2>2, <2>6, <1>4
  <2>7. CASE n > i
    <3>1. n + 1 > i
      BY <2>3, <2>7, <1>1
    <3>2. u[n + 1] = s[(n + 1) + 1]
      BY <2>3, <3>1, <1>7
    <3>3. u[n] = s[n + 1]
      BY <2>3, <2>7, <1>7
    <3> QED BY <3>2, <3>3, <2>2
  <2> QED BY <2>3, <2>4, <2>5, <2>6, <2>7, <1>1
<1>10. EnMemoria(u) /\ SinPIDLibre(u)
  <2> SUFFICES ASSUME NEW n \in 1 .. L - 1
               PROVE  /\ u[n].tamanio >= 0 /\ u[n].base >= 0
                      /\ u[n].base + u[n].tamanio <= TAM_MEMORIA
                      /\ u[n].PID # Nadie => u[n].esta_ocupado
    BY <1>6 DEF EnMemoria, SinPIDLibre
  <2>1. CASE n < i
    BY <2>1, <1>1, <1>3, <1>7 DEF EnMemoria, SinPIDLibre
  <2>2. CASE n = i
    <3>1. /\ s[i].tamanio >= 0 /\ s[i].base >= 0 /\ s[i + 1].tamanio >= 0
          /\ s[i + 1].base + s[i + 1].tamanio <= TAM_MEMORIA
      BY <1>1, <1>3 DEF EnMemoria
    <3>2. s[i + 1].base = s[i].base + s[i].tamanio
      BY <1>1, <1>3 DEF EnOrden
    <3>3. s[i].PID # Nadie => s[i].esta_ocupado
      BY <1>1, <1>3 DEF SinPIDLibre
    <3>4. /\ s[i].base \in Int /\ s[i].tamanio \in Int /\ s[i + 1].tamanio \in Int
          /\ TAM_MEMORIA \in Nat
      BY <1>1, <1>2, ConstantesDeMemoria
    <3> QED BY <3>1, <3>2, <3>3, <3>4, <2>2, <1>4, <1>7
  <2>3. CASE n > i
    <3>1. n + 1 \in 1 .. L /\ u[n] = s[n + 1]
      BY <2>3, <1>1, <1>7
    <3> QED BY <3>1, <1>3 DEF EnMemoria, SinPIDLibre
  <2> QED BY <2>1, <2>2, <2>3, <1>1
<1>11. u[L - 1].base + u[L - 1].tamanio = TAM_MEMORIA /\ ~u[L - 1].esta_ocupado
  <2>1. CASE i = L - 1
    <3>1. u[L - 1] = union /\ i + 1 = L
      BY <2>1, <1>1, <1>7
    <3>2. s[i + 1].base = s[i].base + s[i].tamanio
      BY <1>1, <1>3 DEF EnOrden
    <3>3. s[i].base \in Int /\ s[i].tamanio \in Int /\ s[i + 1].tamanio \in Int
      BY <1>1, <1>2
    <3> QED BY <3>1, <3>2, <3>3, <1>3, <1>4
  <2>2. CASE i < L - 1
    <3>1. L - 1 \in 1 .. L - 1 /\ (L - 1) + 1 = L
      BY <1>1
    <3>2. u[L - 1] = s[L]
      BY <3>1, <2>2, <1>7
    <3> QED BY <3>2, <1>3
  <2> QED BY <2>1, <2>2, <1>1
<1>12. ASSUME NEW p \in PIDs, Tiene(s, p) PROVE Tiene(u, p)
  <2>1. PICK n \in 1 .. L : s[n].PID = p
    BY <1>12 DEF Tiene
  <2>2. s[n].esta_ocupado
    BY <2>1, <1>3 DEF SinPIDLibre, Nadie, PIDs
  <2>3. n # i /\ n # i + 1
    BY <2>2
  <2>4. CASE n < i
    BY <2>1, <2>4, <1>1, <1>6, <1>7 DEF Tiene
  <2>5. CASE n > i + 1
    <3>1. n - 1 \in 1 .. L - 1 /\ n - 1 > i /\ (n - 1) + 1 = n
      BY <2>5, <1>1
    <3>2. u[n - 1] = s[n]
      BY <3>1, <1>7
    <3> QED BY <3>1, <3>2, <2>1, <1>6 DEF Tiene
  <2> QED BY <2>3, <2>4, <2>5, <1>1
<1> QED
  <2>1. Bien(u)
    BY <1>1, <1>3, <1>6, <1>8, <1>9, <1>10, <1>11 DEF Bien
  <2>2. ~u[i].esta_ocupado
    BY <1>4, <1>7
  <2> QED BY <2>1, <2>2, <1>6, <1>12 DEF u

\* Freeing a partition in use and merging it with its free neighbours keeps the
\* tiling and the partitions of the other processes.
LEMMA ConsolidarBien ==
  ASSUME NEW s, Bien(s), NEW i \in 1 .. Len(s), s[i].esta_ocupado, ESQUEMA = "DINAMICAS"
  PROVE  /\ Bien(Consolidar(Liberar(s, i), i))
         /\ \A p \in PIDs : p # s[i].PID /\ Tiene(s, p)
                              => Tiene(Consolidar(Liberar(s, i), i), p)
<1> DEFINE u == Liberar(s, i)
           v == ConSiguiente(u, i)
           w == ConAnterior(v, i)
           Otros(x) == \A p \in PIDs : p # s[i].PID /\ Tiene(s, p) => Tiene(x, p)
<1>1. /\ i < Len(s) /\ Len(u) = Len(s) /\ Bien(u) /\ ~u[i].esta_ocupado /\ Otros(u)
  BY LiberarBien
<1>2. Len(s) \in Nat /\ i \in Nat /\ i >= 1
  BY DEF Bien
<1> HIDE DEF u
<1>3. Bien(v) /\ i \in 1 .. Len(v) /\ ~v[i].esta_ocupado /\ Otros(v)
  <2>1. CASE u[i + 1].esta_ocupado
    BY <2>1, <1>1, <1>2 DEF ConSiguiente
  <2>2. CASE ~u[i + 1].esta_ocupado
    <3>1. v = Unir(u, i)
      BY <2>2, <1>1, <1>2 DEF ConSiguiente
    <3>2. i \in 1 .. Len(u) - 1
      BY <1>1, <1>2
    <3>3. /\ Len(Unir(u, i)) = Len(u) - 1 /\ Bien(Unir(u, i)) /\ ~Unir(u, i)[i].esta_ocupado
          /\ \A p \in PIDs : Tiene(u, p) => Tiene(Unir(u, i), p)
      BY <3>2, <2>2, <1>1, UnirBien
    <3> QED BY <3>1, <3>2, <3>3, <1>1
  <2> QED BY <2>1, <2>2
<1> HIDE DEF v
<1>4. Bien(w) /\ Otros(w)
  <2>1. CASE i = 1 \/ v[i - 1].esta_ocupado
    BY <2>1, <1>3 DEF ConAnterior
  <2>2. CASE i # 1 /\ ~v[i - 1].esta_ocupado
    <3>1. w = Unir(v, i - 1)
      BY <2>2 DEF ConAnterior
    <3>2. i - 1 \in 1 .. Len(v) - 1 /\ (i - 1) + 1 = i
      BY <2>2, <1>2, <1>3 DEF Bien
    <3>3. /\ Bien(Unir(v, i - 1))
          /\ \A p \in PIDs : Tiene(v, p) => Tiene(Unir(v, i - 1), p)
      BY <3>2, <2>2, <1>3, UnirBien
    <3> QED BY <3>1, <3>3, <1>3
  <2> QED BY <2>1, <2>2
<1>5. Consolidar(u, i) = w
  BY DEF Consolidar, v
<1> QED BY <1>4, <1>5 DEF u

-----------------------------------------------------------------------------
(* The invariant *)

\* Memory starts with one free partition, and nobody holds any.
LEMMA InvInicial == Init => Inv
<1> SUFFICES ASSUME Init PROVE Inv
  OBVIOUS
<1> DEFINE p0 == Particion(Nadie, 0, TAM_MEMORIA - 1, TAM_MEMORIA, FALSE)
           s == lista_particiones
<1>1. /\ p0 \in Particiones /\ p0.base = 0 /\ p0.tamanio = TAM_MEMORIA
      /\ p0.PID = Nadie /\ ~p0.esta_ocupado
  BY ConstantesDeMemoria DEF Particion, Particiones
<1> HIDE DEF p0
<1>2. ASSUME ESQUEMA = "DINAMICAS" PROVE Bien(s)
  <2>1. s = <<p0>>
    BY <1>2 DEF Init, iniciar_estructuras, p0
  <2>2. s \in Seq(Particiones) /\ Len(s) = 1 /\ s[1] = p0
    BY <1>1, <2>1
  <2>3. EnOrden(s) /\ EnMemoria(s) /\ SinPIDLibre(s)
    BY <1>1, <2>2, ConstantesDeMemoria DEF EnOrden, EnMemoria, SinPIDLibre
  <2> QED BY <1>1, <2>2, <2>3, ConstantesDeMemoria DEF Bien
<1>3. /\ memoria = "activa" /\ tam \in [PIDs -> Tamanios]
      /\ ALGORITMO_BUSQUEDA \in {"FIRST", "BEST", "WORST"}
  BY DEF Init
<1>4. cabeza = 1 /\ activos = {} /\ iniciando = FALSE
  BY DEF Init
<1>5. ConMemoria = {}
  BY <1>4 DEF ConMemoria
<1> QED BY <1>2, <1>3, <1>4, <1>5 DEF Inv

\* The end of a process that holds memory: its partition is not the last one.
LEMMA FinalizarBien ==
  ASSUME Inv, NEW p \in activos, liberar_particion(p), UNCHANGED fijo
  PROVE  /\ memoria' = "activa"
         /\ ESQUEMA = "DINAMICAS" =>
              /\ Bien(lista_particiones')
              /\ \A q \in ConMemoria \ {p} : Tiene(lista_particiones', q)
<1> DEFINE s == lista_particiones
           i == IndiceDe(s, p)
<1>1. CASE ESQUEMA # "DINAMICAS"
  BY <1>1 DEF Inv, liberar_particion
<1>2. CASE ESQUEMA = "DINAMICAS"
  <2>1. Bien(s) /\ activos \subseteq PIDs /\ ConMemoria \subseteq PIDs /\ Tiene(s, p)
        /\ \A q \in ConMemoria : Tiene(s, q)
    BY <1>2 DEF Inv, ConMemoria
  <2>2. i \in 1 .. Len(s) /\ s[i].PID = p
    BY <2>1 DEF Tiene, IndiceDe
  <2> HIDE DEF i
  <2>3. s[i].esta_ocupado
    BY <2>1, <2>2 DEF Bien, SinPIDLibre, Nadie, PIDs
  <2>4. i < Len(s)
    BY <2>1, <2>2, <2>3, LiberarBien
  <2>5. /\ Bien(Consolidar(Liberar(s, i), i))
        /\ \A q \in PIDs : q # s[i].PID /\ Tiene(s, q)
                             => Tiene(Consolidar(Liberar(s, i), i), q)
    BY <1>2, <2>1, <2>2, <2>3, ConsolidarBien
  <2>6. lista_particiones' = Consolidar(Liberar(s, i), i) /\ memoria' = "activa"
    <3>1. Len(s) \in Nat /\ i \in Nat
      BY <2>1, <2>2 DEF Bien
    <3> QED BY <2>4, <3>1 DEF liberar_particion, Inv, i
  <2> QED BY <2>1, <2>2, <2>5, <2>6
<1> QED BY <1>1, <1>2

\* Each request keeps the invariant.
LEMMA InvPaso == Inv /\ [Next]_vars => Inv'
<1> SUFFICES ASSUME Inv, [Next]_vars PROVE Inv'
  OBVIOUS
<1> DEFINE s == lista_particiones
<1>1. CASE CrearProceso
  <2>1. /\ UNCHANGED <<fijo, memoria, cabeza, activos>> /\ cabeza \in PIDs /\ ~iniciando
    BY <1>1 DEF CrearProceso, Libre
  <2>2. CASE Entran(s, tam[cabeza]) # {} /\ crear_proceso(cabeza, tam[cabeza]) /\ iniciando'
    <3> SUFFICES ASSUME ESQUEMA = "DINAMICAS"
                 PROVE  /\ Bien(s') /\ Tiene(s', cabeza)
                        /\ \A p \in activos : Tiene(s', p)
      BY <2>1, <2>2 DEF Inv, ConMemoria, fijo
    <3> DEFINE t == tam[cabeza]
               i == Elegida(s, t)
    <3>1. /\ t \in Nat /\ Bien(s) /\ activos \subseteq PIDs
          /\ ALGORITMO_BUSQUEDA \in {"FIRST", "BEST", "WORST"}
          /\ \A p \in activos : Tiene(s, p)
      BY <2>1, ConstantesDeMemoria DEF Inv, ConMemoria
    <3> HIDE DEF t
    <3>2. i \in Entran(s, t)
      BY <2>2, <3>1, ElegidaEntra DEF t, Bien
    <3>3. s' = Partir(s, i, cabeza, t)
      BY <2>2 DEF crear_proceso, asignar_particion, t
    <3> HIDE DEF i
    <3>4. /\ Bien(Partir(s, i, cabeza, t)) /\ Tiene(Partir(s, i, cabeza, t), cabeza)
          /\ \A p \in PIDs : Tiene(s, p) => Tiene(Partir(s, i, cabeza, t), p)
      BY <2>1, <3>1, <3>2, PartirBien
    <3> QED BY <3>1, <3>3, <3>4
  <2>3. CASE UNCHANGED <<lista_particiones, lista_procesos, iniciando>>
    BY <2>1, <2>3 DEF Inv, ConMemoria, fijo
  <2> QED BY <1>1, <2>2, <2>3 DEF CrearProceso
<1>2. CASE IniciarHiloCero
  <2>1. /\ UNCHANGED <<fijo, memoria, lista_particiones>> /\ iniciando /\ iniciando' = FALSE
        /\ \/ activos' = activos \cup {cabeza} /\ cabeza' = cabeza + 1
           \/ UNCHANGED <<activos, cabeza>>
    BY <1>2 DEF IniciarHiloCero
  <2> SUFFICES ASSUME ESQUEMA = "DINAMICAS"
               PROVE  /\ ConMemoria' \subseteq ConMemoria
                      /\ cabeza' \in Nat /\ activos' \subseteq PIDs
                      /\ \A p \in activos' : p < cabeza'
    BY <2>1 DEF Inv, fijo
  <2>2. ConMemoria = activos \cup {cabeza} /\ ConMemoria' = activos'
    BY <2>1 DEF ConMemoria
  <2>3. cabeza \in PIDs /\ cabeza \in Nat /\ activos \subseteq PIDs /\ \A p \in activos : p < cabeza
    BY <2>1 DEF Inv
  <2>4. \A p \in activos : p \in Nat
    BY <2>3 DEF PIDs
  <2>5. CASE activos' = activos \cup {cabeza} /\ cabeza' = cabeza + 1
    <3>1. \A p \in activos' : p < cabeza'
      BY <2>3, <2>4, <2>5
    <3> QED BY <2>2, <2>3, <2>5, <3>1
  <2>6. CASE UNCHANGED <<activos, cabeza>>
    BY <2>2, <2>3, <2>6
  <2> QED BY <2>1, <2>5, <2>6
<1>3. CASE IniciarHilo
  BY <1>3 DEF IniciarHilo, Inv, ConMemoria, fijo
<1>4. CASE FinalizarHilo
  BY <1>4 DEF FinalizarHilo, Inv, ConMemoria, fijo, pedidos
<1>5. CASE FinalizarProceso
  <2>1. PICK p \in activos : liberar_particion(p) /\ activos' = activos \ {p}
    BY <1>5 DEF FinalizarProceso, finalizar_proceso
  <2>2. UNCHANGED <<fijo, cabeza, iniciando>>
    BY <1>5 DEF FinalizarProceso
  <2>3. /\ memoria' = "activa"
        /\ ESQUEMA = "DINAMICAS" =>
             /\ Bien(lista_particiones')
             /\ \A q \in ConMemoria \ {p} : Tiene(lista_particiones', q)
    BY <2>1, <2>2, FinalizarBien
  <2>4. ESQUEMA = "DINAMICAS" => ConMemoria' \subseteq ConMemoria \ {p}
    <3> SUFFICES ASSUME ESQUEMA = "DINAMICAS" PROVE ConMemoria' \subseteq ConMemoria \ {p}
      OBVIOUS
    <3>1. cabeza \in Nat /\ p < cabeza
      BY <2>1 DEF Inv
    <3>2. p # cabeza
      BY <3>1
    <3> QED BY <2>1, <2>2, <3>2 DEF ConMemoria
  <2> QED BY <2>1, <2>2, <2>3, <2>4 DEF Inv, fijo
<1>6. CASE UNCHANGED vars
  BY <1>6 DEF vars, fijo, pedidos, Inv, ConMemoria
<1> QED BY <1>1, <1>2, <1>3, <1>4, <1>5, <1>6 DEF Next

\* The invariant holds for ever.
THEOREM Invariante == Spec => []Inv
<1> QED BY InvInicial, InvPaso, PTL DEF Spec

\* The dynamic partitions tile the memory for ever, whatever the kernel asks for,
\* retries included (estructuras.c, actualizar_dinamica and liberar_particion_dinamica).
THEOREM Tiling == Spec => []Teselan
<1>1. Inv => Teselan
  <2> SUFFICES ASSUME Inv, ESQUEMA = "DINAMICAS" PROVE Teselan
    BY DEF Teselan
  <2>1. Bien(lista_particiones)
    BY DEF Inv
  <2>2. lista_particiones # <<>>
    BY <2>1 DEF Bien
  <2> QED BY <2>1, <2>2 DEF Teselan, Bien, EnOrden, EnMemoria
<1> QED BY <1>1, Invariante, PTL

\* The merge never reads past the end of the list, although its guard is always true.
THEOREM NuncaCae == Spec => []MemoriaActiva
<1>1. Inv => MemoriaActiva
  BY DEF Inv, MemoriaActiva
<1> QED BY <1>1, Invariante, PTL

(***************************************************************************)
(* Who has which bytes: each process that runs has one partition, which    *)
(* its entry describes, all of it comes back, no refusal is the fault of   *)
(* a merge, and memory implements Reserva.                                 *)
(*                                                                         *)
(* The lists repeat, move and merge partitions by their position. The      *)
(* invariant looks at the partitions in use as a set (EnUso), which a      *)
(* request changes by one element and a merge does not change.             *)
(***************************************************************************)

\* The partitions in use, as a set.
EnUso(s) == {s[i] : i \in {n \in 1 .. Len(s) : s[n].esta_ocupado}}

\* A list of either scheme: in order, inside the memory, and a partition has a PID, some
\* bytes and the right limite when it is in use.
Ordenada(s) ==
  /\ s \in Seq(Particiones) /\ EnOrden(s) /\ EnMemoria(s)
  /\ \A i \in 1 .. Len(s) : s[i].PID = Nadie <=> ~s[i].esta_ocupado
  /\ \A i \in 1 .. Len(s) :
       s[i].esta_ocupado \/ ESQUEMA = "FIJAS" => s[i].tamanio >= 1 /\ s[i].limite = s[i].tamanio - 1

\* No two free neighbours.
SinVecinas(s) == \A i \in 1 .. Len(s) - 1 : s[i].esta_ocupado \/ s[i + 1].esta_ocupado

\* The only process of l with the PID of r says what partition r is.
Describe(pr, r) ==
  pr.PID = r.PID /\ pr.base = r.base /\ pr.limite = r.tamanio - 1 /\ pr.tamanio <= r.tamanio
Ficha(l, r) ==
  \E n \in 1 .. Len(l) : Describe(l[n], r) /\ \A m \in 1 .. Len(l) : l[m].PID = r.PID => m = n

\* No entry of l has the PID p.
SinFicha(l, p) == \A m \in 1 .. Len(l) : l[m].PID # p

\* p has one partition of s, and one entry of l; or none.
TieneUna(s, l, p) ==
  \E r \in EnUso(s) : r.PID = p /\ Ficha(l, r) /\ \A q \in EnUso(s) : q.PID = p => q = r
TieneNinguna(s, l, p) == (\A q \in EnUso(s) : q.PID # p) /\ SinFicha(l, p)

\* A process that runs or starts has one partition; one that does not, none. Those whose
\* script is missing never run, and take what they take.
Repartida ==
  \A p \in PIDs : script[p] =>
    IF p \in ConMemoria THEN TieneUna(lista_particiones, lista_procesos, p)
    ELSE TieneNinguna(lista_particiones, lista_procesos, p)

IInv ==
  /\ TypeOK /\ Inv
  /\ Ordenada(lista_particiones)
  /\ ESQUEMA = "DINAMICAS" => SinVecinas(lista_particiones)
  /\ \A p \in activos : script[p]
  /\ Repartida

-----------------------------------------------------------------------------
(* The order of the list *)

\* The fields of the partitions of a list.
LEMMA Campos ==
  ASSUME NEW s \in Seq(Particiones), NEW i \in 1 .. Len(s)
  PROVE  /\ s[i] \in Particiones /\ s[i].base \in Int /\ s[i].tamanio \in Int
         /\ s[i].limite \in Int /\ s[i].PID \in PIDs \cup {Nadie} /\ s[i].esta_ocupado \in BOOLEAN
<1>1. s[i] \in Particiones
  OBVIOUS
<1> QED BY <1>1 DEF Particiones

\* A partition ends where a later one begins, or before.
LEMMA OrdenDeTodas ==
  ASSUME NEW s \in Seq(Particiones), EnOrden(s), EnMemoria(s),
         NEW i \in 1 .. Len(s), NEW j \in 1 .. Len(s), i < j
  PROVE  s[i].base + s[i].tamanio <= s[j].base
<1> DEFINE fin == s[i].base + s[i].tamanio
           M == {k \in 1 .. Len(s) : i < k /\ ~(fin <= s[k].base)}
<1>1. Len(s) \in Nat
  OBVIOUS
<1>2. \A k \in 1 .. Len(s) : s[k].base \in Int /\ s[k].tamanio \in Int /\ s[k].tamanio >= 0
  BY Campos DEF EnMemoria
<1>3. SUFFICES ASSUME M # {} PROVE FALSE
  OBVIOUS
<1>4. PICK m \in M : \A k \in M : m <= k
  <2>1. M \in SUBSET Nat
    OBVIOUS
  <2> HIDE DEF M
  <2> QED BY <2>1, <1>3, Minimo
<1>5. m \in 1 .. Len(s) /\ i < m /\ ~(fin <= s[m].base)
  OBVIOUS
<1>6. fin \in Int
  BY <1>2
<1>7. \A k \in 1 .. Len(s) : i < k /\ ~(fin <= s[k].base) => m <= k
  BY <1>4
<1> HIDE DEF M, fin
<1> DEFINE k == m - 1
<1>8. k \in 1 .. Len(s) /\ k \in 1 .. Len(s) - 1 /\ k + 1 = m /\ k >= i /\ ~(m <= k)
  BY <1>1, <1>5
<1>9. s[m].base = s[k].base + s[k].tamanio
  BY <1>8 DEF EnOrden
<1> HIDE DEF k
<1>10. CASE k = i
  <2>1. s[m].base = fin
    BY <1>9, <1>10 DEF fin
  <2> QED BY <2>1, <1>5, <1>6
<1>11. CASE k # i
  <2>1. i < k
    BY <1>8, <1>11
  <2>2. fin <= s[k].base
    BY <2>1, <1>7, <1>8
  <2>3. s[k].base \in Int /\ s[k].tamanio \in Int /\ s[k].tamanio >= 0
    BY <1>2, <1>8
  <2> QED BY <2>2, <2>3, <1>5, <1>6, <1>9
<1> QED BY <1>10, <1>11

\* Two partitions share no byte.
LEMMA SinCompartir ==
  ASSUME NEW s \in Seq(Particiones), EnOrden(s), EnMemoria(s),
         NEW i \in 1 .. Len(s), NEW j \in 1 .. Len(s), i # j,
         NEW x \in Int, s[i].base <= x, x < s[i].base + s[i].tamanio,
         s[j].base <= x, x < s[j].base + s[j].tamanio
  PROVE  FALSE
<1>1. /\ s[i].base \in Int /\ s[i].tamanio \in Int
      /\ s[j].base \in Int /\ s[j].tamanio \in Int
  BY Campos
<1>2. CASE i < j
  <2>1. s[i].base + s[i].tamanio <= s[j].base
    BY <1>2, OrdenDeTodas
  <2> QED BY <2>1, <1>1
<1>3. CASE j < i
  <2>1. s[j].base + s[j].tamanio <= s[i].base
    BY <1>3, OrdenDeTodas
  <2> QED BY <2>1, <1>1
<1> QED BY <1>2, <1>3

\* A partition in use is in one position.
LEMMA UnaPosicion ==
  ASSUME NEW s, Ordenada(s), NEW i \in 1 .. Len(s), NEW j \in 1 .. Len(s),
         s[i].esta_ocupado, s[i] = s[j]
  PROVE  i = j
<1>1. s \in Seq(Particiones) /\ EnOrden(s) /\ EnMemoria(s) /\ s[i].tamanio >= 1
  BY DEF Ordenada
<1>2. s[i].base \in Int /\ s[i].tamanio \in Int
  BY <1>1, Campos
<1>3. s[i].base <= s[i].base /\ s[i].base < s[i].base + s[i].tamanio
  BY <1>1, <1>2
<1> QED BY <1>1, <1>2, <1>3, SinCompartir

\* With dynamic partitions, each byte of the memory is in one of them.
LEMMA Cubren ==
  ASSUME NEW s, Bien(s), NEW x \in 0 .. TAM_MEMORIA - 1
  PROVE  \E i \in 1 .. Len(s) : s[i].base <= x /\ x < s[i].base + s[i].tamanio
<1>1. /\ s \in Seq(Particiones) /\ Len(s) \in Nat /\ Len(s) >= 1 /\ EnOrden(s)
      /\ s[1].base = 0 /\ s[Len(s)].base + s[Len(s)].tamanio = TAM_MEMORIA
  BY DEF Bien
<1>2. \A k \in 1 .. Len(s) : s[k].base \in Int /\ s[k].tamanio \in Int
  BY <1>1, Campos
<1>3. x \in Int /\ 0 <= x /\ x < TAM_MEMORIA
  BY ConstantesDeMemoria
<1> DEFINE M == {k \in 1 .. Len(s) : x < s[k].base + s[k].tamanio}
<1>4. Len(s) \in M
  BY <1>1, <1>3
<1>5. PICK m \in M : \A k \in M : m <= k
  <2>1. M \in SUBSET Nat /\ M # {}
    BY <1>4
  <2> HIDE DEF M
  <2> QED BY <2>1, Minimo
<1>6. m \in 1 .. Len(s) /\ x < s[m].base + s[m].tamanio
  OBVIOUS
<1>7. \A k \in 1 .. Len(s) : x < s[k].base + s[k].tamanio => m <= k
  BY <1>5
<1> HIDE DEF M
<1>8. s[m].base <= x
  <2>1. CASE m = 1
    BY <2>1, <1>1, <1>3
  <2>2. CASE m # 1
    <3> DEFINE k == m - 1
    <3>1. k \in 1 .. Len(s) /\ k \in 1 .. Len(s) - 1 /\ k + 1 = m /\ ~(m <= k)
      BY <2>2, <1>1, <1>6
    <3>2. s[m].base = s[k].base + s[k].tamanio
      BY <3>1, <1>1 DEF EnOrden
    <3> HIDE DEF k
    <3>3. ~(x < s[k].base + s[k].tamanio)
      BY <3>1, <1>7
    <3> QED BY <3>1, <3>2, <3>3, <1>2, <1>3
  <2> QED BY <2>1, <2>2
<1> QED BY <1>6, <1>8

-----------------------------------------------------------------------------
(* The requests on the set of partitions in use *)

\* An element of EnUso has a position, and what has a position is an element.
LEMMA EstaEnUso ==
  ASSUME NEW s
  PROVE  /\ \A r : r \in EnUso(s) <=> \E i \in 1 .. Len(s) : s[i].esta_ocupado /\ s[i] = r
BY DEF EnUso

\* A split adds one partition in use, and leaves no two free neighbours.
LEMMA PartirReparte ==
  ASSUME NEW s, Bien(s), Ordenada(s), NEW t \in Nat \ {0}, NEW i \in Entran(s, t),
         NEW pid \in PIDs, ESQUEMA = "DINAMICAS"
  PROVE  LET u == Partir(s, i, pid, t)
         IN  /\ Ordenada(u)
             /\ SinVecinas(s) => SinVecinas(u)
             /\ EnUso(u) = EnUso(s) \cup {Particion(pid, s[i].base, t - 1, t, TRUE)}
<1> DEFINE nueva == Particion(pid, s[i].base, t - 1, t, TRUE)
           resto == Particion(Nadie, s[i].base + t, s[i].limite - (t - 2),
                              s[i].tamanio - t, FALSE)
           u == Partir(s, i, pid, t)
           L == Len(s)
<1>1. /\ L \in Nat /\ i \in 1 .. L /\ ~s[i].esta_ocupado /\ s \in Seq(Particiones)
  BY DEF Bien, Entran
<1>2. Bien(u)
  BY PartirBien
<1>3. /\ nueva.PID = pid /\ nueva.esta_ocupado /\ nueva.tamanio = t /\ nueva.limite = t - 1
      /\ resto.PID = Nadie /\ ~resto.esta_ocupado
  BY DEF Particion
<1> HIDE DEF nueva, resto
<1>4. /\ Len(u) = L + 1
      /\ \A n \in 1 .. L : n < i => u[n] = s[n]
      /\ u[i] = nueva /\ u[i + 1] = resto
      /\ \A n \in 1 .. L : n > i => u[n + 1] = s[n]
  <2>1. u = [n \in 1 .. L + 1 |-> IF n < i THEN s[n] ELSE IF n = i THEN nueva
                                  ELSE IF n = i + 1 THEN resto ELSE s[n - 1]]
    BY DEF Partir, nueva, resto
  <2> HIDE DEF u
  <2>2. ASSUME NEW n \in 1 .. L, n > i PROVE u[n + 1] = s[n]
    <3>1. n + 1 \in 1 .. L + 1 /\ ~(n + 1 < i) /\ n + 1 # i /\ n + 1 # i + 1 /\ (n + 1) - 1 = n
      BY <1>1, <2>2
    <3> QED BY <3>1, <2>1
  <2> QED BY <1>1, <2>1, <2>2
<1> HIDE DEF u
<1>5. ASSUME NEW n \in 1 .. L + 1
      PROVE  n = i \/ n = i + 1 \/ \E m \in 1 .. L : m # i /\ u[n] = s[m]
  <2>1. CASE n < i
    BY <2>1, <1>1, <1>4
  <2>2. CASE n > i + 1
    <3>1. n - 1 \in 1 .. L /\ n - 1 > i /\ (n - 1) + 1 = n
      BY <2>2, <1>1
    <3>2. u[n] = s[n - 1]
      BY <3>1, <1>4
    <3> QED BY <3>1, <3>2, <1>1
  <2>3. n < i \/ n = i \/ n = i + 1 \/ n > i + 1
    BY <1>1
  <2> QED BY <2>1, <2>2, <2>3, Zenon
<1>6. ASSUME NEW m \in 1 .. L, m # i PROVE \E n \in 1 .. L + 1 : u[n] = s[m]
  <2>1. CASE m < i
    BY <2>1, <1>1, <1>4
  <2>2. CASE m > i
    <3>1. m + 1 \in 1 .. L + 1
      BY <1>1
    <3> QED BY <3>1, <2>2, <1>4
  <2>3. m < i \/ m > i
    BY <1>1, <1>6
  <2> QED BY <2>1, <2>2, <2>3, Zenon
<1>7. Ordenada(u)
  <2>1. u \in Seq(Particiones) /\ EnOrden(u) /\ EnMemoria(u)
    BY <1>2 DEF Bien
  <2>2. ASSUME NEW n \in 1 .. L + 1
        PROVE  /\ u[n].PID = Nadie <=> ~u[n].esta_ocupado
               /\ u[n].esta_ocupado => u[n].tamanio >= 1 /\ u[n].limite = u[n].tamanio - 1
    <3>1. CASE n = i
      <4>1. pid # Nadie /\ t >= 1
        BY DEF Nadie, PIDs
      <4> QED BY <3>1, <4>1, <1>3, <1>4
    <3>2. CASE n = i + 1
      BY <3>2, <1>3, <1>4
    <3>3. CASE \E m \in 1 .. L : m # i /\ u[n] = s[m]
      BY <3>3 DEF Ordenada
    <3> QED BY <3>1, <3>2, <3>3, <1>5
  <2>3. ESQUEMA # "FIJAS"
    OBVIOUS
  <2> QED BY <2>1, <2>2, <2>3, <1>4 DEF Ordenada
<1>8. ASSUME SinVecinas(s) PROVE SinVecinas(u)
  <2> SUFFICES ASSUME NEW n \in 1 .. L PROVE u[n].esta_ocupado \/ u[n + 1].esta_ocupado
    BY <1>1, <1>4 DEF SinVecinas
  <2>1. CASE n + 1 < i
    <3>1. n + 1 \in 1 .. L /\ n \in 1 .. L - 1 /\ n < i
      BY <2>1, <1>1
    <3> QED BY <3>1, <2>1, <1>4, <1>8 DEF SinVecinas
  <2>2. CASE n + 1 = i \/ n = i
    BY <2>2, <1>3, <1>4
  <2>3. CASE n = i + 1
    <3>1. n \in 1 .. L /\ i \in 1 .. L - 1 /\ n > i
      BY <2>3, <1>1
    <3>2. s[i + 1].esta_ocupado
      BY <3>1, <1>1, <1>8 DEF SinVecinas
    <3> QED BY <3>1, <3>2, <2>3, <1>4
  <2>4. CASE n > i + 1
    <3>1. n - 1 \in 1 .. L - 1 /\ n - 1 > i /\ n - 1 \in 1 .. L /\ (n - 1) + 1 = n
      BY <2>4, <1>1
    <3>2. u[n] = s[n - 1] /\ u[n + 1] = s[n]
      <4>1. u[(n - 1) + 1] = s[n - 1]
        BY <3>1, <1>4
      <4>2. n > i
        BY <2>4, <1>1
      <4> QED BY <4>1, <4>2, <3>1, <1>4
    <3>3. s[n - 1].esta_ocupado \/ s[(n - 1) + 1].esta_ocupado
      BY <3>1, <1>8 DEF SinVecinas
    <3> QED BY <3>1, <3>2, <3>3
  <2> QED BY <2>1, <2>2, <2>3, <2>4, <1>1
<1>9. EnUso(u) = EnUso(s) \cup {nueva}
  <2>1. ASSUME NEW r \in EnUso(u) PROVE r \in EnUso(s) \cup {nueva}
    <3>1. PICK n \in 1 .. L + 1 : u[n].esta_ocupado /\ u[n] = r
      BY <1>4, EstaEnUso
    <3>2. n # i + 1
      BY <3>1, <1>3, <1>4
    <3>3. CASE n = i
      BY <3>1, <3>3, <1>4
    <3>4. CASE \E m \in 1 .. L : m # i /\ u[n] = s[m]
      BY <3>1, <3>4, EstaEnUso
    <3> QED BY <3>2, <3>3, <3>4, <1>5
  <2>2. ASSUME NEW r \in EnUso(s) PROVE r \in EnUso(u)
    <3>1. PICK m \in 1 .. L : s[m].esta_ocupado /\ s[m] = r
      BY EstaEnUso
    <3>2. m # i
      BY <3>1, <1>1
    <3>3. PICK n \in 1 .. L + 1 : u[n] = s[m]
      BY <3>2, <1>6
    <3> QED BY <3>1, <3>3, <1>4, EstaEnUso
  <2>3. nueva \in EnUso(u)
    <3>1. i \in 1 .. L + 1
      BY <1>1
    <3> QED BY <3>1, <1>3, <1>4, EstaEnUso
  <2> QED BY <2>1, <2>2, <2>3
<1> QED BY <1>7, <1>8, <1>9 DEF u, nueva

\* One partition replaced where it is, by one as long.
LEMMA CambiarUna ==
  ASSUME NEW s, Ordenada(s), NEW i \in 1 .. Len(s), NEW q \in Particiones,
         q.base = s[i].base, q.tamanio = s[i].tamanio, q.limite = s[i].limite,
         q.PID = Nadie <=> ~q.esta_ocupado,
         q.esta_ocupado => q.tamanio >= 1 /\ q.limite = q.tamanio - 1
  PROVE  LET u == [s EXCEPT ![i] = q]
         IN  /\ Ordenada(u) /\ Len(u) = Len(s)
             /\ u[i] = q /\ \A n \in 1 .. Len(s) : n # i => u[n] = s[n]
<1> DEFINE u == [s EXCEPT ![i] = q]
           L == Len(s)
<1>1. s \in Seq(Particiones) /\ L \in Nat /\ EnOrden(s) /\ EnMemoria(s)
  BY DEF Ordenada
<1>2. u \in Seq(Particiones) /\ Len(u) = L
  BY <1>1
<1>3. u[i] = q /\ \A n \in 1 .. L : n # i => u[n] = s[n]
  BY <1>1
<1> HIDE DEF u
<1>4. \A n \in 1 .. L : u[n].base = s[n].base /\ u[n].tamanio = s[n].tamanio /\ u[n].limite = s[n].limite
  BY <1>3
<1>5. EnOrden(u)
  <2> SUFFICES ASSUME NEW n \in 1 .. L - 1 PROVE u[n + 1].base = u[n].base + u[n].tamanio
    BY <1>2 DEF EnOrden
  <2>1. n \in 1 .. L /\ n + 1 \in 1 .. L
    BY <1>1
  <2>2. s[n + 1].base = s[n].base + s[n].tamanio
    BY <1>1 DEF EnOrden
  <2> QED BY <2>1, <2>2, <1>4
<1>6. EnMemoria(u)
  BY <1>1, <1>2, <1>4 DEF EnMemoria
<1>7. ASSUME NEW n \in 1 .. L
      PROVE  /\ u[n].PID = Nadie <=> ~u[n].esta_ocupado
             /\ u[n].esta_ocupado \/ ESQUEMA = "FIJAS" => u[n].tamanio >= 1 /\ u[n].limite = u[n].tamanio - 1
  <2>1. CASE n = i
    <3>1. ESQUEMA = "FIJAS" => s[i].tamanio >= 1 /\ s[i].limite = s[i].tamanio - 1
      BY DEF Ordenada
    <3> QED BY <2>1, <3>1, <1>3
  <2>2. CASE n # i
    BY <2>2, <1>3 DEF Ordenada
  <2> QED BY <2>1, <2>2
<1>8. Ordenada(u)
  BY <1>2, <1>5, <1>6, <1>7 DEF Ordenada
<1> QED BY <1>2, <1>3, <1>8 DEF u

\* A fixed partition is taken.
LEMMA ActualizarReparte ==
  ASSUME NEW s, Ordenada(s), NEW t \in Nat, NEW i \in Entran(s, t), NEW pid \in PIDs,
         ESQUEMA = "FIJAS"
  PROVE  LET u == actualizar_estatica(s, i, pid)
         IN  /\ Ordenada(u)
             /\ EnUso(u) = EnUso(s) \cup
                  {Particion(pid, s[i].base, s[i].tamanio - 1, s[i].tamanio, TRUE)}
<1> DEFINE q == Particion(pid, s[i].base, s[i].limite, s[i].tamanio, TRUE)
           u == [s EXCEPT ![i] = q]
<1>1. i \in 1 .. Len(s) /\ ~s[i].esta_ocupado
  BY DEF Entran
<1>2. s \in Seq(Particiones) /\ s[i].tamanio >= 1 /\ s[i].limite = s[i].tamanio - 1
  BY <1>1 DEF Ordenada
<1>3. /\ q \in Particiones /\ q.base = s[i].base /\ q.tamanio = s[i].tamanio
      /\ q.limite = s[i].limite /\ q.PID = pid /\ q.esta_ocupado = TRUE
  <2>1. s[i].base \in Int /\ s[i].tamanio \in Int /\ s[i].limite \in Int
    BY <1>1, <1>2, Campos
  <2> QED BY <2>1 DEF Particion, Particiones
<1>4. u = actualizar_estatica(s, i, pid)
  BY DEF actualizar_estatica
<1> HIDE DEF q
<1>5. pid # Nadie
  BY DEF Nadie, PIDs
<1>6. /\ Ordenada(u) /\ Len(u) = Len(s)
      /\ u[i] = q /\ \A n \in 1 .. Len(s) : n # i => u[n] = s[n]
  BY <1>1, <1>2, <1>3, <1>5, CambiarUna
<1> HIDE DEF u
<1>7. EnUso(u) = EnUso(s) \cup {q}
  <2>1. ASSUME NEW r \in EnUso(u) PROVE r \in EnUso(s) \cup {q}
    <3>1. PICK n \in 1 .. Len(s) : u[n].esta_ocupado /\ u[n] = r
      BY <1>6, EstaEnUso
    <3> QED BY <3>1, <1>6, EstaEnUso
  <2>2. ASSUME NEW r \in EnUso(s) PROVE r \in EnUso(u)
    <3>1. PICK n \in 1 .. Len(s) : s[n].esta_ocupado /\ s[n] = r
      BY EstaEnUso
    <3>2. n # i
      BY <3>1, <1>1
    <3> QED BY <3>1, <3>2, <1>6, EstaEnUso
  <2>3. q \in EnUso(u)
    BY <1>1, <1>3, <1>6, EstaEnUso
  <2> QED BY <2>1, <2>2, <2>3
<1>8. q = Particion(pid, s[i].base, s[i].tamanio - 1, s[i].tamanio, TRUE)
  BY <1>2 DEF q
<1> QED BY <1>4, <1>6, <1>7, <1>8

\* A partition in use is freed: the others stay.
LEMMA LiberarReparte ==
  ASSUME NEW s, Ordenada(s), NEW i \in 1 .. Len(s), s[i].esta_ocupado
  PROVE  LET u == Liberar(s, i)
         IN  /\ Ordenada(u) /\ Len(u) = Len(s) /\ EnUso(u) = EnUso(s) \ {s[i]}
             /\ ~u[i].esta_ocupado /\ \A n \in 1 .. Len(s) : n # i => u[n] = s[n]
<1> DEFINE q == Particion(Nadie, s[i].base, s[i].limite, s[i].tamanio, FALSE)
           u == [s EXCEPT ![i] = q]
<1>1. s \in Seq(Particiones)
  BY DEF Ordenada
<1>2. /\ q \in Particiones /\ q.base = s[i].base /\ q.tamanio = s[i].tamanio
      /\ q.limite = s[i].limite /\ q.PID = Nadie /\ q.esta_ocupado = FALSE
  <2>1. s[i].base \in Int /\ s[i].tamanio \in Int /\ s[i].limite \in Int
    BY <1>1, Campos
  <2> QED BY <2>1 DEF Particion, Particiones
<1>3. u = Liberar(s, i)
  BY DEF Liberar
<1> HIDE DEF q
<1>4. /\ Ordenada(u) /\ Len(u) = Len(s)
      /\ u[i] = q /\ \A n \in 1 .. Len(s) : n # i => u[n] = s[n]
  BY <1>2, CambiarUna
<1> HIDE DEF u
<1>5. EnUso(u) = EnUso(s) \ {s[i]}
  <2>1. ASSUME NEW r \in EnUso(u) PROVE r \in EnUso(s) /\ r # s[i]
    <3>1. PICK n \in 1 .. Len(s) : u[n].esta_ocupado /\ u[n] = r
      BY <1>4, EstaEnUso
    <3>2. n # i
      BY <3>1, <1>2, <1>4
    <3>3. s[n].esta_ocupado /\ s[n] = r
      BY <3>1, <3>2, <1>4
    <3>4. r # s[i]
      BY <3>2, <3>3, UnaPosicion
    <3> QED BY <3>3, <3>4, EstaEnUso
  <2>2. ASSUME NEW r \in EnUso(s), r # s[i] PROVE r \in EnUso(u)
    <3>1. PICK n \in 1 .. Len(s) : s[n].esta_ocupado /\ s[n] = r
      BY EstaEnUso
    <3>2. n # i
      BY <3>1, <2>2
    <3> QED BY <3>1, <3>2, <1>4, EstaEnUso
  <2> QED BY <2>1, <2>2
<1> QED BY <1>2, <1>3, <1>4, <1>5

\* No two free neighbours, but for the pairs that begin at the positions of K.
SinVecinasSalvo(s, K) ==
  \A i \in (1 .. Len(s) - 1) \ K : s[i].esta_ocupado \/ s[i + 1].esta_ocupado

\* A merge changes no partition in use, and mends the pair it merges.
LEMMA UnirReparte ==
  ASSUME NEW s, Bien(s), Ordenada(s), NEW i \in 1 .. Len(s) - 1,
         ~s[i].esta_ocupado, ~s[i + 1].esta_ocupado, ESQUEMA = "DINAMICAS",
         NEW K \in SUBSET {i - 1, i}, SinVecinasSalvo(s, K)
  PROVE  LET u == Unir(s, i)
         IN  /\ Bien(u) /\ Ordenada(u) /\ EnUso(u) = EnUso(s)
             /\ SinVecinasSalvo(u, K \ {i})
<1> DEFINE union == Particion(s[i].PID, s[i].base, s[i].limite + s[i + 1].tamanio,
                              s[i].tamanio + s[i + 1].tamanio, s[i].esta_ocupado)
           u == Unir(s, i)
           L == Len(s)
<1>1. L \in Nat /\ L >= 2 /\ i \in 1 .. L /\ i + 1 \in 1 .. L /\ s \in Seq(Particiones)
  BY DEF Bien
<1>2. Bien(u)
  BY UnirBien
<1>3. union.PID = Nadie /\ ~union.esta_ocupado
  BY <1>1 DEF Particion, Ordenada
<1> HIDE DEF union
<1>4. /\ Len(u) = L - 1
      /\ \A n \in 1 .. L - 1 : n < i => u[n] = s[n]
      /\ u[i] = union
      /\ \A n \in 1 .. L - 1 : n > i => u[n] = s[n + 1]
  <2>1. u = [n \in 1 .. L - 1 |-> IF n < i THEN s[n] ELSE IF n = i THEN union ELSE s[n + 1]]
    BY DEF Unir, union
  <2> HIDE DEF u
  <2> QED BY <1>1, <2>1
<1> HIDE DEF u
<1>5. ASSUME NEW n \in 1 .. L - 1 PROVE n = i \/ \E m \in 1 .. L : u[n] = s[m]
  <2>1. CASE n < i
    BY <2>1, <1>1, <1>4
  <2>2. CASE n > i
    BY <2>2, <1>1, <1>4
  <2>3. n < i \/ n = i \/ n > i
    BY <1>1
  <2> QED BY <2>1, <2>2, <2>3, Zenon
<1>6. ASSUME NEW m \in 1 .. L, m # i, m # i + 1 PROVE \E n \in 1 .. L - 1 : u[n] = s[m]
  <2>1. CASE m < i
    BY <2>1, <1>1, <1>4
  <2>2. CASE m > i + 1
    <3>1. m - 1 \in 1 .. L - 1 /\ m - 1 > i /\ (m - 1) + 1 = m
      BY <2>2, <1>1
    <3>2. u[m - 1] = s[m]
      BY <3>1, <1>4
    <3> QED BY <3>1, <3>2
  <2>3. m < i \/ m > i + 1
    BY <1>1, <1>6
  <2> QED BY <2>1, <2>2, <2>3, Zenon
<1>7. Ordenada(u)
  <2>1. u \in Seq(Particiones) /\ EnOrden(u) /\ EnMemoria(u)
    BY <1>2 DEF Bien
  <2>2. ASSUME NEW n \in 1 .. L - 1
        PROVE  /\ u[n].PID = Nadie <=> ~u[n].esta_ocupado
               /\ u[n].esta_ocupado => u[n].tamanio >= 1 /\ u[n].limite = u[n].tamanio - 1
    <3>1. CASE n = i
      BY <3>1, <1>3, <1>4
    <3>2. CASE \E m \in 1 .. L : u[n] = s[m]
      BY <3>2 DEF Ordenada
    <3> QED BY <3>1, <3>2, <1>5
  <2>3. ESQUEMA # "FIJAS"
    OBVIOUS
  <2> QED BY <2>1, <2>2, <2>3, <1>4 DEF Ordenada
<1>8. EnUso(u) = EnUso(s)
  <2>1. ASSUME NEW r \in EnUso(u) PROVE r \in EnUso(s)
    <3>1. PICK n \in 1 .. L - 1 : u[n].esta_ocupado /\ u[n] = r
      BY <1>4, EstaEnUso
    <3>2. n # i
      BY <3>1, <1>3, <1>4
    <3>3. PICK m \in 1 .. L : u[n] = s[m]
      BY <3>2, <1>5
    <3> QED BY <3>1, <3>3, EstaEnUso
  <2>2. ASSUME NEW r \in EnUso(s) PROVE r \in EnUso(u)
    <3>1. PICK m \in 1 .. L : s[m].esta_ocupado /\ s[m] = r
      BY EstaEnUso
    <3>2. m # i /\ m # i + 1
      BY <3>1
    <3>3. PICK n \in 1 .. L - 1 : u[n] = s[m]
      BY <3>2, <1>6
    <3> QED BY <3>1, <3>3, <1>4, EstaEnUso
  <2> QED BY <2>1, <2>2
<1>9. SinVecinasSalvo(u, K \ {i})
  <2> SUFFICES ASSUME NEW n \in 1 .. L - 2, n \notin K \ {i}
               PROVE  u[n].esta_ocupado \/ u[n + 1].esta_ocupado
    BY <1>1, <1>4 DEF SinVecinasSalvo
  <2>0. n \in 1 .. L - 1 /\ n + 1 \in 1 .. L - 1 /\ (n + 1) + 1 \in 1 .. L
    BY <1>1
  <2>1. CASE n + 1 < i
    <3>1. n \notin K /\ n < i
      BY <2>0, <2>1, <1>1
    <3>2. s[n].esta_ocupado \/ s[n + 1].esta_ocupado
      BY <2>0, <3>1 DEF SinVecinasSalvo
    <3>3. u[n] = s[n] /\ u[n + 1] = s[n + 1]
      BY <2>0, <2>1, <3>1, <1>4
    <3> QED BY <3>2, <3>3
  <2>2. CASE n + 1 = i
    <3>1. n \notin K /\ n < i
      BY <2>0, <2>2, <1>1
    <3>2. s[n].esta_ocupado \/ s[n + 1].esta_ocupado
      BY <2>0, <3>1 DEF SinVecinasSalvo
    <3>3. u[n] = s[n]
      BY <2>0, <3>1, <1>4
    <3> QED BY <2>2, <3>2, <3>3
  <2>3. CASE n = i
    <3>1. n + 1 \notin K /\ n + 1 > i
      BY <2>0, <2>3, <1>1
    <3>2. s[n + 1].esta_ocupado \/ s[(n + 1) + 1].esta_ocupado
      BY <2>0, <3>1 DEF SinVecinasSalvo
    <3>3. u[n + 1] = s[(n + 1) + 1]
      BY <2>0, <3>1, <1>4
    <3> QED BY <2>3, <3>2, <3>3
  <2>4. CASE n > i
    <3>1. n + 1 \notin K /\ n + 1 > i
      BY <2>0, <2>4, <1>1
    <3>2. s[n + 1].esta_ocupado \/ s[(n + 1) + 1].esta_ocupado
      BY <2>0, <3>1 DEF SinVecinasSalvo
    <3>3. u[n] = s[n + 1] /\ u[n + 1] = s[(n + 1) + 1]
      BY <2>0, <2>4, <3>1, <1>4
    <3> QED BY <3>2, <3>3
  <2>5. n + 1 < i \/ n + 1 = i \/ n = i \/ n > i
    BY <1>1
  <2> QED BY <2>1, <2>2, <2>3, <2>4, <2>5, Zenon
<1> QED BY <1>2, <1>7, <1>8, <1>9 DEF u

\* The end of a process: its partition leaves the set, and the free ones are merged.
LEMMA ConsolidarReparte ==
  ASSUME NEW s, Bien(s), Ordenada(s), SinVecinas(s), NEW i \in 1 .. Len(s),
         s[i].esta_ocupado, ESQUEMA = "DINAMICAS"
  PROVE  LET w == Consolidar(Liberar(s, i), i)
         IN  Ordenada(w) /\ SinVecinas(w) /\ EnUso(w) = EnUso(s) \ {s[i]}
<1> DEFINE u == Liberar(s, i)
           v == ConSiguiente(u, i)
           w == ConAnterior(v, i)
           E == EnUso(s) \ {s[i]}
<1>1. i < Len(s) /\ Len(u) = Len(s) /\ Bien(u) /\ ~u[i].esta_ocupado
  BY LiberarBien
<1>2. /\ Ordenada(u) /\ EnUso(u) = E
      /\ \A n \in 1 .. Len(s) : n # i => u[n] = s[n]
  BY LiberarReparte
<1>3. Len(s) \in Nat /\ i \in Nat /\ i >= 1
  BY DEF Bien
<1> HIDE DEF u
<1>4. SinVecinasSalvo(u, {i - 1, i})
  <2> SUFFICES ASSUME NEW n \in 1 .. Len(s) - 1, n # i - 1, n # i
               PROVE  u[n].esta_ocupado \/ u[n + 1].esta_ocupado
    BY <1>1 DEF SinVecinasSalvo
  <2>1. n \in 1 .. Len(s) /\ n + 1 \in 1 .. Len(s) /\ n + 1 # i
    BY <1>3
  <2> QED BY <2>1, <1>2 DEF SinVecinas
<1>5. /\ Bien(v) /\ Ordenada(v) /\ EnUso(v) = E /\ SinVecinasSalvo(v, {i - 1})
      /\ i \in 1 .. Len(v) /\ ~v[i].esta_ocupado
  <2>1. CASE u[i + 1].esta_ocupado
    <3>1. v = u
      BY <2>1 DEF ConSiguiente
    <3>2. SinVecinasSalvo(u, {i - 1})
      BY <2>1, <1>4 DEF SinVecinasSalvo
    <3> QED BY <3>1, <3>2, <1>1, <1>2
  <2>2. CASE ~u[i + 1].esta_ocupado
    <3>1. v = Unir(u, i)
      BY <2>2, <1>1, <1>3 DEF ConSiguiente
    <3>2. i \in 1 .. Len(u) - 1
      BY <1>1, <1>3
    <3>3. Len(Unir(u, i)) = Len(u) - 1 /\ ~Unir(u, i)[i].esta_ocupado
      BY <3>2, <2>2, <1>1, UnirBien
    <3>4. /\ Bien(Unir(u, i)) /\ Ordenada(Unir(u, i)) /\ EnUso(Unir(u, i)) = EnUso(u)
          /\ SinVecinasSalvo(Unir(u, i), {i - 1, i} \ {i})
      BY <3>2, <2>2, <1>1, <1>2, <1>4, UnirReparte
    <3>5. {i - 1, i} \ {i} = {i - 1}
      BY <1>3
    <3> QED BY <3>1, <3>2, <3>3, <3>4, <3>5, <1>2
  <2> QED BY <2>1, <2>2
<1> HIDE DEF v
<1>6. Ordenada(w) /\ EnUso(w) = E /\ SinVecinas(w)
  <2>0. Len(v) \in Nat
    BY <1>5 DEF Bien
  <2>1. CASE i = 1 \/ v[i - 1].esta_ocupado
    <3>1. w = v
      BY <2>1 DEF ConAnterior
    <3>2. SinVecinas(v)
      <4> SUFFICES ASSUME NEW n \in 1 .. Len(v) - 1 PROVE v[n].esta_ocupado \/ v[n + 1].esta_ocupado
        BY DEF SinVecinas
      <4>1. CASE n = i - 1
        BY <2>1, <4>1, <1>3
      <4>2. CASE n # i - 1
        BY <4>2, <1>5 DEF SinVecinasSalvo
      <4> QED BY <4>1, <4>2
    <3> QED BY <3>1, <3>2, <1>5
  <2>2. CASE i # 1 /\ ~v[i - 1].esta_ocupado
    <3> DEFINE j == i - 1
    <3>1. w = Unir(v, j)
      BY <2>2 DEF ConAnterior
    <3>2. j \in 1 .. Len(v) - 1 /\ j + 1 = i
      BY <2>0, <2>2, <1>3, <1>5
    <3>3. ~v[j].esta_ocupado /\ SinVecinasSalvo(v, {j})
      BY <2>2, <1>5
    <3> HIDE DEF j
    <3>4. {j} \in SUBSET {j - 1, j} /\ {j} \ {j} = {}
      OBVIOUS
    <3>5. /\ Ordenada(Unir(v, j)) /\ EnUso(Unir(v, j)) = EnUso(v)
          /\ SinVecinasSalvo(Unir(v, j), {j} \ {j})
      BY <3>2, <3>3, <3>4, <1>5, UnirReparte
    <3>6. SinVecinas(Unir(v, j))
      BY <3>4, <3>5 DEF SinVecinas, SinVecinasSalvo
    <3> QED BY <3>1, <3>5, <3>6, <1>5
  <2> QED BY <2>1, <2>2
<1>7. Consolidar(u, i) = w
  BY DEF Consolidar, v
<1> QED BY <1>6, <1>7 DEF u

\* No partition in use has a byte of q.
Libera(s, q) ==
  \A r \in EnUso(s), x \in Int :
    ~(r.base <= x /\ x < r.base + r.tamanio /\ q.base <= x /\ x < q.base + q.tamanio)
\* An admission: one more partition in use, as long as the process or more, with bytes
\* that nobody had.
LEMMA AsignarReparte ==
  ASSUME NEW s, Ordenada(s), ESQUEMA \in {"FIJAS", "DINAMICAS"},
         ALGORITMO_BUSQUEDA \in {"FIRST", "BEST", "WORST"},
         ESQUEMA = "DINAMICAS" => Bien(s) /\ SinVecinas(s),
         NEW t \in Nat \ {0}, Entran(s, t) # {}, NEW pid \in PIDs
  PROVE  LET u == asignar_particion(s, pid, t)
         IN  /\ Ordenada(u)
             /\ ESQUEMA = "DINAMICAS" => SinVecinas(u)
             /\ \E q \in Particiones :
                  /\ q.PID = pid /\ q.limite = q.tamanio - 1 /\ t <= q.tamanio
                  /\ ESQUEMA = "DINAMICAS" => q.tamanio = t
                  /\ Libera(s, q) /\ EnUso(u) = EnUso(s) \cup {q}
<1> DEFINE i == Elegida(s, t)
           u == asignar_particion(s, pid, t)
<1>1. s \in Seq(Particiones) /\ EnOrden(s) /\ EnMemoria(s)
  BY DEF Ordenada
<1>2. i \in Entran(s, t)
  BY <1>1, ElegidaEntra
<1>a. u = IF ESQUEMA = "FIJAS" THEN actualizar_estatica(s, i, pid) ELSE Partir(s, i, pid, t)
  BY DEF asignar_particion
<1> HIDE DEF i, u
<1>3. i \in 1 .. Len(s) /\ ~s[i].esta_ocupado /\ t <= s[i].tamanio
  BY <1>2 DEF Entran
<1>4. s[i].base \in Int /\ s[i].tamanio \in Int /\ t \in Int /\ t >= 1
  BY <1>1, <1>3, Campos
<1>5. ASSUME NEW k \in Int, t <= k, k <= s[i].tamanio
      PROVE  LET q == Particion(pid, s[i].base, k - 1, k, TRUE)
             IN  /\ q \in Particiones /\ q.PID = pid /\ q.limite = q.tamanio - 1 /\ t <= q.tamanio
                 /\ Libera(s, q)
  <2> DEFINE q == Particion(pid, s[i].base, k - 1, k, TRUE)
  <2>1. /\ q \in Particiones /\ q.PID = pid /\ q.limite = k - 1 /\ q.tamanio = k
        /\ q.base = s[i].base
    BY <1>4 DEF Particion, Particiones
  <2> HIDE DEF q
  <2>2. ASSUME NEW r \in EnUso(s), NEW x \in Int, r.base <= x, x < r.base + r.tamanio,
               q.base <= x, x < q.base + q.tamanio
        PROVE  FALSE
    <3>1. PICK n \in 1 .. Len(s) : s[n].esta_ocupado /\ s[n] = r
      BY EstaEnUso
    <3>2. n # i
      BY <3>1, <1>3
    <3>3. s[n].base <= x /\ x < s[n].base + s[n].tamanio
      BY <3>1, <2>2
    <3>4. s[i].base <= x /\ x < s[i].base + s[i].tamanio
      BY <2>1, <2>2, <1>4, <1>5
    <3> QED BY <3>2, <3>3, <3>4, <1>1, <1>3, SinCompartir
  <2>3. Libera(s, q)
    BY <2>2 DEF Libera
  <2>4. q.limite = q.tamanio - 1 /\ t <= q.tamanio
    BY <2>1, <1>5
  <2> QED BY <2>1, <2>3, <2>4 DEF q
<1>6. CASE ESQUEMA = "FIJAS"
  <2> DEFINE k == s[i].tamanio
             q == Particion(pid, s[i].base, k - 1, k, TRUE)
  <2>1. Ordenada(u) /\ EnUso(u) = EnUso(s) \cup {q}
    BY <1>2, <1>6, <1>a, ActualizarReparte
  <2>2. k \in Int /\ t <= k /\ k <= s[i].tamanio
    BY <1>3, <1>4
  <2> HIDE DEF k
  <2>3. /\ q \in Particiones /\ q.PID = pid /\ q.limite = q.tamanio - 1 /\ t <= q.tamanio
        /\ Libera(s, q)
    BY <2>2, <1>5
  <2> HIDE DEF q
  <2> QED BY <2>1, <2>3, <1>6 DEF u
<1>7. CASE ESQUEMA = "DINAMICAS"
  <2> DEFINE q == Particion(pid, s[i].base, t - 1, t, TRUE)
  <2>1. Ordenada(u) /\ SinVecinas(u) /\ EnUso(u) = EnUso(s) \cup {q}
    BY <1>2, <1>7, <1>a, PartirReparte
  <2>2. t <= t /\ t <= s[i].tamanio
    BY <1>3, <1>4
  <2>3. /\ q \in Particiones /\ q.PID = pid /\ q.limite = q.tamanio - 1 /\ t <= q.tamanio
        /\ Libera(s, q)
    BY <2>2, <1>4, <1>5
  <2>4. q.tamanio = t
    BY DEF Particion
  <2> HIDE DEF q
  <2> QED BY <2>1, <2>3, <2>4 DEF u
<1> QED BY <1>6, <1>7

-----------------------------------------------------------------------------
(* The requests on the list of processes *)

\* The entry that is placed where a partition of its PID is.
LEMMA UbicarEnUso ==
  ASSUME NEW s, Ordenada(s), NEW pid \in PIDs, NEW q \in EnUso(s), q.PID = pid, NEW t
  PROVE  \E r \in EnUso(s) :
           r.PID = pid /\ Ubicar(s, pid, t) = Proceso(pid, r.base, r.tamanio - 1, t, {})
<1> DEFINE M == {i \in 1 .. Len(s) : s[i].PID = pid}
           i == CHOOSE i \in 1 .. Len(s) :
                  s[i].PID = pid /\ \A k \in 1 .. Len(s) : s[k].PID = pid => i <= k
<1>1. PICK m \in M : \A k \in M : m <= k
  <2>1. M \in SUBSET Nat /\ M # {}
    BY EstaEnUso
  <2> HIDE DEF M
  <2> QED BY <2>1, Minimo
<1>2. i \in 1 .. Len(s) /\ s[i].PID = pid
  BY <1>1
<1>3. Ubicar(s, pid, t) = Proceso(pid, s[i].base, s[i].limite, t, {})
  BY DEF Ubicar
<1> HIDE DEF i
<1>4. s[i].esta_ocupado
  BY <1>2 DEF Ordenada, Nadie, PIDs
<1>5. s[i].limite = s[i].tamanio - 1
  BY <1>2, <1>4 DEF Ordenada
<1>6. s[i] \in EnUso(s)
  BY <1>2, <1>4, EstaEnUso
<1> QED BY <1>2, <1>3, <1>5, <1>6

\* One more entry at the end.
LEMMA FichaNueva ==
  ASSUME NEW l \in Seq(Procesos), NEW pr \in Procesos
  PROVE  LET u == Append(l, pr)
         IN  /\ u \in Seq(Procesos)
             /\ \A r : SinFicha(l, r.PID) /\ Describe(pr, r) => Ficha(u, r)
             /\ \A r : Ficha(l, r) /\ r.PID # pr.PID => Ficha(u, r)
             /\ \A p : SinFicha(l, p) /\ p # pr.PID => SinFicha(u, p)
<1> DEFINE u == Append(l, pr)
           L == Len(l)
<1>1. /\ L \in Nat /\ u \in Seq(Procesos) /\ Len(u) = L + 1 /\ u[L + 1] = pr
      /\ \A n \in 1 .. L : u[n] = l[n]
  OBVIOUS
<1> HIDE DEF u
<1>2. \A n \in 1 .. L : n \in 1 .. L + 1
  BY <1>1
<1>3. \A n \in 1 .. L + 1 : n \in 1 .. L \/ n = L + 1
  BY <1>1
<1>4. L + 1 \in 1 .. L + 1
  BY <1>1
<1> HIDE DEF L
<1>5. ASSUME NEW r, \A m \in 1 .. L : l[m].PID # r.PID, Describe(pr, r) PROVE Ficha(u, r)
  <2>1. \A m \in 1 .. L + 1 : u[m].PID = r.PID => m = L + 1
    BY <1>1, <1>3, <1>5
  <2> QED BY <2>1, <1>1, <1>4, <1>5 DEF Ficha
<1>6. ASSUME NEW r, Ficha(l, r), r.PID # pr.PID PROVE Ficha(u, r)
  <2>1. PICK n \in 1 .. L : Describe(l[n], r) /\ \A m \in 1 .. L : l[m].PID = r.PID => m = n
    BY <1>6 DEF Ficha, L
  <2>2. \A m \in 1 .. L + 1 : u[m].PID = r.PID => m = n
    BY <2>1, <1>1, <1>3, <1>6
  <2> QED BY <2>1, <2>2, <1>1, <1>2 DEF Ficha
<1>7. ASSUME NEW p, \A m \in 1 .. L : l[m].PID # p, p # pr.PID PROVE SinFicha(u, p)
  BY <1>1, <1>3, <1>7 DEF SinFicha
<1> QED BY <1>1, <1>5, <1>6, <1>7 DEF u, SinFicha, L

\* The threads of a process change, and its entry says the same of its partition.
LEMMA FichaConHilos ==
  ASSUME lista_procesos \in Seq(Procesos), NEW r, Ficha(lista_procesos, r), r.PID \in PIDs,
         NEW H \in SUBSET TIDs
  PROVE  LET u == ConHilos(r.PID, H)
         IN  /\ u \in Seq(Procesos) /\ HilosDe(r.PID) \subseteq TIDs
             /\ \A q : Ficha(lista_procesos, q) => Ficha(u, q)
             /\ \A p : SinFicha(lista_procesos, p) => SinFicha(u, p)
<1> DEFINE l == lista_procesos
           n == buscar_proceso(r.PID)
           pr == Proceso(r.PID, l[n].base, l[n].limite, l[n].tamanio, H)
           u == [l EXCEPT ![n] = pr]
<1>1. PICK k \in 1 .. Len(l) : Describe(l[k], r) /\ \A m \in 1 .. Len(l) : l[m].PID = r.PID => m = k
  BY DEF Ficha
<1>2. \A m \in 1 .. Len(l) : l[m].PID = r.PID => k <= m
  BY <1>1
<1>3. n \in 1 .. Len(l) /\ l[n].PID = r.PID
  BY <1>1, <1>2 DEF buscar_proceso, Describe
<1>4. u = ConHilos(r.PID, H) /\ HilosDe(r.PID) = l[n].hilos
  BY DEF ConHilos, HilosDe
<1> HIDE DEF n
<1>5. l[n] \in Procesos
  BY <1>3
<1>6. /\ pr \in Procesos /\ pr.PID = l[n].PID /\ pr.base = l[n].base /\ pr.limite = l[n].limite
      /\ pr.tamanio = l[n].tamanio
  BY <1>3, <1>5 DEF Procesos, Proceso
<1>7. l[n].hilos \subseteq TIDs
  BY <1>5 DEF Procesos
<1> HIDE DEF pr
<1>8. u \in Seq(Procesos) /\ Len(u) = Len(l) /\ u[n] = pr /\ \A m \in 1 .. Len(l) : m # n => u[m] = l[m]
  BY <1>3, <1>6
<1> HIDE DEF u
<1>9. \A m \in 1 .. Len(l) : /\ u[m].PID = l[m].PID /\ u[m].base = l[m].base
                             /\ u[m].limite = l[m].limite /\ u[m].tamanio = l[m].tamanio
  BY <1>6, <1>8
<1>10. ASSUME NEW q, Ficha(l, q) PROVE Ficha(u, q)
  BY <1>8, <1>9, <1>10 DEF Ficha, Describe
<1>11. ASSUME NEW p, SinFicha(l, p) PROVE SinFicha(u, p)
  BY <1>8, <1>9, <1>11 DEF SinFicha
<1> QED BY <1>4, <1>7, <1>8, <1>10, <1>11

\* The entry of a process that ends leaves the list.
LEMMA FichaFuera ==
  ASSUME lista_procesos \in Seq(Procesos), NEW r, Ficha(lista_procesos, r)
  PROVE  LET u == SinProceso(r.PID)
         IN  /\ u \in Seq(Procesos) /\ SinFicha(u, r.PID)
             /\ \A q : Ficha(lista_procesos, q) /\ q.PID # r.PID => Ficha(u, q)
             /\ \A p : SinFicha(lista_procesos, p) => SinFicha(u, p)
<1> DEFINE l == lista_procesos
           n == buscar_proceso(r.PID)
           L == Len(l)
           u == RemoveAt(l, n)
<1>1. PICK k \in 1 .. L : Describe(l[k], r) /\ \A m \in 1 .. L : l[m].PID = r.PID => m = k
  BY DEF Ficha
<1>2. \A m \in 1 .. L : l[m].PID = r.PID => k <= m
  BY <1>1
<1>3. n \in 1 .. L /\ l[n].PID = r.PID
  BY <1>1, <1>2 DEF buscar_proceso, Describe
<1>4. u = SinProceso(r.PID)
  BY DEF SinProceso
<1>5. \A m \in 1 .. L : l[m].PID = r.PID => m = n
  BY <1>1, <1>3
<1> HIDE DEF n
<1>6. L \in Nat
  OBVIOUS
<1>7. /\ u \in Seq(Procesos) /\ Len(u) = L - 1
      /\ \A m \in 1 .. L - 1 : u[m] = IF m < n THEN l[m] ELSE l[m + 1]
  BY <1>3, RemoveAtEn
<1> HIDE DEF u, L
<1>8. ASSUME NEW m \in 1 .. L - 1 PROVE \E j \in 1 .. L : j # n /\ u[m] = l[j]
  <2>1. CASE m < n
    BY <2>1, <1>6, <1>7, <1>3
  <2>2. CASE ~(m < n)
    <3>1. m + 1 \in 1 .. L /\ m + 1 # n
      BY <2>2, <1>3, <1>6
    <3> QED BY <3>1, <2>2, <1>7
  <2> QED BY <2>1, <2>2
<1>9. SinFicha(u, r.PID)
  BY <1>5, <1>7, <1>8 DEF SinFicha
<1>10. ASSUME NEW q, Ficha(l, q), q.PID # r.PID PROVE Ficha(u, q)
  <2>1. PICK c \in 1 .. L : Describe(l[c], q) /\ \A m \in 1 .. L : l[m].PID = q.PID => m = c
    BY <1>10 DEF Ficha, L
  <2>2. c # n
    BY <2>1, <1>3, <1>10 DEF Describe
  <2> DEFINE d == IF c < n THEN c ELSE c - 1
  <2>3. d \in 1 .. L - 1 /\ (d < n => d = c) /\ (~(d < n) => d + 1 = c)
    BY <2>2, <1>3, <1>6
  <2> HIDE DEF d
  <2>4. u[d] = l[c]
    BY <2>3, <1>7
  <2>5. ASSUME NEW m \in 1 .. L - 1, u[m].PID = q.PID PROVE m = d
    <3>1. CASE m < n
      <4>1. u[m] = l[m] /\ m \in 1 .. L
        BY <3>1, <1>6, <1>7
      <4>2. m = c
        BY <4>1, <2>1, <2>5
      <4> QED BY <4>2, <3>1, <2>3, <1>3, <1>6
    <3>2. CASE ~(m < n)
      <4>1. u[m] = l[m + 1] /\ m + 1 \in 1 .. L
        BY <3>2, <1>6, <1>7
      <4>2. m + 1 = c
        BY <4>1, <2>1, <2>5
      <4> QED BY <4>2, <3>2, <2>3, <1>3, <1>6
    <3> QED BY <3>1, <3>2
  <2> QED BY <2>1, <2>3, <2>4, <2>5, <1>7 DEF Ficha
<1>11. ASSUME NEW p, SinFicha(l, p) PROVE SinFicha(u, p)
  BY <1>7, <1>8, <1>11 DEF SinFicha, L
<1> QED BY <1>4, <1>7, <1>9, <1>10, <1>11

-----------------------------------------------------------------------------
(* The fixed partitions of the configuration *)

\* What BaseFija says of itself.
PasoFija(f) == [i \in Nat |-> IF i <= 1 THEN 0 ELSE f[i - 1] + PARTICIONES[i - 1]]

\* f is right up to k.
Hasta(k, f) == \A i \in 0 .. k : f[i] = IF i <= 1 THEN 0 ELSE f[i - 1] + PARTICIONES[i - 1]

\* There is a function right up to each k.
LEMMA HayHasta == \A k \in Nat : \E f : Hasta(k, f)
<1> DEFINE M == {k \in Nat : ~ \E f : Hasta(k, f)}
<1>1. SUFFICES ASSUME M # {} PROVE FALSE
  OBVIOUS
<1>2. PICK k \in M : \A j \in M : k <= j
  <2>1. M \in SUBSET Nat
    OBVIOUS
  <2> HIDE DEF M
  <2> QED BY <2>1, <1>1, Minimo
<1>3. k \in Nat /\ ~ \E f : Hasta(k, f)
  OBVIOUS
<1>4. \A j \in Nat : j < k => \E f : Hasta(j, f)
  BY <1>2
<1> HIDE DEF M
<1>5. CASE k = 0
  <2> DEFINE f == [i \in Nat |-> 0]
  <2>1. Hasta(k, f)
    BY <1>5 DEF Hasta
  <2> QED BY <2>1, <1>3
<1>6. CASE k # 0
  <2>1. k - 1 \in Nat /\ k - 1 < k
    BY <1>3, <1>6
  <2>2. PICK f : Hasta(k - 1, f)
    BY <2>1, <1>4
  <2> DEFINE v == IF k <= 1 THEN 0 ELSE f[k - 1] + PARTICIONES[k - 1]
             g == [i \in Nat |-> IF i = k THEN v ELSE f[i]]
  <2>3. g[k] = v /\ \A i \in Nat : i # k => g[i] = f[i]
    BY <1>3
  <2> HIDE DEF g
  <2>4. ASSUME NEW i \in 0 .. k
        PROVE  g[i] = IF i <= 1 THEN 0 ELSE g[i - 1] + PARTICIONES[i - 1]
    <3>1. CASE i = k
      <4>1. ~(k <= 1) => g[k - 1] = f[k - 1]
        BY <2>1, <2>3
      <4> QED BY <3>1, <4>1, <2>3
    <3>2. CASE i # k
      <4>1. i \in 0 .. k - 1 /\ i \in Nat
        BY <3>2, <1>3
      <4>2. f[i] = IF i <= 1 THEN 0 ELSE f[i - 1] + PARTICIONES[i - 1]
        BY <4>1, <2>2 DEF Hasta
      <4>3. ~(i <= 1) => g[i - 1] = f[i - 1]
        <5>1. ~(i <= 1) => i - 1 \in Nat /\ i - 1 # k
          BY <4>1, <1>3
        <5> QED BY <5>1, <2>3
      <4> QED BY <3>2, <4>1, <4>2, <4>3, <2>3
    <3> QED BY <3>1, <3>2
  <2>5. Hasta(k, g)
    BY <2>4 DEF Hasta
  <2> QED BY <2>5, <1>3
<1> QED BY <1>5, <1>6

\* Two of them agree where both are right.
LEMMA MismaHasta ==
  ASSUME NEW k \in Nat, NEW f, NEW g, Hasta(k, f), Hasta(k, g)
  PROVE  \A i \in 0 .. k : f[i] = g[i]
<1> DEFINE M == {i \in 0 .. k : f[i] # g[i]}
<1>1. SUFFICES ASSUME M # {} PROVE FALSE
  OBVIOUS
<1>2. PICK i \in M : \A j \in M : i <= j
  <2>1. M \in SUBSET Nat
    OBVIOUS
  <2> HIDE DEF M
  <2> QED BY <2>1, <1>1, Minimo
<1>3. i \in 0 .. k /\ f[i] # g[i]
  OBVIOUS
<1>4. \A j \in 0 .. k : j < i => f[j] = g[j]
  BY <1>2
<1> HIDE DEF M
<1>5. CASE i <= 1
  BY <1>3, <1>5 DEF Hasta
<1>6. CASE ~(i <= 1)
  <2>1. i - 1 \in 0 .. k /\ i - 1 < i
    BY <1>3, <1>6
  <2>2. f[i - 1] = g[i - 1]
    BY <2>1, <1>4
  <2> QED BY <2>2, <1>3, <1>6 DEF Hasta
<1> QED BY <1>5, <1>6

\* So BaseFija is what its definition says.
LEMMA BasesFijas ==
  \A i \in Nat : BaseFija[i] = IF i <= 1 THEN 0 ELSE BaseFija[i - 1] + PARTICIONES[i - 1]
<1> DEFINE c(k) == CHOOSE f : Hasta(k, f)
           F == [i \in Nat |-> c(i)[i]]
<1>1. \A k \in Nat : Hasta(k, c(k))
  BY HayHasta
<1> HIDE DEF c
<1>2. ASSUME NEW i \in Nat PROVE F[i] = IF i <= 1 THEN 0 ELSE F[i - 1] + PARTICIONES[i - 1]
  <2>1. c(i)[i] = IF i <= 1 THEN 0 ELSE c(i)[i - 1] + PARTICIONES[i - 1]
    BY <1>1 DEF Hasta
  <2>2. ASSUME ~(i <= 1) PROVE c(i)[i - 1] = F[i - 1]
    <3> DEFINE j == i - 1
    <3>1. j \in Nat /\ j \in 0 .. j /\ 0 .. j \subseteq 0 .. i
      BY <2>2
    <3> HIDE DEF j
    <3>2. Hasta(j, c(i))
      BY <3>1, <1>1 DEF Hasta
    <3>3. c(i)[j] = c(j)[j]
      BY <3>1, <3>2, <1>1, MismaHasta
    <3>4. F[j] = c(j)[j]
      BY <3>1
    <3> QED BY <3>3, <3>4 DEF j
  <2> QED BY <2>1, <2>2
<1>3. F = PasoFija(F)
  <2>1. F = [i \in Nat |-> F[i]]
    OBVIOUS
  <2> HIDE DEF F
  <2> QED BY <2>1, <1>2 DEF PasoFija
<1>4. BaseFija = CHOOSE g : g = PasoFija(g)
  BY Zenon DEF BaseFija, PasoFija
<1> HIDE DEF F
<1>5. BaseFija = PasoFija(BaseFija)
  BY <1>3, <1>4
<1> DEFINE B == BaseFija
<1>6. B = PasoFija(B)
  BY <1>5
<1> HIDE DEF B
<1>7. ASSUME NEW i \in Nat PROVE B[i] = IF i <= 1 THEN 0 ELSE B[i - 1] + PARTICIONES[i - 1]
  <2>1. PasoFija(B)[i] = IF i <= 1 THEN 0 ELSE B[i - 1] + PARTICIONES[i - 1]
    BY DEF PasoFija
  <2>2. B[i] = PasoFija(B)[i]
    BY <1>6
  <2> QED BY <2>1, <2>2
<1> QED BY <1>7 DEF B

\* The bases of the fixed partitions are in order and inside the memory.
LEMMA BasesEnMemoria ==
  LET L == Len(PARTICIONES)
  IN  /\ BaseFija[1] = 0 /\ \A i \in 1 .. L + 1 : BaseFija[i] \in Nat /\ BaseFija[i] <= TAM_MEMORIA
      /\ \A i \in 1 .. L : BaseFija[i + 1] = BaseFija[i] + PARTICIONES[i]
<1> DEFINE L == Len(PARTICIONES)
           B == BaseFija
<1>1. L \in Nat /\ \A i \in 1 .. L : PARTICIONES[i] \in Nat
  BY ConstantesDeMemoria
<1>2. \A i \in Nat : B[i] = IF i <= 1 THEN 0 ELSE B[i - 1] + PARTICIONES[i - 1]
  BY BasesFijas
<1>3. TAM_MEMORIA \in Nat /\ B[L + 1] <= TAM_MEMORIA
  BY ConstantesDeMemoria, FijasEntran
<1> HIDE DEF B, L
<1>4. B[1] = 0
  BY <1>2
<1>5. ASSUME NEW i \in 1 .. L PROVE B[i + 1] = B[i] + PARTICIONES[i]
  <2>1. i + 1 \in Nat /\ ~(i + 1 <= 1) /\ (i + 1) - 1 = i
    BY <1>1
  <2> QED BY <2>1, <1>2
<1>6. \A i \in 1 .. L + 1 : B[i] \in Nat
  <2> DEFINE M == {i \in 1 .. L + 1 : B[i] \notin Nat}
  <2>1. SUFFICES ASSUME M # {} PROVE FALSE
    OBVIOUS
  <2>2. PICK i \in M : \A j \in M : i <= j
    <3>1. M \in SUBSET Nat
      BY <1>1
    <3> HIDE DEF M
    <3> QED BY <3>1, <2>1, Minimo
  <2>3. i \in 1 .. L + 1 /\ B[i] \notin Nat
    OBVIOUS
  <2>4. \A j \in 1 .. L + 1 : j < i => B[j] \in Nat
    BY <2>2, <1>1
  <2> HIDE DEF M
  <2>5. i # 1
    BY <2>3, <1>4
  <2> DEFINE j == i - 1
  <2>6. j \in 1 .. L /\ j \in 1 .. L + 1 /\ j < i /\ j + 1 = i
    BY <2>3, <2>5, <1>1
  <2> HIDE DEF j
  <2>7. B[j] \in Nat /\ PARTICIONES[j] \in Nat /\ B[i] = B[j] + PARTICIONES[j]
    BY <2>4, <2>6, <1>1, <1>5
  <2> QED BY <2>3, <2>7
<1>7. \A i \in 1 .. L + 1 : B[i] <= TAM_MEMORIA
  <2> DEFINE M == {d \in 0 .. L : ~(B[L + 1 - d] <= TAM_MEMORIA)}
  <2>1. M = {}
    <3>1. SUFFICES ASSUME M # {} PROVE FALSE
      OBVIOUS
    <3>2. PICK d \in M : \A e \in M : d <= e
      <4>1. M \in SUBSET Nat
        BY <1>1
      <4> HIDE DEF M
      <4> QED BY <4>1, <3>1, Minimo
    <3>3. d \in 0 .. L /\ ~(B[L + 1 - d] <= TAM_MEMORIA)
      OBVIOUS
    <3>4. \A e \in 0 .. L : e < d => B[L + 1 - e] <= TAM_MEMORIA
      BY <3>2, <1>1
    <3> HIDE DEF M
    <3>5. d # 0
      <4>1. L + 1 - 0 = L + 1
        BY <1>1
      <4> QED BY <4>1, <3>3, <1>3
    <3> DEFINE i == L + 1 - d
               e == d - 1
    <3>6. i \in 1 .. L /\ i \in 1 .. L + 1 /\ i + 1 \in 1 .. L + 1 /\ e \in 0 .. L /\ e < d /\ L + 1 - e = i + 1
      BY <3>3, <3>5, <1>1
    <3>7. ~(B[i] <= TAM_MEMORIA)
      BY <3>3
    <3>8. B[L + 1 - e] <= TAM_MEMORIA
      BY <3>4, <3>6
    <3> HIDE DEF i, e
    <3>9. B[i + 1] <= TAM_MEMORIA /\ B[i + 1] = B[i] + PARTICIONES[i]
      BY <3>6, <3>8, <1>5
    <3> QED BY <3>6, <3>7, <3>9, <1>1, <1>3, <1>6
  <2>2. ASSUME NEW i \in 1 .. L + 1 PROVE B[i] <= TAM_MEMORIA
    <3>1. L + 1 - i \in 0 .. L /\ L + 1 - (L + 1 - i) = i
      BY <1>1
    <3> QED BY <3>1, <2>1
  <2> QED BY <2>2
<1> QED BY <1>4, <1>5, <1>6, <1>7 DEF B, L

-----------------------------------------------------------------------------
(* The invariant *)

\* What the steps read of the invariant.
LEMMA Datos ==
  ASSUME IInv
  PROVE  /\ activos \subseteq PIDs /\ ConMemoria \subseteq PIDs /\ cabeza \in Nat
         /\ \A p \in activos : p \in Nat /\ p < cabeza /\ p # cabeza /\ script[p]
         /\ \A p \in PIDs : tam[p] \in Tamanios /\ tam[p] \in Nat \ {0}
         /\ 0 \in TIDs
<1>1. cabeza \in 1 .. MaxPid + 1 /\ activos \subseteq 1 .. cabeza - 1
  BY DEF IInv, TypeOK
<1>2. cabeza \in Nat /\ cabeza <= MaxPid + 1 /\ MaxPid \in Nat
  BY <1>1, ConstantesDeMemoria
<1>3. \A p \in activos : p \in Nat /\ p < cabeza /\ p # cabeza /\ p \in PIDs
  BY <1>1, <1>2 DEF PIDs
<1>4. iniciando => cabeza \in PIDs
  BY DEF IInv, TypeOK
<1>5. \A p \in PIDs : tam[p] \in Tamanios /\ tam[p] \in Nat \ {0}
  BY ConstantesDeMemoria DEF IInv, TypeOK
<1>6. 0 \in TIDs
  BY ConstantesDeMemoria DEF TIDs
<1>7. \A p \in activos : script[p]
  BY DEF IInv
<1> QED BY <1>2, <1>3, <1>4, <1>5, <1>6, <1>7 DEF ConMemoria

\* The partitions at the start: all of them free.
LEMMA InicioOrdenado ==
  ASSUME Init
  PROVE  /\ Ordenada(lista_particiones) /\ EnUso(lista_particiones) = {}
         /\ ESQUEMA = "DINAMICAS" => SinVecinas(lista_particiones)
<1> DEFINE s == lista_particiones
<1>1. s = iniciar_estructuras
  BY DEF Init
<1>2. CASE ESQUEMA = "FIJAS"
  <2> DEFINE L == Len(PARTICIONES)
             p(i) == Particion(Nadie, BaseFija[i], PARTICIONES[i] - 1, PARTICIONES[i], FALSE)
  <2>1. L \in Nat /\ \A i \in 1 .. L : PARTICIONES[i] \in Nat \ {0}
    BY ConstantesDeMemoria
  <2>2. /\ \A i \in 1 .. L + 1 : BaseFija[i] \in Nat /\ BaseFija[i] <= TAM_MEMORIA
        /\ \A i \in 1 .. L : BaseFija[i + 1] = BaseFija[i] + PARTICIONES[i]
    BY BasesEnMemoria
  <2>3. s = [i \in 1 .. L |-> p(i)]
    BY <1>1, <1>2 DEF iniciar_estructuras
  <2> HIDE DEF L
  <2>4. ASSUME NEW i \in 1 .. L
        PROVE  /\ p(i) \in Particiones /\ p(i).base = BaseFija[i] /\ p(i).tamanio = PARTICIONES[i]
               /\ p(i).limite = PARTICIONES[i] - 1 /\ p(i).PID = Nadie /\ p(i).esta_ocupado = FALSE
    <3>1. BaseFija[i] \in Nat /\ PARTICIONES[i] \in Nat
      BY <2>1, <2>2
    <3> QED BY <3>1 DEF Particion, Particiones
  <2> HIDE DEF p
  <2>5. s \in Seq(Particiones) /\ Len(s) = L /\ \A i \in 1 .. L : s[i] = p(i)
    <3>1. \A i \in 1 .. L : p(i) \in Particiones
      BY <2>4
    <3>2. s \in [1 .. L -> Particiones] /\ \A i \in 1 .. L : s[i] = p(i)
      BY <2>3, <3>1
    <3>3. s \in Seq(Particiones)
      BY <3>2, <2>1
    <3> QED BY <3>2, <3>3, <2>1
  <2>6. EnOrden(s)
    <3> SUFFICES ASSUME NEW i \in 1 .. L - 1 PROVE s[i + 1].base = s[i].base + s[i].tamanio
      BY <2>5 DEF EnOrden
    <3>1. i \in 1 .. L /\ i + 1 \in 1 .. L
      BY <2>1
    <3>2. s[i + 1].base = BaseFija[i + 1]
      BY <3>1, <2>4, <2>5
    <3>3. s[i].base = BaseFija[i] /\ s[i].tamanio = PARTICIONES[i]
      BY <3>1, <2>4, <2>5
    <3>4. BaseFija[i + 1] = BaseFija[i] + PARTICIONES[i]
      BY <3>1, <2>2
    <3> QED BY <3>2, <3>3, <3>4
  <2>7. EnMemoria(s)
    <3> SUFFICES ASSUME NEW i \in 1 .. L
                 PROVE  /\ s[i].tamanio >= 0 /\ s[i].base >= 0
                        /\ s[i].base + s[i].tamanio <= TAM_MEMORIA
      BY <2>5 DEF EnMemoria
    <3>1. i + 1 \in 1 .. L + 1 /\ i \in 1 .. L + 1
      BY <2>1
    <3>2. BaseFija[i] + PARTICIONES[i] <= TAM_MEMORIA
      BY <3>1, <2>2
    <3>3. BaseFija[i] \in Nat /\ PARTICIONES[i] \in Nat
      BY <3>1, <2>1, <2>2
    <3>4. s[i].base = BaseFija[i] /\ s[i].tamanio = PARTICIONES[i]
      BY <2>4, <2>5
    <3> QED BY <3>2, <3>3, <3>4
  <2>8. ASSUME NEW i \in 1 .. L
        PROVE  /\ s[i].PID = Nadie <=> ~s[i].esta_ocupado
               /\ s[i].tamanio >= 1 /\ s[i].limite = s[i].tamanio - 1
    <3>1. PARTICIONES[i] \in Nat \ {0}
      BY <2>1
    <3>2. s[i] = p(i)
      BY <2>5
    <3>3. /\ s[i].tamanio = PARTICIONES[i] /\ s[i].limite = PARTICIONES[i] - 1
          /\ s[i].PID = Nadie /\ s[i].esta_ocupado = FALSE
      BY <2>4, <3>2
    <3> QED BY <3>1, <3>3
  <2>9. Ordenada(s)
    BY <2>5, <2>6, <2>7, <2>8 DEF Ordenada
  <2>10. EnUso(s) = {}
    BY <2>4, <2>5 DEF EnUso
  <2> QED BY <2>9, <2>10, <1>2
<1>3. CASE ESQUEMA # "FIJAS"
  <2> DEFINE p == Particion(Nadie, 0, TAM_MEMORIA - 1, TAM_MEMORIA, FALSE)
  <2>1. s = <<p>>
    BY <1>1, <1>3 DEF iniciar_estructuras
  <2>2. /\ p \in Particiones /\ p.base = 0 /\ p.tamanio = TAM_MEMORIA
        /\ p.PID = Nadie /\ p.esta_ocupado = FALSE
    BY ConstantesDeMemoria DEF Particion, Particiones
  <2> HIDE DEF p
  <2>3. s \in Seq(Particiones) /\ Len(s) = 1 /\ s[1] = p
    BY <2>1, <2>2
  <2>4. Ordenada(s) /\ SinVecinas(s)
    BY <2>2, <2>3, <1>3, ConstantesDeMemoria DEF Ordenada, EnOrden, EnMemoria, SinVecinas
  <2>5. EnUso(s) = {}
    BY <2>2, <2>3 DEF EnUso
  <2> QED BY <2>4, <2>5
<1> QED BY <1>2, <1>3

\* Memory starts with nobody.
LEMMA IInvInicial == Init => IInv
<1> SUFFICES ASSUME Init PROVE IInv
  OBVIOUS
<1>1. Inv
  BY InvInicial
<1>2. /\ Ordenada(lista_particiones) /\ EnUso(lista_particiones) = {}
      /\ ESQUEMA = "DINAMICAS" => SinVecinas(lista_particiones)
  BY InicioOrdenado
<1>3. lista_procesos = <<>> /\ activos = {} /\ iniciando = FALSE /\ cabeza = 1
  BY DEF Init
<1>4. ConMemoria = {}
  BY <1>3 DEF ConMemoria
<1>5. Repartida
  BY <1>2, <1>3, <1>4 DEF Repartida, TieneNinguna, SinFicha
<1>6. TypeOK
  <2>1. lista_particiones \in Seq(Particiones) /\ lista_procesos \in Seq(Procesos)
    BY <1>2, <1>3 DEF Ordenada
  <2>2. cabeza \in 1 .. MaxPid + 1 /\ activos \subseteq 1 .. cabeza - 1
    BY <1>3, ConstantesDeMemoria
  <2>3. prox_tid \in [PIDs -> 1 .. MaxTid + 1]
    BY ConstantesDeMemoria DEF Init
  <2> QED BY <2>1, <2>2, <2>3, <1>3 DEF Init, TypeOK
<1> QED BY <1>1, <1>2, <1>3, <1>5, <1>6 DEF IInv

\* An admission, in the two lists.
LEMMA Admitida ==
  ASSUME IInv, cabeza \in PIDs, Entran(lista_particiones, tam[cabeza]) # {},
         crear_proceso(cabeza, tam[cabeza])
  PROVE  /\ Ordenada(lista_particiones')
         /\ ESQUEMA = "DINAMICAS" => SinVecinas(lista_particiones')
         /\ \E q \in Particiones, pr \in Procesos :
              /\ q.PID = cabeza /\ q.tamanio >= 1 /\ Libera(lista_particiones, q)
              /\ ESQUEMA = "DINAMICAS" => q.tamanio = tam[cabeza]
              /\ EnUso(lista_particiones') = EnUso(lista_particiones) \cup {q}
              /\ lista_procesos' = Append(lista_procesos, pr) /\ pr.PID = cabeza
              /\ (\A r \in EnUso(lista_particiones) : r.PID # cabeza) => Describe(pr, q)
<1> DEFINE s == lista_particiones
           t == tam[cabeza]
           u == asignar_particion(s, cabeza, t)
<1>1. t \in Nat \ {0}
  BY Datos
<1>2. /\ Ordenada(s) /\ ESQUEMA \in {"FIJAS", "DINAMICAS"}
      /\ ALGORITMO_BUSQUEDA \in {"FIRST", "BEST", "WORST"}
      /\ ESQUEMA = "DINAMICAS" => Bien(s) /\ SinVecinas(s)
  BY DEF IInv, Inv, TypeOK
<1>3. s' = u /\ lista_procesos' = Append(lista_procesos, Ubicar(u, cabeza, t))
  BY DEF crear_proceso
<1>4. Entran(s, t) # {}
  OBVIOUS
<1> HIDE DEF t
<1>5. /\ Ordenada(u)
      /\ ESQUEMA = "DINAMICAS" => SinVecinas(u)
      /\ \E q \in Particiones :
           /\ q.PID = cabeza /\ q.limite = q.tamanio - 1 /\ t <= q.tamanio
           /\ ESQUEMA = "DINAMICAS" => q.tamanio = t
           /\ Libera(s, q) /\ EnUso(u) = EnUso(s) \cup {q}
  BY <1>1, <1>2, <1>4, AsignarReparte
<1> HIDE DEF u
<1>6. PICK q \in Particiones :
        /\ q.PID = cabeza /\ q.limite = q.tamanio - 1 /\ t <= q.tamanio
        /\ ESQUEMA = "DINAMICAS" => q.tamanio = t
        /\ Libera(s, q) /\ EnUso(u) = EnUso(s) \cup {q}
  BY <1>5
<1>7. q.tamanio \in Int /\ q.base \in Int
  BY DEF Particiones
<1>8. PICK r \in EnUso(u) :
        r.PID = cabeza /\ Ubicar(u, cabeza, t) = Proceso(cabeza, r.base, r.tamanio - 1, t, {})
  BY <1>5, <1>6, UbicarEnUso
<1> DEFINE pr == Proceso(cabeza, r.base, r.tamanio - 1, t, {})
<1>9. r.base \in Int /\ r.tamanio \in Int
  <2>1. PICK i \in 1 .. Len(u) : u[i] = r
    BY <1>8, EstaEnUso
  <2> QED BY <2>1, <1>5, Campos DEF Ordenada
<1>10. /\ pr \in Procesos /\ pr.PID = cabeza /\ pr.base = r.base /\ pr.limite = r.tamanio - 1
       /\ pr.tamanio = t
  BY <1>1, <1>9 DEF Procesos, Proceso
<1>11. lista_procesos' = Append(lista_procesos, pr)
  BY <1>3, <1>8
<1> HIDE DEF pr
<1>12. (\A x \in EnUso(s) : x.PID # cabeza) => Describe(pr, q)
  <2> SUFFICES ASSUME \A x \in EnUso(s) : x.PID # cabeza PROVE Describe(pr, q)
    OBVIOUS
  <2>1. r = q
    BY <1>6, <1>8
  <2> QED BY <2>1, <1>6, <1>10 DEF Describe
<1>13. q.tamanio >= 1
  BY <1>1, <1>6, <1>7
<1>14. ESQUEMA = "DINAMICAS" => q.tamanio = tam[cabeza]
  BY <1>6 DEF t
<1> QED BY <1>3, <1>5, <1>6, <1>10, <1>11, <1>12, <1>13, <1>14

\* An end gives back the partition of the process, and only that one.
LEMMA Liberada ==
  ASSUME IInv, NEW p \in activos, liberar_particion(p)
  PROVE  /\ Ordenada(lista_particiones')
         /\ ESQUEMA = "DINAMICAS" => SinVecinas(lista_particiones')
         /\ \E r \in EnUso(lista_particiones) :
              /\ r.PID = p /\ Ficha(lista_procesos, r)
              /\ \A q \in EnUso(lista_particiones) : q.PID = p => q = r
              /\ EnUso(lista_particiones') = EnUso(lista_particiones) \ {r}
<1> DEFINE s == lista_particiones
           i == IndiceDe(s, p)
<1>1. p \in PIDs /\ script[p] /\ p \in ConMemoria
  BY Datos DEF ConMemoria
<1>2. PICK r \in EnUso(s) : /\ r.PID = p /\ Ficha(lista_procesos, r)
                            /\ \A q \in EnUso(s) : q.PID = p => q = r
  BY <1>1 DEF IInv, Repartida, TieneUna
<1>3. /\ Ordenada(s) /\ ESQUEMA \in {"FIJAS", "DINAMICAS"}
      /\ ESQUEMA = "DINAMICAS" => Bien(s) /\ SinVecinas(s)
  BY DEF IInv, Inv, TypeOK
<1>4. s' = Consolidar(Liberar(s, i), i)
  BY DEF liberar_particion
<1>5. i \in 1 .. Len(s) /\ s[i].PID = p
  BY <1>2, EstaEnUso DEF IndiceDe
<1> HIDE DEF i
<1>6. s[i].esta_ocupado
  BY <1>1, <1>3, <1>5 DEF Ordenada, Nadie, PIDs
<1>7. s[i] = r
  BY <1>2, <1>5, <1>6, EstaEnUso
<1>8. CASE ESQUEMA = "FIJAS"
  <2>1. Ordenada(Liberar(s, i)) /\ EnUso(Liberar(s, i)) = EnUso(s) \ {r}
    BY <1>3, <1>5, <1>6, <1>7, LiberarReparte
  <2>2. s' = Liberar(s, i)
    BY <1>4, <1>8 DEF Consolidar
  <2> QED BY <2>1, <2>2, <1>2, <1>8
<1>9. CASE ESQUEMA = "DINAMICAS"
  <2>1. LET u == Consolidar(Liberar(s, i), i)
        IN  Ordenada(u) /\ SinVecinas(u) /\ EnUso(u) = EnUso(s) \ {s[i]}
    BY <1>3, <1>5, <1>6, <1>9, ConsolidarReparte
  <2> QED BY <2>1, <1>2, <1>4, <1>7
<1> QED BY <1>3, <1>8, <1>9

\* The threads of a process change: the partitions and the entries say the same of all.
LEMMA HilosReparten ==
  ASSUME IInv, NEW p \in ConMemoria, script[p]
  PROVE  /\ HilosDe(p) \subseteq TIDs
         /\ \A H \in SUBSET TIDs : LET u == ConHilos(p, H)
            IN  /\ u \in Seq(Procesos)
                /\ \A s, q : TieneUna(s, lista_procesos, q) => TieneUna(s, u, q)
                /\ \A s, q : TieneNinguna(s, lista_procesos, q) => TieneNinguna(s, u, q)
<1>1. p \in PIDs /\ lista_procesos \in Seq(Procesos)
  BY Datos DEF IInv, TypeOK
<1>2. PICK r \in EnUso(lista_particiones) : r.PID = p /\ Ficha(lista_procesos, r)
  BY <1>1 DEF IInv, Repartida, TieneUna
<1>3. \A H \in SUBSET TIDs : LET u == ConHilos(r.PID, H)
        IN  /\ u \in Seq(Procesos) /\ HilosDe(r.PID) \subseteq TIDs
            /\ \A q : Ficha(lista_procesos, q) => Ficha(u, q)
            /\ \A q : SinFicha(lista_procesos, q) => SinFicha(u, q)
  BY <1>1, <1>2, FichaConHilos
<1>4. {} \in SUBSET TIDs
  OBVIOUS
<1>5. HilosDe(p) \subseteq TIDs
  BY <1>2, <1>3, <1>4
<1>6. ASSUME NEW H \in SUBSET TIDs
      PROVE  LET u == ConHilos(p, H)
             IN  /\ u \in Seq(Procesos)
                 /\ \A s, q : TieneUna(s, lista_procesos, q) => TieneUna(s, u, q)
                 /\ \A s, q : TieneNinguna(s, lista_procesos, q) => TieneNinguna(s, u, q)
  <2> DEFINE u == ConHilos(p, H)
  <2>1. /\ u \in Seq(Procesos)
        /\ \A q : Ficha(lista_procesos, q) => Ficha(u, q)
        /\ \A q : SinFicha(lista_procesos, q) => SinFicha(u, q)
    BY <1>2, <1>3
  <2> HIDE DEF u
  <2>2. \A s, q : TieneUna(s, lista_procesos, q) => TieneUna(s, u, q)
    BY <2>1 DEF TieneUna
  <2>3. \A s, q : TieneNinguna(s, lista_procesos, q) => TieneNinguna(s, u, q)
    BY <2>1 DEF TieneNinguna
  <2> QED BY <2>1, <2>2, <2>3 DEF u
<1> QED BY <1>5, <1>6

\* The requests about threads leave everybody with what they had.
LEMMA SiguenRepartidas ==
  ASSUME IInv, lista_particiones' = lista_particiones, script' = script,
         \A x \in PIDs : script[x] => (x \in ConMemoria' <=> x \in ConMemoria),
         \/ lista_procesos' = lista_procesos
         \/ \E p \in ConMemoria, H \in SUBSET TIDs :
              script[p] /\ lista_procesos' = ConHilos(p, H)
  PROVE  lista_procesos' \in Seq(Procesos) /\ Repartida'
<1> DEFINE s == lista_particiones
           l == lista_procesos
           u == lista_procesos'
<1>1. l \in Seq(Procesos) /\ Repartida
  BY DEF IInv, TypeOK
<1>2. /\ u \in Seq(Procesos)
      /\ \A q : TieneUna(s, l, q) => TieneUna(s, u, q)
      /\ \A q : TieneNinguna(s, l, q) => TieneNinguna(s, u, q)
  <2>1. CASE u = l
    BY <2>1, <1>1
  <2>2. CASE \E p \in ConMemoria, H \in SUBSET TIDs : script[p] /\ u = ConHilos(p, H)
    <3>1. PICK p \in ConMemoria, H \in SUBSET TIDs : script[p] /\ u = ConHilos(p, H)
      BY <2>2
    <3> QED BY <3>1, HilosReparten
  <2> QED BY <2>1, <2>2
<1>3. ASSUME NEW x \in PIDs, script[x]
      PROVE  IF x \in ConMemoria' THEN TieneUna(s, u, x) ELSE TieneNinguna(s, u, x)
  BY <1>1, <1>2, <1>3 DEF Repartida
<1> QED BY <1>2, <1>3 DEF Repartida

\* An admission gives cabeza one partition, or one more when its script is missing.
LEMMA AdmitirReparte ==
  ASSUME IInv, cabeza \in PIDs, ~iniciando, iniciando', UNCHANGED <<cabeza, activos, script>>,
         Entran(lista_particiones, tam[cabeza]) # {}, crear_proceso(cabeza, tam[cabeza])
  PROVE  /\ Ordenada(lista_particiones')
         /\ ESQUEMA = "DINAMICAS" => SinVecinas(lista_particiones')
         /\ lista_procesos' \in Seq(Procesos) /\ Repartida'
<1> DEFINE s == lista_particiones
           l == lista_procesos
           s1 == lista_particiones'
           l1 == lista_procesos'
<1>1. /\ Ordenada(s1)
      /\ ESQUEMA = "DINAMICAS" => SinVecinas(s1)
  BY Admitida
<1>2. PICK q \in Particiones, pr \in Procesos :
        /\ q.PID = cabeza /\ EnUso(s1) = EnUso(s) \cup {q}
        /\ l1 = Append(l, pr) /\ pr.PID = cabeza
        /\ (\A r \in EnUso(s) : r.PID # cabeza) => Describe(pr, q)
  BY Admitida
<1>3. l \in Seq(Procesos) /\ Repartida
  BY DEF IInv, TypeOK
<1>4. /\ l1 \in Seq(Procesos)
      /\ \A r : SinFicha(l, r.PID) /\ Describe(pr, r) => Ficha(l1, r)
      /\ \A r : Ficha(l, r) /\ r.PID # pr.PID => Ficha(l1, r)
      /\ \A p : SinFicha(l, p) /\ p # pr.PID => SinFicha(l1, p)
  BY <1>2, <1>3, FichaNueva
<1>5. ConMemoria = activos /\ ConMemoria' = activos \cup {cabeza} /\ cabeza \notin activos
  BY Datos DEF ConMemoria
<1> HIDE DEF s, l, s1, l1
<1>6. ASSUME NEW x \in PIDs, script[x]
      PROVE  IF x \in ConMemoria' THEN TieneUna(s1, l1, x) ELSE TieneNinguna(s1, l1, x)
  <2>1. IF x \in ConMemoria THEN TieneUna(s, l, x) ELSE TieneNinguna(s, l, x)
    BY <1>3, <1>6 DEF Repartida, s, l
  <2>2. CASE x = cabeza
    <3>1. TieneNinguna(s, l, x)
      BY <2>1, <2>2, <1>5
    <3>2. Describe(pr, q) /\ SinFicha(l, q.PID)
      BY <3>1, <2>2, <1>2 DEF TieneNinguna
    <3>3. Ficha(l1, q) /\ q \in EnUso(s1) /\ q.PID = x
      BY <3>2, <2>2, <1>2, <1>4
    <3>4. \A r \in EnUso(s1) : r.PID = x => r = q
      BY <3>1, <1>2 DEF TieneNinguna
    <3> QED BY <3>3, <3>4, <2>2, <1>5 DEF TieneUna
  <2>3. CASE x # cabeza /\ x \in activos
    <3>1. PICK r \in EnUso(s) : /\ r.PID = x /\ Ficha(l, r)
                                /\ \A y \in EnUso(s) : y.PID = x => y = r
      BY <2>1, <2>3, <1>5 DEF TieneUna
    <3>2. Ficha(l1, r) /\ r \in EnUso(s1)
      BY <3>1, <2>3, <1>2, <1>4
    <3>3. \A y \in EnUso(s1) : y.PID = x => y = r
      BY <3>1, <2>3, <1>2
    <3> QED BY <3>1, <3>2, <3>3, <2>3, <1>5 DEF TieneUna
  <2>4. CASE x # cabeza /\ x \notin activos
    <3>1. TieneNinguna(s, l, x)
      BY <2>1, <2>4, <1>5
    <3>2. TieneNinguna(s1, l1, x)
      BY <3>1, <2>4, <1>2, <1>4 DEF TieneNinguna
    <3> QED BY <3>2, <2>4, <1>5
  <2> QED BY <2>2, <2>3, <2>4
<1>7. Repartida'
  BY <1>6 DEF Repartida, s1, l1
<1> QED BY <1>1, <1>4, <1>7 DEF l1, s1

\* An end leaves the process with none, and the others with theirs.
LEMMA LiberarAUno ==
  ASSUME IInv, NEW p \in activos, finalizar_proceso(p), activos' = activos \ {p},
         UNCHANGED <<cabeza, iniciando, script>>
  PROVE  /\ Ordenada(lista_particiones')
         /\ ESQUEMA = "DINAMICAS" => SinVecinas(lista_particiones')
         /\ lista_procesos' \in Seq(Procesos) /\ Repartida'
<1> DEFINE s == lista_particiones
           l == lista_procesos
           s1 == lista_particiones'
           l1 == lista_procesos'
<1>0. liberar_particion(p) /\ l1 = SinProceso(p)
  BY DEF finalizar_proceso
<1>1. /\ Ordenada(s1)
      /\ ESQUEMA = "DINAMICAS" => SinVecinas(s1)
  BY <1>0, Liberada
<1>2. PICK r \in EnUso(s) : /\ r.PID = p /\ Ficha(l, r)
                            /\ \A q \in EnUso(s) : q.PID = p => q = r
                            /\ EnUso(s1) = EnUso(s) \ {r}
  BY <1>0, Liberada
<1>3. l \in Seq(Procesos) /\ Repartida
  BY DEF IInv, TypeOK
<1>4. /\ l1 \in Seq(Procesos) /\ SinFicha(l1, p)
      /\ \A q : Ficha(l, q) /\ q.PID # p => Ficha(l1, q)
      /\ \A x : SinFicha(l, x) => SinFicha(l1, x)
  BY <1>0, <1>2, <1>3, FichaFuera
<1>5. ConMemoria' = ConMemoria \ {p}
  BY Datos DEF ConMemoria
<1> HIDE DEF s, l, s1, l1
<1>6. ASSUME NEW x \in PIDs, script[x]
      PROVE  IF x \in ConMemoria' THEN TieneUna(s1, l1, x) ELSE TieneNinguna(s1, l1, x)
  <2>1. IF x \in ConMemoria THEN TieneUna(s, l, x) ELSE TieneNinguna(s, l, x)
    BY <1>3, <1>6 DEF Repartida, s, l
  <2>2. CASE x = p
    BY <2>2, <1>2, <1>4, <1>5 DEF TieneNinguna
  <2>3. CASE x # p /\ x \in ConMemoria
    <3>1. PICK y \in EnUso(s) : /\ y.PID = x /\ Ficha(l, y)
                                /\ \A q \in EnUso(s) : q.PID = x => q = y
      BY <2>1, <2>3 DEF TieneUna
    <3> QED BY <3>1, <2>3, <1>2, <1>4, <1>5 DEF TieneUna
  <2>4. CASE x # p /\ x \notin ConMemoria
    BY <2>1, <2>4, <1>2, <1>4, <1>5 DEF TieneNinguna
  <2> QED BY <2>2, <2>3, <2>4
<1>7. Repartida'
  BY <1>6 DEF Repartida, s1, l1
<1> QED BY <1>1, <1>4, <1>7 DEF s1, l1

\* Each request keeps the invariant.
LEMMA IInvPaso == IInv /\ [Next]_vars => IInv'
<1> SUFFICES ASSUME IInv, [Next]_vars PROVE IInv'
  OBVIOUS
<1>1. Inv'
  BY InvPaso DEF IInv
<1>2. memoria' = "activa"
  BY <1>1 DEF Inv
<1>3. TypeOK /\ MaxPid \in Nat /\ MaxTid \in Nat
  BY ConstantesDeMemoria DEF IInv
<1>4. SUFFICES /\ TypeOK' /\ Ordenada(lista_particiones')
               /\ ESQUEMA' = "DINAMICAS" => SinVecinas(lista_particiones')
               /\ \A p \in activos' : script'[p]
               /\ Repartida'
  <2>1. UNCHANGED fijo
    BY DEF Next, CrearProceso, IniciarHiloCero, IniciarHilo, FinalizarHilo, FinalizarProceso, vars
  <2>2. ESQUEMA' = ESQUEMA
    BY <2>1 DEF fijo
  <2> QED BY <1>1, <2>2 DEF IInv, Ordenada, SinVecinas
<1>5. /\ Ordenada(lista_particiones)
      /\ ESQUEMA = "DINAMICAS" => SinVecinas(lista_particiones)
      /\ \A p \in activos : script[p]
      /\ Repartida
  BY DEF IInv
<1>6. CASE CrearProceso
  <2>1. /\ UNCHANGED <<fijo, memoria, cabeza, activos, prox_tid>> /\ cabeza \in PIDs /\ ~iniciando
    BY <1>6 DEF CrearProceso, Libre
  <2>2. UNCHANGED <<ESQUEMA, ALGORITMO_BUSQUEDA, tam, script>>
    BY <2>1 DEF fijo
  <2>3. CASE Entran(lista_particiones, tam[cabeza]) # {} /\ crear_proceso(cabeza, tam[cabeza])
             /\ iniciando' = TRUE
    <3>1. /\ Ordenada(lista_particiones')
          /\ ESQUEMA = "DINAMICAS" => SinVecinas(lista_particiones')
          /\ lista_procesos' \in Seq(Procesos) /\ Repartida'
      BY <2>1, <2>2, <2>3, AdmitirReparte
    <3>2. TypeOK'
      BY <1>2, <1>3, <2>1, <2>2, <2>3, <3>1 DEF TypeOK, Ordenada
    <3> QED BY <1>5, <2>1, <2>2, <3>1, <3>2
  <2>4. CASE UNCHANGED <<lista_particiones, lista_procesos, iniciando>>
    BY <1>3, <1>5, <2>1, <2>2, <2>4 DEF TypeOK, Repartida, ConMemoria
  <2> QED BY <1>6, <2>3, <2>4 DEF CrearProceso
<1>7. CASE IniciarHiloCero
  <2>1. /\ UNCHANGED <<fijo, lista_particiones, memoria, prox_tid>>
        /\ iniciando /\ iniciando' = FALSE /\ cabeza \in PIDs
    BY <1>3, <1>7 DEF IniciarHiloCero, TypeOK
  <2>2. UNCHANGED <<ESQUEMA, ALGORITMO_BUSQUEDA, tam, script>>
    BY <2>1 DEF fijo
  <2>3. ConMemoria = activos \cup {cabeza} /\ ConMemoria' = activos'
    BY <2>1 DEF ConMemoria
  <2>4. CASE /\ script[cabeza]
             /\ lista_procesos' = ConHilos(cabeza, HilosDe(cabeza) \cup {0})
             /\ activos' = activos \cup {cabeza}
             /\ cabeza' = cabeza + 1
    <3>1. cabeza \in ConMemoria
      BY <2>3
    <3>2. HilosDe(cabeza) \cup {0} \in SUBSET TIDs
      BY <2>4, <3>1, HilosReparten, Datos
    <3>3. lista_procesos' \in Seq(Procesos) /\ Repartida'
      BY <2>1, <2>2, <2>3, <2>4, <3>1, <3>2, SiguenRepartidas
    <3>4. cabeza' \in 1 .. MaxPid + 1 /\ activos' \subseteq 1 .. cabeza' - 1
      <4>1. cabeza \in 1 .. MaxPid /\ activos \subseteq 1 .. cabeza - 1
        BY <1>3, <2>1 DEF TypeOK, PIDs
      <4>2. cabeza' - 1 = cabeza /\ 1 .. cabeza - 1 \subseteq 1 .. cabeza /\ cabeza \in 1 .. cabeza
        BY <4>1, <2>4, <1>3
      <4> QED BY <4>1, <4>2, <2>4, <1>3
    <3>5. TypeOK'
      BY <1>2, <1>3, <2>1, <2>2, <3>3, <3>4 DEF TypeOK
    <3>6. \A p \in activos' : script'[p]
      BY <1>5, <2>2, <2>4
    <3> QED BY <1>5, <2>1, <2>2, <3>3, <3>5, <3>6
  <2>5. CASE ~script[cabeza] /\ UNCHANGED <<lista_procesos, activos, cabeza>>
    <3>1. \A x \in PIDs : script[x] => (x \in ConMemoria' <=> x \in ConMemoria)
      BY <2>3, <2>5
    <3>2. lista_procesos' \in Seq(Procesos) /\ Repartida'
      BY <2>1, <2>2, <2>5, <3>1, SiguenRepartidas
    <3>3. TypeOK'
      BY <1>2, <1>3, <2>1, <2>2, <2>5, <3>2 DEF TypeOK
    <3> QED BY <1>5, <2>1, <2>2, <2>5, <3>2, <3>3
  <2> QED BY <1>7, <2>4, <2>5 DEF IniciarHiloCero
<1>8. CASE IniciarHilo
  <2>1. UNCHANGED <<fijo, lista_particiones, memoria, cabeza, iniciando, activos>>
    BY <1>8 DEF IniciarHilo
  <2>2. UNCHANGED <<ESQUEMA, ALGORITMO_BUSQUEDA, tam, script>> /\ ConMemoria' = ConMemoria
    BY <2>1 DEF fijo, ConMemoria
  <2>3. PICK p \in activos :
          /\ prox_tid[p] \in TIDs
          /\ prox_tid' = [prox_tid EXCEPT ![p] = @ + 1]
          /\ \/ lista_procesos' = ConHilos(p, HilosDe(p) \cup {prox_tid[p]})
             \/ UNCHANGED lista_procesos
    BY <1>8 DEF IniciarHilo
  <2>4. p \in ConMemoria /\ script[p] /\ p \in PIDs
    BY Datos DEF ConMemoria
  <2>5. HilosDe(p) \cup {prox_tid[p]} \in SUBSET TIDs
    BY <2>3, <2>4, HilosReparten
  <2>6. lista_procesos' \in Seq(Procesos) /\ Repartida'
    BY <2>1, <2>2, <2>3, <2>4, <2>5, SiguenRepartidas
  <2>7. prox_tid' \in [PIDs -> 1 .. MaxTid + 1]
    BY <1>3, <2>3, <2>4 DEF TypeOK, TIDs
  <2>8. TypeOK'
    BY <1>2, <1>3, <2>1, <2>2, <2>6, <2>7 DEF TypeOK
  <2> QED BY <1>5, <2>1, <2>2, <2>6, <2>8
<1>9. CASE FinalizarHilo
  <2>1. UNCHANGED <<fijo, lista_particiones, memoria, pedidos>>
    BY <1>9 DEF FinalizarHilo
  <2>2. /\ UNCHANGED <<ESQUEMA, ALGORITMO_BUSQUEDA, tam, script>>
        /\ UNCHANGED <<cabeza, iniciando, activos, prox_tid>> /\ ConMemoria' = ConMemoria
    BY <2>1 DEF fijo, pedidos, ConMemoria
  <2>3. PICK p \in activos : \E t \in HilosDe(p) : lista_procesos' = ConHilos(p, HilosDe(p) \ {t})
    BY <1>9 DEF FinalizarHilo
  <2>4. p \in ConMemoria /\ script[p]
    BY Datos DEF ConMemoria
  <2>5. \A t : HilosDe(p) \ {t} \in SUBSET TIDs
    BY <2>4, HilosReparten
  <2>6. lista_procesos' \in Seq(Procesos) /\ Repartida'
    BY <2>1, <2>2, <2>3, <2>4, <2>5, SiguenRepartidas
  <2>7. TypeOK'
    BY <1>2, <1>3, <2>1, <2>2, <2>6 DEF TypeOK
  <2> QED BY <1>5, <2>1, <2>2, <2>6, <2>7
<1>10. CASE FinalizarProceso
  <2>1. UNCHANGED <<fijo, cabeza, iniciando, prox_tid>>
    BY <1>10 DEF FinalizarProceso
  <2>2. UNCHANGED <<ESQUEMA, ALGORITMO_BUSQUEDA, tam, script>>
    BY <2>1 DEF fijo
  <2>3. PICK p \in activos : finalizar_proceso(p) /\ activos' = activos \ {p}
    BY <1>10 DEF FinalizarProceso
  <2>4. /\ Ordenada(lista_particiones')
        /\ ESQUEMA = "DINAMICAS" => SinVecinas(lista_particiones')
        /\ lista_procesos' \in Seq(Procesos) /\ Repartida'
    BY <2>1, <2>2, <2>3, LiberarAUno
  <2>5. TypeOK'
    BY <1>2, <1>3, <2>1, <2>2, <2>3, <2>4 DEF TypeOK, Ordenada
  <2> QED BY <1>5, <2>2, <2>3, <2>4, <2>5
<1>11. CASE UNCHANGED vars
  BY <1>3, <1>5, <1>11 DEF vars, fijo, pedidos, TypeOK, Repartida, ConMemoria
<1> QED BY <1>6, <1>7, <1>8, <1>9, <1>10, <1>11 DEF Next

\* The invariant holds for ever.
THEOREM Reparto == Spec => []IInv
<1> QED BY IInvInicial, IInvPaso, PTL DEF Spec

-----------------------------------------------------------------------------
(* What the invariant says of the processes *)

\* The lists and what the kernel asked for keep their types.
THEOREM Tipos == Spec => []TypeOK
<1>1. IInv => TypeOK
  BY DEF IInv
<1> QED BY <1>1, Reparto, PTL

LEMMA UnaParticionVale ==
  ASSUME IInv
  PROVE  UnaParticion
<1> SUFFICES ASSUME NEW p \in activos
             PROVE  LET suyas == {i \in DOMAIN lista_particiones : lista_particiones[i].PID = p}
                        pr    == lista_procesos[buscar_proceso(p)]
                    IN  /\ Cardinality(suyas) = 1
                        /\ \A i \in suyas :
                             /\ lista_particiones[i].esta_ocupado
                             /\ pr.base = lista_particiones[i].base
                             /\ pr.limite = lista_particiones[i].tamanio - 1
                             /\ pr.tamanio <= lista_particiones[i].tamanio
  BY DEF UnaParticion
<1> DEFINE s == lista_particiones
           l == lista_procesos
           suyas == {i \in DOMAIN s : s[i].PID = p}
           n == buscar_proceso(p)
<1>1. p \in PIDs /\ p \in ConMemoria /\ script[p] /\ Ordenada(s)
  BY Datos DEF ConMemoria, IInv
<1>2. PICK r \in EnUso(s) : /\ r.PID = p /\ Ficha(l, r)
                            /\ \A q \in EnUso(s) : q.PID = p => q = r
  BY <1>1 DEF IInv, Repartida, TieneUna
<1>3. PICK i \in 1 .. Len(s) : s[i].esta_ocupado /\ s[i] = r
  BY <1>2, EstaEnUso
<1>4. DOMAIN s = 1 .. Len(s)
  BY <1>1 DEF Ordenada
<1>5. ASSUME NEW k \in 1 .. Len(s), s[k].PID = p PROVE k = i
  <2>1. s[k].esta_ocupado
    BY <1>1, <1>5 DEF Ordenada, Nadie, PIDs
  <2>2. s[k] = s[i]
    BY <2>1, <1>2, <1>3, <1>5, EstaEnUso
  <2> QED BY <2>2, <1>1, <1>3, UnaPosicion
<1>6. suyas = {i}
  BY <1>2, <1>3, <1>4, <1>5
<1>7. PICK k \in 1 .. Len(l) : Describe(l[k], r) /\ \A m \in 1 .. Len(l) : l[m].PID = p => m = k
  BY <1>2 DEF Ficha
<1>8. \A m \in 1 .. Len(l) : l[m].PID = p => k <= m
  BY <1>7
<1>9. n \in 1 .. Len(l) /\ l[n].PID = p
  BY <1>2, <1>7, <1>8 DEF buscar_proceso, Describe
<1>10. n = k
  BY <1>7, <1>9
<1>11. Describe(l[n], s[i])
  BY <1>3, <1>7, <1>10
<1>12. Cardinality(suyas) = 1
  BY <1>6, FS_Singleton
<1> HIDE DEF n
<1>13. \A j \in suyas : /\ s[j].esta_ocupado /\ l[n].base = s[j].base
                        /\ l[n].limite = s[j].tamanio - 1 /\ l[n].tamanio <= s[j].tamanio
  BY <1>3, <1>6, <1>11 DEF Describe
<1> QED BY <1>12, <1>13 DEF n

\* A process that runs has one partition, and the base and the limit the CPU gets are
\* those of that partition (obtenerCDE).
THEOREM UnaPorProceso == Spec => []UnaParticion
<1>1. IInv => UnaParticion
  BY UnaParticionVale
<1> QED BY <1>1, Reparto, PTL

\* With dynamic partitions a refusal is never the fault of a merge that was forgotten:
\* no run of free bytes is long enough (liberar_particion_dinamica).
THEOREM RechazosJustos == Spec => []RechazoJusto
<1>1. IInv => RechazoJusto
  <2> SUFFICES ASSUME IInv, ESQUEMA = "DINAMICAS", NEW t \in Tamanios,
                      Entran(lista_particiones, t) = {}, NEW a \in 0 .. TAM_MEMORIA - t
               PROVE  (a .. a + t - 1) \cap Ocupados # {}
    BY DEF RechazoJusto
  <2> DEFINE s == lista_particiones
  <2>1. Bien(s) /\ Ordenada(s) /\ SinVecinas(s) /\ s \in Seq(Particiones)
    BY DEF IInv, Inv, Ordenada
  <2>2. t \in Nat /\ t >= 1 /\ TAM_MEMORIA \in Nat
    BY ConstantesDeMemoria
  <2>3. a \in 0 .. TAM_MEMORIA - 1 /\ a \in Int /\ a + t <= TAM_MEMORIA
    BY <2>2
  <2>4. PICK i \in 1 .. Len(s) : s[i].base <= a /\ a < s[i].base + s[i].tamanio
    BY <2>1, <2>3, Cubren
  <2>5. s[i].base \in Int /\ s[i].tamanio \in Int
    BY <2>1, Campos
  <2>6. DOMAIN s = 1 .. Len(s) /\ Len(s) \in Nat
    BY <2>1
  <2>7. ASSUME NEW k \in 1 .. Len(s), s[k].esta_ocupado, NEW x \in Int,
               s[k].base <= x, x < s[k].base + s[k].tamanio, a <= x, x < a + t
        PROVE  (a .. a + t - 1) \cap Ocupados # {}
    <3>1. s[k].base \in Int /\ s[k].tamanio \in Int
      BY <2>1, Campos
    <3>2. x \in BytesDe(k)
      BY <3>1, <2>7 DEF BytesDe
    <3>3. x \in Ocupados
      BY <3>2, <2>6, <2>7 DEF Ocupados
    <3>4. x \in a .. a + t - 1
      BY <2>2, <2>3, <2>7
    <3> QED BY <3>3, <3>4
  <2>8. CASE s[i].esta_ocupado
    BY <2>2, <2>3, <2>4, <2>7, <2>8
  <2>9. CASE ~s[i].esta_ocupado
    <3> DEFINE e == s[i].base + s[i].tamanio
    <3>1. s[i].tamanio < t
      BY <2>2, <2>5, <2>9 DEF Entran
    <3>2. e \in Int /\ a <= e /\ e < a + t /\ e < TAM_MEMORIA
      BY <3>1, <2>2, <2>3, <2>4, <2>5
    <3>3. i # Len(s)
      BY <3>2, <2>1, <2>2 DEF Bien
    <3>4. i \in 1 .. Len(s) - 1 /\ i + 1 \in 1 .. Len(s)
      <4>1. i \in 1 .. Len(s)
        BY <2>4
      <4> DEFINE L == Len(s)
      <4>2. i \in 1 .. L /\ i # L /\ L \in Nat
        BY <4>1, <3>3, <2>6
      <4> HIDE DEF L
      <4>3. i \in 1 .. L - 1 /\ i + 1 \in 1 .. L
        BY <4>2
      <4> QED BY <4>3 DEF L
    <3>5. s[i + 1].esta_ocupado
      BY <3>4, <2>1, <2>9 DEF SinVecinas
    <3>6. s[i + 1].base = e
      BY <3>4, <2>1 DEF Bien, EnOrden
    <3> HIDE DEF e
    <3>7. s[i + 1].tamanio >= 1 /\ s[i + 1].tamanio \in Int
      BY <3>4, <3>5, <2>1, Campos DEF Ordenada
    <3>8. s[i + 1].base <= e /\ e < s[i + 1].base + s[i + 1].tamanio
      BY <3>2, <3>6, <3>7
    <3> QED BY <3>2, <3>4, <3>5, <3>8, <2>7
  <2> QED BY <2>8, <2>9
<1> QED BY <1>1, Reparto, PTL

\* When no process runs and none is starting, all the memory is free again, but for what
\* the processes whose first script is missing were given (finalizar_proceso).
THEOREM NadaSePierde == Spec => []MemoriaDevuelta
<1>1. IInv => MemoriaDevuelta
  <2> SUFFICES ASSUME IInv, activos = {}, ~iniciando
               PROVE  /\ \A n \in DOMAIN lista_procesos : ~script[lista_procesos[n].PID]
                      /\ \A i \in DOMAIN lista_particiones :
                           lista_particiones[i].esta_ocupado => ~script[lista_particiones[i].PID]
    BY DEF MemoriaDevuelta
  <2> DEFINE s == lista_particiones
             l == lista_procesos
  <2>1. l \in Seq(Procesos) /\ Ordenada(s) /\ s \in Seq(Particiones)
    BY DEF IInv, TypeOK, Ordenada
  <2>2. \A p \in PIDs : script[p] => TieneNinguna(s, l, p)
    BY DEF IInv, Repartida, ConMemoria
  <2>3. ASSUME NEW n \in DOMAIN l PROVE ~script[l[n].PID]
    <3>1. n \in 1 .. Len(l) /\ l[n] \in Procesos
      BY <2>1
    <3>2. l[n].PID \in PIDs
      BY <3>1 DEF Procesos
    <3> QED BY <3>1, <3>2, <2>2 DEF TieneNinguna, SinFicha
  <2>4. ASSUME NEW i \in DOMAIN s, s[i].esta_ocupado PROVE ~script[s[i].PID]
    <3>1. i \in 1 .. Len(s)
      BY <2>1
    <3>2. s[i].PID \in PIDs
      BY <3>1, <2>1, <2>4, Campos DEF Ordenada
    <3>3. s[i] \in EnUso(s)
      BY <3>1, <2>4, EstaEnUso
    <3> QED BY <3>2, <3>3, <2>2 DEF TieneNinguna
  <2> QED BY <2>3, <2>4
<1> QED BY <1>1, Reparto, PTL

-----------------------------------------------------------------------------
(* Memory implements Reserva *)

\* The bytes of p, from the partitions in use.
Tramos(E, p) == {x \in Int : \E r \in E : r.PID = p /\ r.base <= x /\ x < r.base + r.tamanio}

\* The bytes that the list s gives to p, as BytesDelProceso says.
BytesEn(s, p) ==
  UNION {s[i].base .. s[i].base + s[i].tamanio - 1 : i \in {n \in DOMAIN s : s[n].PID = p}}
\* They are those of its partitions in use.
LEMMA BytesSonTramos ==
  ASSUME NEW s \in Seq(Particiones), SinPIDLibre(s), NEW p \in PIDs
  PROVE  BytesEn(s, p) = Tramos(EnUso(s), p)
<1> DEFINE B(i) == s[i].base .. s[i].base + s[i].tamanio - 1
<1>1. DOMAIN s = 1 .. Len(s)
  OBVIOUS
<1>2. ASSUME NEW i \in 1 .. Len(s), NEW x
      PROVE  x \in B(i) <=> x \in Int /\ s[i].base <= x /\ x < s[i].base + s[i].tamanio
  <2>1. s[i].base \in Int /\ s[i].tamanio \in Int
    BY Campos
  <2> QED BY <2>1
<1>3. \A i \in 1 .. Len(s) : s[i].PID = p => s[i].esta_ocupado
  BY DEF SinPIDLibre, Nadie, PIDs
<1>4. BytesEn(s, p) = UNION {B(i) : i \in {n \in DOMAIN s : s[n].PID = p}}
  BY DEF BytesEn
<1> HIDE DEF B
<1>5. ASSUME NEW x \in BytesEn(s, p) PROVE x \in Tramos(EnUso(s), p)
  <2>1. PICK i \in 1 .. Len(s) : s[i].PID = p /\ x \in B(i)
    BY <1>1, <1>4
  <2>2. s[i] \in EnUso(s)
    BY <2>1, <1>3, EstaEnUso
  <2> QED BY <2>1, <2>2, <1>2 DEF Tramos
<1>6. ASSUME NEW x \in Tramos(EnUso(s), p) PROVE x \in BytesEn(s, p)
  <2>1. PICK r \in EnUso(s) : x \in Int /\ r.PID = p /\ r.base <= x /\ x < r.base + r.tamanio
    BY DEF Tramos
  <2>2. PICK i \in 1 .. Len(s) : s[i] = r
    BY <2>1, EstaEnUso
  <2>3. x \in B(i)
    BY <2>1, <2>2, <1>2
  <2> QED BY <2>1, <2>2, <2>3, <1>1, <1>4
<1> QED BY <1>5, <1>6

\* And they are bytes of the memory.
LEMMA TramosDentro ==
  ASSUME NEW s \in Seq(Particiones), EnMemoria(s), NEW p
  PROVE  Tramos(EnUso(s), p) \subseteq 0 .. TAM_MEMORIA - 1
<1> SUFFICES ASSUME NEW x \in Tramos(EnUso(s), p) PROVE x \in 0 .. TAM_MEMORIA - 1
  OBVIOUS
<1>1. PICK r \in EnUso(s) : x \in Int /\ r.base <= x /\ x < r.base + r.tamanio
  BY DEF Tramos
<1>2. PICK i \in 1 .. Len(s) : s[i] = r
  BY EstaEnUso
<1>3. r.base \in Int /\ r.tamanio \in Int /\ r.base >= 0 /\ r.base + r.tamanio <= TAM_MEMORIA
  BY <1>2, Campos DEF EnMemoria
<1> QED BY <1>1, <1>3, ConstantesDeMemoria

\* One more partition that nobody had reserves its bytes.
LEMMA UnoMasReserva ==
  ASSUME NEW s, NEW q \in Particiones, Libera(s, q), q.tamanio >= 1
  PROVE  LET E == EnUso(s) \cup {q}
             nuevos == Tramos(E, q.PID) \ Tramos(EnUso(s), q.PID)
         IN  /\ Tramos(EnUso(s), q.PID) \subseteq Tramos(E, q.PID)
             /\ \A x \in nuevos : \A o : x \notin Tramos(EnUso(s), o)
             /\ nuevos # {} /\ \A x, y \in nuevos : x .. y \subseteq nuevos
             /\ \A o : o # q.PID => Tramos(E, o) = Tramos(EnUso(s), o)
<1> DEFINE T == {x \in Int : q.base <= x /\ x < q.base + q.tamanio}
           E == EnUso(s) \cup {q}
<1>1. q.base \in Int /\ q.tamanio \in Int
  BY DEF Particiones
<1>2. \A x \in T : \A o : x \notin Tramos(EnUso(s), o)
  BY DEF Tramos, Libera
<1>3. Tramos(E, q.PID) = Tramos(EnUso(s), q.PID) \cup T
  BY DEF Tramos
<1>4. \A o : o # q.PID => Tramos(E, o) = Tramos(EnUso(s), o)
  BY DEF Tramos
<1>5. Tramos(E, q.PID) \ Tramos(EnUso(s), q.PID) = T
  BY <1>2, <1>3
<1>6. q.base \in T /\ \A x, y \in T : x .. y \subseteq T
  BY <1>1
<1> HIDE DEF T
<1> QED BY <1>2, <1>3, <1>4, <1>5, <1>6

\* What Reserva sees of memory.
Ocupa == [p \in PIDs |-> BytesDelProceso(p)]

\* Each request is one step of the allocator, or none.
LEMMA PasoDeReserva ==
  ASSUME IInv, IInv', [Next]_vars
  PROVE  Asignador!Next \/ UNCHANGED Ocupa
<1> DEFINE s == lista_particiones
           s1 == lista_particiones'
<1>1. s \in Seq(Particiones) /\ SinPIDLibre(s) /\ EnMemoria(s)
  BY DEF IInv, Ordenada, SinPIDLibre
<1>2. s1 \in Seq(Particiones) /\ SinPIDLibre(s1) /\ EnMemoria(s1)
  <2>1. (Ordenada(s))'
    BY DEF IInv
  <2> QED BY <2>1 DEF Ordenada, SinPIDLibre
<1>3. \A p \in PIDs : /\ BytesDelProceso(p) = BytesEn(s, p)
                      /\ BytesDelProceso(p)' = BytesEn(s1, p)
  BY DEF BytesDelProceso, BytesDe, BytesEn
<1>4. \A p \in PIDs : Ocupa[p] = Tramos(EnUso(s), p) /\ Ocupa'[p] = Tramos(EnUso(s1), p)
  BY <1>1, <1>2, <1>3, BytesSonTramos DEF Ocupa
<1>5. Ocupa' \in [PIDs -> SUBSET (0 .. TAM_MEMORIA - 1)]
  <2>1. Ocupa' = [p \in PIDs |-> Ocupa'[p]]
    BY DEF Ocupa
  <2>2. \A p \in PIDs : Ocupa'[p] \subseteq 0 .. TAM_MEMORIA - 1
    BY <1>2, <1>4, TramosDentro
  <2> QED BY <2>1, <2>2
<1>6. ASSUME NEW p \in PIDs, \A o \in PIDs \ {p} : Ocupa'[o] = Ocupa[o],
             \/ /\ Ocupa[p] \subseteq Ocupa'[p]
                /\ \A x \in Ocupa'[p] \ Ocupa[p] : \A o \in PIDs : x \notin Ocupa[o]
                /\ Ocupa'[p] \ Ocupa[p] # {}
                /\ \A x, y \in Ocupa'[p] \ Ocupa[p] : x .. y \subseteq Ocupa'[p] \ Ocupa[p]
             \/ Ocupa'[p] = {}
      PROVE  Asignador!Next
  <2>1. Asignador!Reservar(p) \/ Asignador!Devolver(p)
    <3>1. CASE Ocupa'[p] = {}
      BY <3>1 DEF Asignador!Devolver, Ocupa
    <3>2. CASE Ocupa'[p] # {}
      <4>1. (Ocupa'[p] \ Ocupa[p]) \cap Asignador!EnUso = {}
        BY <3>2, <1>6 DEF Asignador!EnUso, Ocupa
      <4>2. Asignador!EsTramo(Ocupa'[p] \ Ocupa[p])
        BY <3>2, <1>6 DEF Asignador!EsTramo
      <4> QED BY <3>2, <4>1, <4>2, <1>6 DEF Asignador!Reservar, Ocupa
    <3> QED BY <3>1, <3>2
  <2> QED BY <2>1, <1>5, <1>6 DEF Asignador!Next, Asignador!Direcciones, Ocupa
<1>7. ASSUME UNCHANGED lista_particiones PROVE UNCHANGED Ocupa
  BY <1>7 DEF Ocupa, BytesDelProceso, BytesDe
<1> HIDE DEF s, s1
<1>8. CASE CrearProceso
  <2>1. cabeza \in PIDs
    BY <1>8 DEF CrearProceso
  <2>2. CASE UNCHANGED lista_particiones
    BY <2>2, <1>7
  <2>3. CASE Entran(s, tam[cabeza]) # {} /\ crear_proceso(cabeza, tam[cabeza])
    <3>1. PICK q \in Particiones :
            q.PID = cabeza /\ q.tamanio >= 1 /\ Libera(s, q) /\ EnUso(s1) = EnUso(s) \cup {q}
      BY <2>1, <2>3, Admitida DEF s, s1
    <3> DEFINE nuevos == Tramos(EnUso(s1), cabeza) \ Tramos(EnUso(s), cabeza)
    <3>2. /\ Tramos(EnUso(s), cabeza) \subseteq Tramos(EnUso(s1), cabeza)
          /\ \A x \in nuevos : \A o : x \notin Tramos(EnUso(s), o)
          /\ nuevos # {} /\ \A x, y \in nuevos : x .. y \subseteq nuevos
          /\ \A o : o # cabeza => Tramos(EnUso(s1), o) = Tramos(EnUso(s), o)
      <4> DEFINE E == EnUso(s) \cup {q}
                 n == Tramos(E, q.PID) \ Tramos(EnUso(s), q.PID)
      <4>1. /\ Tramos(EnUso(s), q.PID) \subseteq Tramos(E, q.PID)
            /\ \A x \in n : \A o : x \notin Tramos(EnUso(s), o)
            /\ n # {} /\ \A x, y \in n : x .. y \subseteq n
            /\ \A o : o # q.PID => Tramos(E, o) = Tramos(EnUso(s), o)
        BY <3>1, UnoMasReserva
      <4>2. E = EnUso(s1) /\ q.PID = cabeza
        BY <3>1
      <4> HIDE DEF E
      <4> QED BY <4>1, <4>2
    <3>3. \A o \in PIDs \ {cabeza} : Ocupa'[o] = Ocupa[o]
      BY <3>2, <1>4
    <3>4. Ocupa[cabeza] = Tramos(EnUso(s), cabeza) /\ Ocupa'[cabeza] = Tramos(EnUso(s1), cabeza)
      BY <2>1, <1>4
    <3>5. \A x \in Ocupa'[cabeza] \ Ocupa[cabeza] : \A o \in PIDs : x \notin Ocupa[o]
      BY <3>2, <3>4, <1>4
    <3> QED BY <2>1, <3>2, <3>3, <3>4, <3>5, <1>6
  <2> QED BY <1>8, <2>2, <2>3 DEF CrearProceso, s
<1>9. CASE FinalizarProceso
  <2>1. PICK p \in activos : liberar_particion(p)
    BY <1>9 DEF FinalizarProceso, finalizar_proceso
  <2>2. p \in PIDs
    BY Datos
  <2>3. PICK r \in EnUso(s) : /\ r.PID = p /\ EnUso(s1) = EnUso(s) \ {r}
                              /\ \A q \in EnUso(s) : q.PID = p => q = r
    BY <2>1, Liberada DEF s, s1
  <2>4. Tramos(EnUso(s1), p) = {}
    BY <2>3 DEF Tramos
  <2>5. \A o : o # p => Tramos(EnUso(s1), o) = Tramos(EnUso(s), o)
    BY <2>3 DEF Tramos
  <2>6. Ocupa'[p] = {} /\ \A o \in PIDs \ {p} : Ocupa'[o] = Ocupa[o]
    BY <2>2, <2>4, <2>5, <1>4
  <2> QED BY <2>2, <2>6, <1>6
<1>10. CASE IniciarHiloCero \/ IniciarHilo \/ FinalizarHilo \/ UNCHANGED vars
  <2>1. UNCHANGED lista_particiones
    BY <1>10 DEF IniciarHiloCero, IniciarHilo, FinalizarHilo, vars
  <2> QED BY <2>1, <1>7
<1> QED BY <1>8, <1>9, <1>10 DEF Next

\* Memory starts as the allocator does: nobody holds a byte.
LEMMA InicioDeReserva == Init => Asignador!Init
<1> SUFFICES ASSUME Init PROVE Asignador!Init
  OBVIOUS
<1>1. IInv /\ EnUso(lista_particiones) = {}
  BY IInvInicial, InicioOrdenado
<1>2. lista_particiones \in Seq(Particiones) /\ SinPIDLibre(lista_particiones)
  BY <1>1 DEF IInv, Ordenada, SinPIDLibre
<1>3. \A p \in PIDs : BytesDelProceso(p) = BytesEn(lista_particiones, p)
  BY DEF BytesDelProceso, BytesDe, BytesEn
<1>4. \A p \in PIDs : BytesDelProceso(p) = {}
  BY <1>1, <1>2, <1>3, BytesSonTramos DEF Tramos
<1> QED BY <1>4 DEF Asignador!Init

\* Memory implements Reserva, with both schemes: bytes are given to one process at a time,
\* in one run, and come back all together (crear_proceso, finalizar_proceso).
THEOREM ImplementaElAsignador == Spec => ImplementaReserva
<1>1. Init => Asignador!Init
  BY InicioDeReserva
<1>2. IInv /\ IInv' /\ [Next]_vars => [Asignador!Next]_[p \in PIDs |-> BytesDelProceso(p)]
  BY PasoDeReserva DEF Ocupa
<1> QED BY <1>1, <1>2, Reparto, PTL DEF Spec, ImplementaReserva, Asignador!Spec

-----------------------------------------------------------------------------
(* What an access touches: the MMU in front of the partitions (Proteccion) *)

\* Addresses are whole words, and not negative as an int; so are the sizes.
PalabrasEnteras ==
  /\ \A r \in Registros : ConSigno(r) \in Nat /\ ConSigno(r) % ANCHO = 0
  /\ \A t \in Tamanios : t % ANCHO = 0
  /\ \A i \in 1 .. Len(PARTICIONES) : PARTICIONES[i] % ANCHO = 0

\* A partition that a process has, or may be given whole, has whole words.
Enteras(s) ==
  \A i \in 1 .. Len(s) : s[i].esta_ocupado \/ ESQUEMA = "FIJAS" => s[i].tamanio % ANCHO = 0

\* A word that starts inside whole words ends inside them.
LEMMA UltimaPalabra ==
  ASSUME NEW d \in Nat, NEW t \in Nat, NEW A \in Nat \ {0}, d % A = 0, t % A = 0, d < t
  PROVE  d + A <= t
<1>1. PICK x \in Int, y \in Int : x = d \div A /\ y = t \div A
  OBVIOUS
<1>2. d = A * x /\ t = A * y
  BY <1>1
<1>3. x < y
  <2>1. ASSUME y <= x PROVE A * y <= A * x
    BY <2>1
  <2> QED BY <1>2, <2>1
<1>4. A * (x + 1) <= A * y
  BY <1>3
<1>5. A * (x + 1) = A * x + A
  OBVIOUS
<1> QED BY <1>2, <1>4, <1>5

LEMMA EnterasInicial ==
  ASSUME PalabrasEnteras, Init
  PROVE  Enteras(lista_particiones)
<1>1. EnUso(lista_particiones) = {} /\ lista_particiones = iniciar_estructuras
  BY InicioOrdenado DEF Init
<1>2. CASE ESQUEMA = "FIJAS"
  <2>1. lista_particiones =
          [i \in 1 .. Len(PARTICIONES) |->
             Particion(Nadie, BaseFija[i], PARTICIONES[i] - 1, PARTICIONES[i], FALSE)]
    BY <1>1, <1>2 DEF iniciar_estructuras
  <2>2. Len(lista_particiones) = Len(PARTICIONES)
    BY <2>1, ConstantesDeMemoria
  <2>3. \A i \in 1 .. Len(PARTICIONES) : lista_particiones[i].tamanio = PARTICIONES[i]
    BY <2>1 DEF Particion
  <2> QED BY <2>2, <2>3 DEF Enteras, PalabrasEnteras
<1>3. CASE ESQUEMA # "FIJAS"
  BY <1>1, <1>3, EstaEnUso DEF Enteras
<1> QED BY <1>2, <1>3

LEMMA EnterasPaso ==
  ASSUME PalabrasEnteras, IInv, IInv', Enteras(lista_particiones), [Next]_vars
  PROVE  Enteras(lista_particiones)'
<1> DEFINE s == lista_particiones
<1>1. UNCHANGED <<ESQUEMA, tam>> /\ Ordenada(s) /\ s \in Seq(Particiones)
      /\ ESQUEMA \in {"FIJAS", "DINAMICAS"} /\ ALGORITMO_BUSQUEDA \in {"FIRST", "BEST", "WORST"}
  BY DEF Next, CrearProceso, IniciarHiloCero, IniciarHilo, FinalizarHilo, FinalizarProceso, vars, fijo,
         IInv, Ordenada, TypeOK
<1>2. CASE UNCHANGED lista_particiones
  BY <1>1, <1>2 DEF Enteras
<1>3. CASE CrearProceso /\ ~UNCHANGED lista_particiones
  <2>1. cabeza \in PIDs /\ Entran(s, tam[cabeza]) # {} /\ crear_proceso(cabeza, tam[cabeza])
    BY <1>3 DEF CrearProceso
  <2>2. CASE ESQUEMA = "FIJAS"
    <3>1. PICK i : i = Elegida(s, tam[cabeza])
      OBVIOUS
    <3>2. i \in Entran(s, tam[cabeza])
      <4>1. tam[cabeza] \in Nat \ {0}
        BY <2>1, Datos
      <4> QED BY <1>1, <2>1, <3>1, <4>1, ElegidaEntra DEF Ordenada
    <3>3. i \in 1 .. Len(s)
      BY <3>2 DEF Entran
    <3>4. s' = [s EXCEPT ![i] = Particion(cabeza, @.base, @.limite, @.tamanio, TRUE)]
      BY <2>1, <2>2, <3>1 DEF crear_proceso, asignar_particion, actualizar_estatica
    <3>5. Len(s') = Len(s) /\ \A k \in 1 .. Len(s) : s'[k].tamanio = s[k].tamanio
      BY <1>1, <3>3, <3>4 DEF Particion
    <3> QED BY <2>2, <3>5 DEF Enteras
  <2>3. CASE ESQUEMA = "DINAMICAS"
    <3>1. PICK q \in Particiones :
            q.tamanio = tam[cabeza] /\ EnUso(s') = EnUso(s) \cup {q}
      BY <2>1, <2>3, Admitida
    <3>2. q.tamanio % ANCHO = 0
      BY <2>1, <3>1, Datos DEF PalabrasEnteras
    <3>3. \A r \in EnUso(s') : r.tamanio % ANCHO = 0
      BY <3>1, <3>2, EstaEnUso DEF Enteras
    <3> QED BY <1>1, <2>3, <3>3, EstaEnUso DEF Enteras
  <2> QED BY <1>1, <2>2, <2>3
<1>4. CASE FinalizarProceso
  <2>1. PICK p \in activos : liberar_particion(p)
    BY <1>4 DEF FinalizarProceso, finalizar_proceso
  <2>2. PICK r \in EnUso(s) : r.PID = p /\ EnUso(s') = EnUso(s) \ {r}
    BY <2>1, Liberada
  <2>3. CASE ESQUEMA = "FIJAS"
    <3>1. PICK i : i = IndiceDe(s, p)
      OBVIOUS
    <3>2. i \in 1 .. Len(s)
      BY <2>2, <3>1, EstaEnUso DEF IndiceDe
    <3>3. s' = [s EXCEPT ![i] = Particion(Nadie, @.base, @.limite, @.tamanio, FALSE)]
      BY <2>1, <2>3, <3>1 DEF liberar_particion, Consolidar, Liberar
    <3>4. Len(s') = Len(s) /\ \A k \in 1 .. Len(s) : s'[k].tamanio = s[k].tamanio
      BY <1>1, <3>2, <3>3 DEF Particion
    <3> QED BY <2>3, <3>4 DEF Enteras
  <2>4. CASE ESQUEMA = "DINAMICAS"
    <3>1. \A x \in EnUso(s') : x.tamanio % ANCHO = 0
      BY <2>2, EstaEnUso DEF Enteras
    <3> QED BY <1>1, <2>4, <3>1, EstaEnUso DEF Enteras
  <2> QED BY <1>1, <2>3, <2>4
<1>5. CASE IniciarHiloCero \/ IniciarHilo \/ FinalizarHilo \/ UNCHANGED vars
  BY <1>2, <1>5 DEF IniciarHiloCero, IniciarHilo, FinalizarHilo, vars
<1> QED BY <1>2, <1>3, <1>4, <1>5 DEF Next

\* An access that the MMU accepts is inside the partition of its process.
LEMMA AccesoEnSuParticion ==
  ASSUME PalabrasEnteras, IInv, Enteras(lista_particiones), NEW p \in activos, NEW r \in Registros,
         Fisica(p, r) # -1
  PROVE  /\ Palabra(Fisica(p, r)) \subseteq Direcciones
         /\ \E i \in DOMAIN lista_particiones :
              lista_particiones[i].PID = p /\ Palabra(Fisica(p, r)) \subseteq BytesDe(i)
<1> DEFINE s == lista_particiones
           suyas == {i \in DOMAIN s : s[i].PID = p}
<1>1. s \in Seq(Particiones) /\ EnMemoria(s)
  BY DEF IInv, Ordenada
<1>2. PICK i \in suyas : TRUE
  <2>1. Cardinality(suyas) = 1
    BY UnaParticionVale DEF UnaParticion
  <2>2. suyas # {}
    BY <2>1, FS_EmptySet
  <2> QED BY <2>2
<1>3. i \in 1 .. Len(s) /\ i \in DOMAIN s /\ s[i].PID = p
  BY <1>1, <1>2
<1>4. s[i].esta_ocupado /\ CDE(p).base = s[i].base /\ CDE(p).limite = s[i].tamanio - 1
  BY <1>2, UnaParticionVale DEF UnaParticion, CDE
<1>5. PICK b \in Int, t \in Int, d \in Nat : b = s[i].base /\ t = s[i].tamanio /\ d = ConSigno(r)
  BY <1>1, <1>3, Campos DEF PalabrasEnteras
<1>6. b >= 0 /\ t >= 0 /\ b + t <= TAM_MEMORIA
  BY <1>1, <1>3, <1>5 DEF EnMemoria
<1>7. t % ANCHO = 0 /\ d % ANCHO = 0
  BY <1>3, <1>4, <1>5 DEF Enteras, PalabrasEnteras
<1>8. b + d <= b + (t - 1) /\ Fisica(p, r) = b + d
  BY <1>4, <1>5 DEF Fisica, MMU, Dentro
<1>9. ANCHO \in Nat \ {0}
  BY ConstantesDeProteccion
<1>10. d + ANCHO <= t
  <2>1. d < t /\ t \in Nat
    BY <1>6, <1>8
  <2> QED BY <1>7, <1>9, <2>1, UltimaPalabra
<1>11. TAM_MEMORIA \in Nat
  BY ConstantesDeMemoria
<1>12. Palabra(Fisica(p, r)) = b + d .. b + d + ANCHO - 1 /\ BytesDe(i) = b .. b + t - 1
       /\ Direcciones = 0 .. TAM_MEMORIA - 1
  BY <1>5, <1>8 DEF Palabra, BytesDe, Direcciones
<1>13. /\ b + d .. b + d + ANCHO - 1 \subseteq b .. b + t - 1
       /\ b + d .. b + d + ANCHO - 1 \subseteq 0 .. TAM_MEMORIA - 1
  BY <1>6, <1>9, <1>10, <1>11
<1> QED BY <1>3, <1>12, <1>13

\* A write stays in the memory and in the partition of the process that makes it, whatever
\* processes came and went before: the MMU, the context of the process and the list of partitions
\* agree. Only for sizes and addresses of whole words, not negative as an int: the MMU looks at
\* the first byte of the access, and has no lower bound.
THEOREM EscrituraSiemprePropia ==
  ASSUME PalabrasEnteras
  PROVE  SpecProteccion => EscrituraPropia
<1> DEFINE PInv == IInv /\ Enteras(lista_particiones) /\ ~desbordada
           Propia == /\ ~desbordada'
                     /\ \A a \in Direcciones :
                          memoria_usuario'[a] # memoria_usuario[a] =>
                            \E i \in DOMAIN lista_particiones :
                              /\ lista_particiones[i].PID = memoria_usuario'[a]
                              /\ a \in BytesDe(i)
<1>1. InitProteccion => PInv
  BY IInvInicial, EnterasInicial DEF InitProteccion
<1>2. ASSUME PInv, [NextProteccion]_varsProteccion
      PROVE  PInv' /\ Propia
  <2>1. [Next]_vars
    <3>1. CASE FallaDeSegmento
      BY <3>1 DEF FallaDeSegmento, Next, FinalizarProceso, Libre
    <3> QED BY <1>2, <3>1 DEF NextProteccion, PedidoDelKernel, Escribir, varsProteccion
  <2>2. IInv' /\ Enteras(lista_particiones)'
    BY <1>2, <2>1, IInvPaso, EnterasPaso
  <2>3. CASE Escribir
    <3>1. PICK p \in activos, r \in Registros :
            /\ Fisica(p, r) # -1
            /\ memoria_usuario' = [a \in Direcciones |->
                 IF a \in Palabra(Fisica(p, r)) THEN p ELSE memoria_usuario[a]]
            /\ desbordada' = (desbordada \/ ~(Palabra(Fisica(p, r)) \subseteq Direcciones))
      BY <2>3 DEF Escribir
    <3>2. PICK i \in DOMAIN lista_particiones :
            /\ lista_particiones[i].PID = p /\ Palabra(Fisica(p, r)) \subseteq BytesDe(i)
            /\ Palabra(Fisica(p, r)) \subseteq Direcciones
      BY <1>2, <3>1, AccesoEnSuParticion
    <3>3. ~desbordada'
      BY <1>2, <3>1, <3>2
    <3>4. Propia
      BY <3>1, <3>2, <3>3
    <3> QED BY <2>2, <3>3, <3>4
  <2>4. CASE UNCHANGED <<memoria_usuario, desbordada>>
    BY <1>2, <2>2, <2>4
  <2> QED BY <1>2, <2>3, <2>4 DEF NextProteccion, PedidoDelKernel, FallaDeSegmento, varsProteccion
<1>3. PInv /\ [NextProteccion]_varsProteccion => PInv'
  BY <1>2
<1>4. PInv /\ [NextProteccion]_varsProteccion => [Propia]_varsProteccion
  BY <1>2
<1> HIDE DEF PInv
<1>5. SpecProteccion => [][Propia]_varsProteccion
  BY <1>1, <1>3, <1>4, PTL DEF SpecProteccion
<1> QED BY <1>5 DEF EscrituraPropia
=============================================================================
