--------------------------- MODULE DespachoProofs ---------------------------
(***************************************************************************)
(* The dispatch protocol, for every set of threads and every length of the *)
(* scripts: kernel and cpu never lose step, never mean different threads,  *)
(* never wait for each other, and together implement the turns.            *)
(*                                                                         *)
(* None of that is inductive alone. The invariant names the seven phases   *)
(* of a turn (Fase): who has the turn, where each side is and which single *)
(* message is on the way are one thing. It also needs to know of every     *)
(* thread where it is (Lugares): an answer that ends a thread, or elects   *)
(* one, would otherwise be about another.                                  *)
(*                                                                         *)
(* The packets come first: what goes out is what comes in. The loop of     *)
(* recibir_paquete is a recursive function: that it exists is proved from  *)
(* the least word it is defined from.                                      *)
(***************************************************************************)
EXTENDS Despacho, LemasDeColas

-----------------------------------------------------------------------------
(* The packets *)

\* One more word.
LEMMA UnaPalabra ==
  ASSUME NEW s \in Seq(Int), NEW a \in Int
  PROVE  /\ s \o <<a>> \in Seq(Int) /\ Len(s \o <<a>>) = Len(s) + 1
         /\ \A i \in 1 .. Len(s) : (s \o <<a>>)[i] = s[i]
         /\ (s \o <<a>>)[Len(s) + 1] = a
<1> DEFINE t == <<a>>
<1>1. t \in Seq(Int) /\ Len(t) = 1 /\ t[1] = a
  OBVIOUS
<1> HIDE DEF t
<1>2. /\ s \o t \in Seq(Int) /\ Len(s \o t) = Len(s) + Len(t)
      /\ \A i \in 1 .. Len(s) + Len(t) : (s \o t)[i] = IF i <= Len(s) THEN s[i] ELSE t[i - Len(s)]
  BY <1>1, ConcatProperties
<1>3. Len(s) \in Nat
  OBVIOUS
<1> QED BY <1>1, <1>2, <1>3 DEF t

-----------------------------------------------------------------------------
(* Sending *)

Paquetes == [codigo_operacion : Int, size : Int, stream : Seq(Int)]

\* q is p with one more field of one word: two more words of the stream.
Agregado(p, a, q) ==
  /\ q \in Paquetes /\ q.codigo_operacion = p.codigo_operacion /\ q.size = p.size + 8
  /\ Len(q.stream) = Len(p.stream) + 2
  /\ \A i \in 1 .. Len(p.stream) : q.stream[i] = p.stream[i]
  /\ q.stream[Len(p.stream) + 1] = 4 /\ q.stream[Len(p.stream) + 2] = a

\* agregar_a_paquete, for a value of one word.
LEMMA Campo ==
  ASSUME NEW p \in Paquetes, NEW a \in Int
  PROVE  Agregado(p, a, agregar_a_paquete(p, <<a>>))
<1> DEFINE q == agregar_a_paquete(p, <<a>>)
           s == p.stream
           u == s \o <<4>>
           t == u \o <<a>>
<1>0. /\ p.size \in Int /\ s \in Seq(Int) /\ p.codigo_operacion \in Int
      /\ DOMAIN p = {"codigo_operacion", "size", "stream"} /\ p = [i \in DOMAIN p |-> p[i]]
  BY DEF Paquetes
<1>1. u \in Seq(Int) /\ Len(u) = Len(s) + 1 /\ u[Len(s) + 1] = 4 /\ \A i \in 1 .. Len(s) : u[i] = s[i]
  BY <1>0, UnaPalabra
<1>2. SIZEOF_INT * Len(<<a>>) = 4
  BY DEF SIZEOF_INT
<1>3. q = [p EXCEPT !.size = @ + 4 + 4, !.stream = t]
  BY <1>2 DEF agregar_a_paquete, SIZEOF_INT
<1> HIDE DEF u
<1>4. /\ t \in Seq(Int) /\ Len(t) = Len(u) + 1 /\ t[Len(u) + 1] = a
      /\ \A i \in 1 .. Len(u) : t[i] = u[i]
  BY <1>1, UnaPalabra
<1> HIDE DEF t, s, q
<1>5. /\ q.size = p.size + 4 + 4 /\ q.codigo_operacion = p.codigo_operacion /\ q.stream = t
      /\ DOMAIN q = DOMAIN p /\ q = [i \in DOMAIN p |-> q[i]]
  BY <1>0, <1>3
<1>6. Len(s) \in Nat /\ p.size + 4 + 4 = p.size + 8 /\ p.size + 8 \in Int
  BY <1>0
<1>7. q \in Paquetes
  BY <1>0, <1>4, <1>5, <1>6 DEF Paquetes
<1>8. /\ Len(t) = Len(s) + 2 /\ t[Len(s) + 2] = a /\ t[Len(s) + 1] = 4
      /\ \A i \in 1 .. Len(s) : t[i] = s[i]
  <2>1. Len(u) = Len(s) + 1 /\ Len(u) + 1 = Len(s) + 2
    BY <1>1, <1>6
  <2>2. Len(t) = Len(s) + 2 /\ t[Len(s) + 2] = a
    BY <1>4, <2>1
  <2>3. \A i \in 1 .. Len(s) : i \in 1 .. Len(u)
    BY <2>1, <1>6
  <2>4. Len(s) + 1 \in 1 .. Len(u)
    BY <2>1, <1>6
  <2>5. t[Len(s) + 1] = 4
    BY <1>1, <1>4, <2>4
  <2>6. \A i \in 1 .. Len(s) : t[i] = s[i]
    BY <1>1, <1>4, <2>3
  <2> QED BY <2>2, <2>5, <2>6
<1> QED BY <1>5, <1>6, <1>7, <1>8 DEF s, q, Agregado

\* The packets, word by word.
LEMMA Palabras ==
  ASSUME NEW op \in Int, NEW a \in Int, NEW b \in Int
  PROVE  LET dos  == agregar_a_paquete(agregar_a_paquete(crear_paquete(op), <<a>>), <<b>>)
             tres == agregar_a_paquete(dos, <<0>>)
         IN  /\ enviar_paquete(dos) = <<op, 16, 4, a, 4, b>>
             /\ enviar_paquete(tres) = <<op, 24, 4, a, 4, b, 4, 0>>
<1> DEFINE p0 == crear_paquete(op)
           p1 == agregar_a_paquete(p0, <<a>>)
           p2 == agregar_a_paquete(p1, <<b>>)
           p3 == agregar_a_paquete(p2, <<0>>)
<1>0. p0 \in Paquetes /\ p0.codigo_operacion = op /\ p0.size = 0 /\ p0.stream = <<>>
  <2>1. <<>> \in Seq(Int)
    OBVIOUS
  <2> QED BY <2>1 DEF crear_paquete, Paquetes
<1>z. Len(p0.stream) = 0
  BY <1>0
<1> HIDE DEF p0
<1>1. /\ p1 \in Paquetes /\ p1.codigo_operacion = op /\ p1.size = 8
      /\ Len(p1.stream) = 2 /\ p1.stream[1] = 4 /\ p1.stream[2] = a
  <2>1. Agregado(p0, a, p1)
    BY <1>0, Campo
  <2> HIDE DEF p1
  <2> QED BY <2>1, <1>0, <1>z DEF Agregado
<1> HIDE DEF p1
<1>2. /\ p2 \in Paquetes /\ p2.codigo_operacion = op /\ p2.size = 16
      /\ Len(p2.stream) = 4 /\ p2.stream[1] = 4 /\ p2.stream[2] = a
      /\ p2.stream[3] = 4 /\ p2.stream[4] = b
  <2>1. Agregado(p1, b, p2)
    BY <1>1, Campo
  <2> HIDE DEF p2
  <2> QED BY <2>1, <1>1 DEF Agregado
<1> HIDE DEF p2
<1>3. /\ p3 \in Paquetes /\ p3.codigo_operacion = op /\ p3.size = 24
      /\ Len(p3.stream) = 6 /\ p3.stream[1] = 4 /\ p3.stream[2] = a
      /\ p3.stream[3] = 4 /\ p3.stream[4] = b /\ p3.stream[5] = 4 /\ p3.stream[6] = 0
  <2>1. Agregado(p2, 0, p3)
    BY <1>2, Campo
  <2> HIDE DEF p3
  <2> QED BY <2>1, <1>2 DEF Agregado
<1> HIDE DEF p3
<1> DEFINE t2 == p2.stream
           t3 == p3.stream
<1>a. t2 \in Seq(Int) /\ t3 \in Seq(Int)
  BY <1>2, <1>3 DEF Paquetes
<1>b. /\ Len(t2) = 4 /\ t2[1] = 4 /\ t2[2] = a /\ t2[3] = 4 /\ t2[4] = b
      /\ Len(t3) = 6 /\ t3[1] = 4 /\ t3[2] = a /\ t3[3] = 4 /\ t3[4] = b
      /\ t3[5] = 4 /\ t3[6] = 0
  BY <1>2, <1>3
<1>4. enviar_paquete(p2) = <<op, 16, 4, a, 4, b>>
  <2>1. enviar_paquete(p2) = <<op, 16>> \o t2
    BY <1>2 DEF enviar_paquete
  <2> DEFINE c == <<op, 16>>
             w == c \o t2
  <2>2. c \in Seq(Int) /\ Len(c) = 2 /\ c[1] = op /\ c[2] = 16
    OBVIOUS
  <2> HIDE DEF c, t2, t3
  <2>3. /\ w \in Seq(Int) /\ Len(w) = 6
        /\ \A i \in 1 .. 6 : w[i] = IF i <= 2 THEN c[i] ELSE t2[i - 2]
    <3>1. /\ w \in Seq(Int) /\ Len(w) = Len(c) + Len(t2)
          /\ \A i \in 1 .. Len(c) + Len(t2) : w[i] = IF i <= Len(c) THEN c[i] ELSE t2[i - Len(c)]
      BY <1>a, <2>2, ConcatProperties
    <3>2. Len(c) + Len(t2) = 6
      BY <1>b, <2>2
    <3> HIDE DEF w
    <3> QED BY <2>2, <3>1, <3>2
  <2> HIDE DEF w
  <2>4. w = <<w[1], w[2], w[3], w[4], w[5], w[6]>>
    BY <2>3
  <2>5. w[1] = op /\ w[2] = 16 /\ w[3] = 4 /\ w[4] = a /\ w[5] = 4 /\ w[6] = b
    BY <1>b, <2>2, <2>3
  <2> QED BY <2>1, <2>4, <2>5 DEF w, c, t2, t3
<1>5. enviar_paquete(p3) = <<op, 24, 4, a, 4, b, 4, 0>>
  <2>1. enviar_paquete(p3) = <<op, 24>> \o t3
    BY <1>3 DEF enviar_paquete
  <2> DEFINE c == <<op, 24>>
             w == c \o t3
  <2>2. c \in Seq(Int) /\ Len(c) = 2 /\ c[1] = op /\ c[2] = 24
    OBVIOUS
  <2> HIDE DEF c, t2, t3
  <2>3. /\ w \in Seq(Int) /\ Len(w) = 8
        /\ \A i \in 1 .. 8 : w[i] = IF i <= 2 THEN c[i] ELSE t3[i - 2]
    <3>1. /\ w \in Seq(Int) /\ Len(w) = Len(c) + Len(t3)
          /\ \A i \in 1 .. Len(c) + Len(t3) : w[i] = IF i <= Len(c) THEN c[i] ELSE t3[i - Len(c)]
      BY <1>a, <2>2, ConcatProperties
    <3>2. Len(c) + Len(t3) = 8
      BY <1>b, <2>2
    <3> HIDE DEF w
    <3> QED BY <2>2, <3>1, <3>2
  <2> HIDE DEF w
  <2>4. w = <<w[1], w[2], w[3], w[4], w[5], w[6], w[7], w[8]>>
    BY <2>3
  <2>5. /\ w[1] = op /\ w[2] = 24 /\ w[3] = 4 /\ w[4] = a /\ w[5] = 4 /\ w[6] = b
        /\ w[7] = 4 /\ w[8] = 0
    BY <1>b, <2>2, <2>3
  <2> QED BY <2>1, <2>4, <2>5 DEF w, c, t2, t3
<1> QED BY <1>4, <1>5 DEF p0, p1, p2, p3

-----------------------------------------------------------------------------
(* Receiving *)

\* A message of one integer, taken apart: its value, and nothing is left.
LEMMA TomaInt ==
  ASSUME NEW op, NEW v
  PROVE  LET d == Tail(<<op, SIZEOF_INT, v>>)
         IN  HayBuffer(d) /\ recibir_int(d) = [valor |-> v, resto |-> <<>>]
<1>1. Tail(<<op, SIZEOF_INT, v>>) = <<4, v>>
  BY DEF SIZEOF_INT
<1>2. HayBuffer(<<4, v>>)
  BY DEF HayBuffer, SIZEOF_INT
<1>3. SubSeq(<<4, v>>, 2, 2)[1] = v /\ SubSeq(<<4, v>>, 3, 2) = <<>>
  OBVIOUS
<1>4. recibir_int(<<4, v>>) = [valor |-> v, resto |-> <<>>]
  BY <1>3 DEF recibir_int, recibir_buffer, SIZEOF_INT
<1> QED BY <1>1, <1>2, <1>4

\* The loop of recibir_paquete over the fields of a buffer.
Sigue1(b, d) == d + 1 + (b[d + 1] \div SIZEOF_INT)
Vuelta(b, f) ==
  [d \in Nat |-> IF d >= Len(b) THEN <<>>
                 ELSE <<SubSeq(b, d + 2, Sigue1(b, d))>> \o f[Sigue1(b, d)]]

\* The loop ends: there is a function that does what it says.
LEMMA HayVuelta ==
  ASSUME NEW b \in Seq(Nat)
  PROVE  \E f : f = Vuelta(b, f)
<1> DEFINE Desde(k, f) == /\ f = [d \in Nat |-> f[d]]
                          /\ \A d \in Nat : d >= k => f[d] = Vuelta(b, f)[d]
           M == {k \in Nat : \E f : Desde(k, f)}
<1>1. Len(b) \in M
  <2> DEFINE g == [d \in Nat |-> <<>>]
  <2>1. Desde(Len(b), g)
    BY DEF Vuelta
  <2> QED BY <2>1
<1>2. PICK k \in Nat : k \in M /\ \A m \in M : k <= m
  <2>1. M \in SUBSET Nat /\ M # {} BY <1>1
  <2> HIDE DEF M
  <2> QED BY <2>1, Minimo
<1>3. PICK f : Desde(k, f)
  BY <1>2
<1>m. \A m \in Nat : \A g : Desde(m, g) => m \in M
  OBVIOUS
<1> HIDE DEF M
<1>4. ASSUME k # 0 PROVE FALSE
  <2> DEFINE e == k - 1
             g == [f EXCEPT ![e] = Vuelta(b, f)[e]]
  <2>1. e \in Nat /\ e < k
    BY <1>4
  <2>2. \A d \in Nat : d # e => g[d] = f[d]
    BY <1>3
  <2>3. g = [d \in Nat |-> g[d]] /\ g[e] = Vuelta(b, f)[e]
    BY <1>3, <2>1
  <2>e. \A d \in Nat : d >= e /\ d # e => d >= k
    BY <2>1
  <2> HIDE DEF g, e
  <2>4. ASSUME NEW d \in Nat, d >= e, d < Len(b)
        PROVE  Sigue1(b, d) \in Nat /\ Sigue1(b, d) # e
    <3>1. b[d + 1] \in Nat
      BY <2>4
    <3>2. b[d + 1] \div SIZEOF_INT \in Nat
      BY <3>1 DEF SIZEOF_INT
    <3> QED BY <3>2, <2>4, <2>1 DEF Sigue1
  <2>5. ASSUME NEW d \in Nat, d >= e PROVE Vuelta(b, g)[d] = Vuelta(b, f)[d]
    <3>1. CASE d >= Len(b)
      BY <3>1 DEF Vuelta
    <3>2. CASE ~(d >= Len(b))
      <4>1. d < Len(b)
        BY <3>2
      <4>2. g[Sigue1(b, d)] = f[Sigue1(b, d)]
        BY <4>1, <2>2, <2>4, <2>5
      <4> QED BY <3>2, <4>2 DEF Vuelta
    <3> QED BY <3>1, <3>2
  <2>6. ASSUME NEW d \in Nat, d >= e PROVE g[d] = Vuelta(b, g)[d]
    <3>1. CASE d = e
      BY <3>1, <2>3, <2>5, <2>6
    <3>2. CASE d # e
      <4>1. f[d] = Vuelta(b, f)[d] BY <3>2, <2>6, <2>e, <1>3
      <4> QED BY <4>1, <3>2, <2>2, <2>5, <2>6
    <3> QED BY <3>1, <3>2
  <2>7. Desde(e, g)
    BY <2>3, <2>6
  <2>8. e \in M
    BY <2>1, <2>7, <1>m
  <2> QED BY <2>8, <2>1, <1>2
<1>5. Desde(0, f)
  BY <1>3, <1>4
<1>7. f = [d \in Nat |-> f[d]] /\ \A d \in Nat : f[d] = Vuelta(b, f)[d]
  BY <1>5
<1>8. f = Vuelta(b, f)
  BY <1>7 DEF Vuelta
<1> QED BY <1>8

\* So Campos is the start of a function that does what the loop says.
LEMMA CamposVuelta ==
  ASSUME NEW b \in Seq(Nat)
  PROVE  \E f : f = Vuelta(b, f) /\ Campos(b) = f[0]
<1> DEFINE f == CHOOSE g : g = Vuelta(b, g)
<1>1. f = Vuelta(b, f)
  BY HayVuelta
<1>2. Campos(b) = f[0]
  BY Zenon DEF Campos, Vuelta, Sigue1
<1> QED BY <1>1, <1>2

\* u has the words m to n of w.
EsTramo(w, m, n, u) ==
  u \in Seq(Int) /\ Len(u) = n - m + 1 /\ \A i \in 1 .. n - m + 1 : u[i] = w[m + i - 1]

\* SubSeq takes the words it names.
LEMMA Tramo ==
  ASSUME NEW w \in Seq(Int), NEW m \in Nat, NEW n \in Nat, 1 <= m, m <= n, n <= Len(w)
  PROVE  EsTramo(w, m, n, SubSeq(w, m, n))
<1>1. \A i \in m .. n : w[i] \in Int
  OBVIOUS
<1>2. IF m <= n THEN TRUE ELSE FALSE
  OBVIOUS
<1> QED BY <1>1, <1>2, SubSeqProperties DEF EsTramo

\* One word of a sequence.
LEMMA UnoSolo ==
  ASSUME NEW w \in Seq(Int), NEW m \in Nat, 1 <= m, m <= Len(w)
  PROVE  SubSeq(w, m, m) = <<w[m]>>
<1> DEFINE u == SubSeq(w, m, m)
<1>1. m <= m
  OBVIOUS
<1>2. EsTramo(w, m, m, u)
  BY <1>1, Tramo, Zenon
<1> HIDE DEF u
<1>3. u \in Seq(Int) /\ Len(u) = 1 /\ u[1] = w[m]
  BY <1>2 DEF EsTramo
<1>4. u = <<u[1]>>
  BY <1>3
<1> QED BY <1>3, <1>4 DEF u

\* What follows the size, when that is four words.
LEMMA DelDosAlCinco ==
  ASSUME NEW w \in Seq(Int), Len(w) = 5
  PROVE  SubSeq(w, 2, 5) = <<w[2], w[3], w[4], w[5]>>
<1> DEFINE u == SubSeq(w, 2, 5)
<1>1. 2 \in Nat /\ 5 \in Nat /\ 1 <= 2 /\ 2 <= 5 /\ 5 <= Len(w) /\ 5 - 2 + 1 = 4
  OBVIOUS
<1>2. EsTramo(w, 2, 5, u)
  BY <1>1, Tramo, Zenon
<1> HIDE DEF u
<1>3. u \in Seq(Int) /\ Len(u) = 4 /\ \A i \in 1 .. 4 : u[i] = w[2 + i - 1]
  BY <1>1, <1>2 DEF EsTramo
<1>4. u[1] = w[2] /\ u[2] = w[3] /\ u[3] = w[4] /\ u[4] = w[5]
  BY <1>3
<1>5. u = <<u[1], u[2], u[3], u[4]>>
  BY <1>3
<1> QED BY <1>4, <1>5 DEF u

\* What follows the size, when that is six words.
LEMMA DelDosAlSiete ==
  ASSUME NEW w \in Seq(Int), Len(w) = 7
  PROVE  SubSeq(w, 2, 7) = <<w[2], w[3], w[4], w[5], w[6], w[7]>>
<1> DEFINE u == SubSeq(w, 2, 7)
<1>1. 2 \in Nat /\ 7 \in Nat /\ 1 <= 2 /\ 2 <= 7 /\ 7 <= Len(w) /\ 7 - 2 + 1 = 6
  OBVIOUS
<1>2. EsTramo(w, 2, 7, u)
  BY <1>1, Tramo, Zenon
<1> HIDE DEF u
<1>3. u \in Seq(Int) /\ Len(u) = 6 /\ \A i \in 1 .. 6 : u[i] = w[2 + i - 1]
  BY <1>1, <1>2 DEF EsTramo
<1>4. /\ u[1] = w[2] /\ u[2] = w[3] /\ u[3] = w[4] /\ u[4] = w[5]
      /\ u[5] = w[6] /\ u[6] = w[7]
  BY <1>3
<1>5. u = <<u[1], u[2], u[3], u[4], u[5], u[6]>>
  BY <1>3
<1> QED BY <1>4, <1>5 DEF u

\* A sequence of two sequences.
LEMMA ParDePalabras ==
  ASSUME NEW z \in Seq(Seq(Nat)), NEW x, NEW y, Len(z) = 2, z[1] = x, z[2] = y
  PROVE  z = <<x, y>>
<1>1. \A n \in 1 .. 2 : n = 1 \/ n = 2
  OBVIOUS
<1>2. \A n \in 1 .. 2 : z[n] = <<x, y>>[n]
  BY <1>1
<1>3. DOMAIN z = 1 .. 2 /\ z = [n \in 1 .. 2 |-> z[n]]
  OBVIOUS
<1>4. <<x, y>> = [n \in 1 .. 2 |-> <<x, y>>[n]]
  OBVIOUS
<1> QED BY <1>2, <1>3, <1>4

\* A buffer of fields of one word each, taken apart.
LEMMA CamposDeUnaPalabra ==
  ASSUME NEW a \in Nat, NEW b \in Nat
  PROVE  /\ Campos(<<4, a, 4, b>>) = <<<<a>>, <<b>>>>
         /\ Len(Campos(<<4, a, 4, b, 4, 0>>)) = 3
<1>1. Campos(<<4, a, 4, b>>) = <<<<a>>, <<b>>>>
  <2> DEFINE w == <<4, a, 4, b>>
  <2>1. /\ w \in Seq(Nat) /\ w \in Seq(Int) /\ Len(w) = 4
        /\ w[1] = 4 /\ w[2] = a /\ w[3] = 4 /\ w[4] = b
    OBVIOUS
  <2> HIDE DEF w
  <2>2. SubSeq(w, 2, 2) = <<a>> /\ SubSeq(w, 4, 4) = <<b>>
    BY <2>1, UnoSolo
  <2>3. PICK f : f = Vuelta(w, f) /\ Campos(w) = f[0]
    BY <2>1, CamposVuelta
  <2>4. Sigue1(w, 0) = 2 /\ Sigue1(w, 2) = 4
    BY <2>1 DEF Sigue1, SIZEOF_INT
  <2>v. \A d \in Nat : f[d] = IF d >= Len(w) THEN <<>>
                              ELSE <<SubSeq(w, d + 2, Sigue1(w, d))>> \o f[Sigue1(w, d)]
    BY <2>3 DEF Vuelta
  <2>w. 0 + 2 = 2 /\ 2 + 2 = 4 /\ 4 >= Len(w) /\ ~(2 >= Len(w)) /\ ~(0 >= Len(w))
    BY <2>1
  <2>5. f[4] = <<>>
    BY <2>v, <2>w
  <2>6. f[2] = <<<<b>>>> \o f[4]
    BY <2>2, <2>4, <2>v, <2>w
  <2>7. f[2] = <<<<b>>>>
    <3> <<<<b>>>> \in Seq({<<b>>}) OBVIOUS
    <3> QED BY <2>5, <2>6, ConcatEmptySeq
  <2>8. f[0] = <<<<a>>>> \o f[2]
    BY <2>2, <2>4, <2>v, <2>w
  <2>9. f[0] = <<<<a>>, <<b>>>>
    <3> DEFINE x == <<<<a>>>>
               y == <<<<b>>>>
    <3>1. /\ x \in Seq(Seq(Nat)) /\ Len(x) = 1 /\ x[1] = <<a>>
          /\ y \in Seq(Seq(Nat)) /\ Len(y) = 1 /\ y[1] = <<b>>
      OBVIOUS
    <3>2. f[0] = x \o y
      BY <2>7, <2>8
    <3> HIDE DEF x, y
    <3>3. /\ x \o y \in Seq(Seq(Nat)) /\ Len(x \o y) = Len(x) + Len(y)
          /\ \A i \in 1 .. Len(x) + Len(y) :
               (x \o y)[i] = IF i <= Len(x) THEN x[i] ELSE y[i - Len(x)]
      BY <3>1, ConcatProperties
    <3> DEFINE z == x \o y
    <3> HIDE DEF z
    <3>4. z \in Seq(Seq(Nat)) /\ Len(z) = 2 /\ z[1] = <<a>> /\ z[2] = <<b>>
      <4>1. Len(x) + Len(y) = 2 /\ Len(x) = 1
        BY <3>1
      <4>2. /\ z \in Seq(Seq(Nat)) /\ Len(z) = 2
            /\ \A i \in 1 .. 2 : z[i] = IF i <= 1 THEN x[i] ELSE y[i - 1]
        BY <3>3, <4>1 DEF z
      <4> QED BY <3>1, <4>2
    <3>6. z = <<<<a>>, <<b>>>>
      BY <3>4, ParDePalabras
    <3>7. f[0] = z
      BY <3>2 DEF z
    <3> HIDE DEF z
    <3> QED BY <3>6, <3>7
  <2> QED BY <2>3, <2>9 DEF w
<1>2. Len(Campos(<<4, a, 4, b, 4, 0>>)) = 3
  <2> DEFINE w == <<4, a, 4, b, 4, 0>>
  <2>1. /\ w \in Seq(Nat) /\ w \in Seq(Int) /\ Len(w) = 6
        /\ w[1] = 4 /\ w[2] = a /\ w[3] = 4 /\ w[4] = b /\ w[5] = 4 /\ w[6] = 0
    OBVIOUS
  <2> HIDE DEF w
  <2>2. SubSeq(w, 2, 2) = <<a>> /\ SubSeq(w, 4, 4) = <<b>> /\ SubSeq(w, 6, 6) = <<0>>
    <3>1. 2 <= Len(w) /\ 4 <= Len(w) /\ 6 <= Len(w)
      BY <2>1
    <3>2. SubSeq(w, 2, 2) = <<w[2]>>
      BY <2>1, <3>1, UnoSolo
    <3>3. SubSeq(w, 4, 4) = <<w[4]>>
      BY <2>1, <3>1, UnoSolo
    <3>4. SubSeq(w, 6, 6) = <<w[6]>>
      <4>1. 6 \in Nat /\ 1 <= 6
        OBVIOUS
      <4> QED BY <2>1, <3>1, <4>1, UnoSolo, Zenon
    <3> QED BY <2>1, <3>2, <3>3, <3>4
  <2>3. PICK f : f = Vuelta(w, f) /\ Campos(w) = f[0]
    BY <2>1, CamposVuelta
  <2>4. Sigue1(w, 0) = 2 /\ Sigue1(w, 2) = 4 /\ Sigue1(w, 4) = 6
    BY <2>1 DEF Sigue1, SIZEOF_INT
  <2>v. \A d \in Nat : f[d] = IF d >= Len(w) THEN <<>>
                              ELSE <<SubSeq(w, d + 2, Sigue1(w, d))>> \o f[Sigue1(w, d)]
    BY <2>3 DEF Vuelta
  <2>w. /\ 0 + 2 = 2 /\ 2 + 2 = 4 /\ 4 + 2 = 6
        /\ 6 >= Len(w) /\ ~(4 >= Len(w)) /\ ~(2 >= Len(w)) /\ ~(0 >= Len(w))
    BY <2>1
  <2>5. f[6] = <<>>
    BY <2>v, <2>w
  <2>6. f[4] = <<<<0>>>> \o f[6] /\ f[2] = <<<<b>>>> \o f[4] /\ f[0] = <<<<a>>>> \o f[2]
    BY <2>2, <2>4, <2>v, <2>w
  <2>7. f[6] \in Seq(Seq(Nat)) /\ Len(f[6]) = 0
    BY <2>5
  <2>8. \A s \in Seq(Seq(Nat)), x \in Nat :
          <<<<x>>>> \o s \in Seq(Seq(Nat)) /\ Len(<<<<x>>>> \o s) = Len(s) + 1
    <3> SUFFICES ASSUME NEW s \in Seq(Seq(Nat)), NEW x \in Nat
                 PROVE  <<<<x>>>> \o s \in Seq(Seq(Nat)) /\ Len(<<<<x>>>> \o s) = Len(s) + 1
      OBVIOUS
    <3> DEFINE t == <<<<x>>>>
    <3>1. t \in Seq(Seq(Nat)) /\ Len(t) = 1
      OBVIOUS
    <3> HIDE DEF t
    <3>2. t \o s \in Seq(Seq(Nat)) /\ Len(t \o s) = Len(t) + Len(s)
      BY <3>1, ConcatProperties
    <3>3. Len(s) \in Nat
      OBVIOUS
    <3> QED BY <3>1, <3>2, <3>3 DEF t
  <2>9. f[4] \in Seq(Seq(Nat)) /\ Len(f[4]) = 1
    BY <2>6, <2>7, <2>8
  <2>10. f[2] \in Seq(Seq(Nat)) /\ Len(f[2]) = 2
    BY <2>6, <2>8, <2>9
  <2>11. f[0] \in Seq(Seq(Nat)) /\ Len(f[0]) = 3
    BY <2>6, <2>8, <2>10
  <2> QED BY <2>3, <2>11 DEF w
<1> QED BY <1>1, <1>2

\* A packet of two fields or of three, taken apart: nothing is left.
LEMMA TomaPaquete ==
  ASSUME NEW op, NEW a \in Nat, NEW b \in Nat
  PROVE  /\ LET d == Tail(<<op, 16, 4, a, 4, b>>)
            IN  HayBuffer(d) /\ recibir_paquete(d) = [valores |-> <<<<a>>, <<b>>>>, resto |-> <<>>]
         /\ LET d == Tail(<<op, 24, 4, a, 4, b, 4, 0>>)
            IN  HayBuffer(d) /\ recibir_paquete(d).resto = <<>> /\ Len(recibir_paquete(d).valores) = 3
<1>1. Tail(<<op, 16, 4, a, 4, b>>) = <<16, 4, a, 4, b>>
  OBVIOUS
<1>2. HayBuffer(<<16, 4, a, 4, b>>)
  BY DEF HayBuffer, SIZEOF_INT
<1>4. recibir_buffer(<<16, 4, a, 4, b>>) = [valor |-> <<4, a, 4, b>>, resto |-> <<>>]
  <2> DEFINE w == <<16, 4, a, 4, b>>
  <2>1. /\ w \in Seq(Int) /\ Len(w) = 5 /\ w[2] = 4 /\ w[3] = a /\ w[4] = 4 /\ w[5] = b
        /\ Head(w) \div 4 = 4
    OBVIOUS
  <2> HIDE DEF w
  <2>2. SubSeq(w, 2, 5) = <<4, a, 4, b>>
    BY <2>1, DelDosAlCinco
  <2>3. SubSeq(w, 6, 5) = <<>>
    BY SubSeqEmpty
  <2>4. recibir_buffer(w) = [valor |-> SubSeq(w, 2, 5), resto |-> SubSeq(w, 6, 5)]
    <3>1. 4 + 1 = 5 /\ 4 + 2 = 6
      OBVIOUS
    <3>2. recibir_buffer(w) = [valor |-> SubSeq(w, 2, 4 + 1), resto |-> SubSeq(w, 4 + 2, Len(w))]
      BY <2>1, Zenon DEF recibir_buffer, SIZEOF_INT
    <3>3. Len(w) = 5
      BY <2>1
    <3> QED BY <3>1, <3>2, <3>3, Zenon
  <2>5. recibir_buffer(w) = [valor |-> <<4, a, 4, b>>, resto |-> <<>>]
    BY <2>2, <2>3, <2>4, Zenon
  <2> QED BY <2>5, Zenon DEF w
<1>5. recibir_paquete(<<16, 4, a, 4, b>>) = [valores |-> <<<<a>>, <<b>>>>, resto |-> <<>>]
  <2> DEFINE w == <<16, 4, a, 4, b>>
             v == <<4, a, 4, b>>
             r == recibir_buffer(w)
  <2>1. Campos(v) = <<<<a>>, <<b>>>>
    BY CamposDeUnaPalabra
  <2> HIDE DEF v, w
  <2>2. r = [valor |-> v, resto |-> <<>>]
    BY <1>4 DEF v, w
  <2>3. r.valor = v /\ r.resto = <<>>
    BY <2>2
  <2>4. recibir_paquete(w) = [valores |-> Campos(r.valor), resto |-> r.resto]
    BY Zenon DEF recibir_paquete
  <2> QED BY <2>1, <2>3, <2>4, Zenon DEF w
<1>6. Tail(<<op, 24, 4, a, 4, b, 4, 0>>) = <<24, 4, a, 4, b, 4, 0>>
  OBVIOUS
<1>7. HayBuffer(<<24, 4, a, 4, b, 4, 0>>)
  BY DEF HayBuffer, SIZEOF_INT
<1>9. recibir_buffer(<<24, 4, a, 4, b, 4, 0>>) = [valor |-> <<4, a, 4, b, 4, 0>>, resto |-> <<>>]
  <2> DEFINE w == <<24, 4, a, 4, b, 4, 0>>
  <2>1. /\ w \in Seq(Int) /\ Len(w) = 7 /\ w[2] = 4 /\ w[3] = a /\ w[4] = 4 /\ w[5] = b
        /\ w[6] = 4 /\ w[7] = 0 /\ Head(w) \div 4 = 6
    OBVIOUS
  <2> HIDE DEF w
  <2>2. SubSeq(w, 2, 7) = <<4, a, 4, b, 4, 0>>
    BY <2>1, DelDosAlSiete
  <2>3. SubSeq(w, 8, 7) = <<>>
    BY SubSeqEmpty
  <2>4. recibir_buffer(w) = [valor |-> SubSeq(w, 2, 7), resto |-> SubSeq(w, 8, 7)]
    <3>1. 6 + 1 = 7 /\ 6 + 2 = 8
      OBVIOUS
    <3>2. recibir_buffer(w) = [valor |-> SubSeq(w, 2, 6 + 1), resto |-> SubSeq(w, 6 + 2, Len(w))]
      BY <2>1, Zenon DEF recibir_buffer, SIZEOF_INT
    <3>3. Len(w) = 7
      BY <2>1
    <3> QED BY <3>1, <3>2, <3>3, Zenon
  <2>5. recibir_buffer(w) = [valor |-> <<4, a, 4, b, 4, 0>>, resto |-> <<>>]
    BY <2>2, <2>3, <2>4, Zenon
  <2> QED BY <2>5, Zenon DEF w
<1>10. /\ recibir_paquete(<<24, 4, a, 4, b, 4, 0>>).resto = <<>>
       /\ Len(recibir_paquete(<<24, 4, a, 4, b, 4, 0>>).valores) = 3
  <2> DEFINE w == <<24, 4, a, 4, b, 4, 0>>
             v == <<4, a, 4, b, 4, 0>>
             r == recibir_buffer(w)
  <2>1. Len(Campos(v)) = 3
    BY CamposDeUnaPalabra
  <2> HIDE DEF v, w
  <2>2. r = [valor |-> v, resto |-> <<>>]
    BY <1>9 DEF v, w
  <2>3. r.valor = v /\ r.resto = <<>>
    BY <2>2
  <2>4. recibir_paquete(w) = [valores |-> Campos(r.valor), resto |-> r.resto]
    BY Zenon DEF recibir_paquete
  <2>5. recibir_paquete(w).resto = <<>> /\ Len(recibir_paquete(w).valores) = 3
    BY <2>1, <2>3, <2>4
  <2> QED BY <2>5, Zenon DEF w
<1> QED BY <1>1, <1>2, <1>5, <1>6, <1>7, <1>10

-----------------------------------------------------------------------------
(* The dispatch protocol *)

USE DEF OP_CREAR_PROCESO, OP_INTERRUPT, OP_SEGMENTATION_FAULT, OP_FINALIZAR_PROCESO,
        OP_FINALIZAR_HILO, OP_CANCELAR_HILO, OP_DUMP_MEM, OP_THREAD_JOIN, OP_EJECUTAR_HILO,
        OP_MUTEX_CREATE, OP_MUTEX_LOCK, OP_MUTEX_UNLOCK, OP_IO, OP_CREAR_HILO,
        OP_ES_BLOQUEANTE, SIZEOF_INT

EnCuenta == kernel \in {"recibe", "cuenta"}
Libre    == cpu_pc \in {"interrupcion", "inicio", "espera"}
Vacias   == a_kernel = <<>> /\ a_cpu = <<>>
ElMismo  == hilo_EXEC = actual /\ actual \in Vivos

\* The cpu executes the thread of the turn; from its first instruction on, avanzo.
Corriendo ==
  /\ ejecutando_proceso /\ Vacias /\ ElMismo /\ EnCuenta
  /\ \/ cpu_pc = "execute"
     \/ cpu_pc \in {"inicio", "interrupcion"} /\ avanzo

\* A request is on the way, and the cpu waits where its answer will be read.
Cesiones  == {dump_memory, io, thread_exit, process_exit,
              motivo(OP_SEGMENTATION_FAULT), motivo(OP_INTERRUPT)}
Avisos    == {process_create, thread_create, mutex_create}
            \cup {thread_cancel(t) : t \in TIDs \ {actual[2]}}
Consultas == {mutex_lock, mutex_unlock} \cup {thread_join(t) : t \in TIDs}
CancelaFueraDeIO ==
  Head(a_kernel) = OP_CANCELAR_HILO => <<actual[1], a_kernel[3]>> \notin en_io
TerminaSinHermanosEnIO ==
  Head(a_kernel) \in {OP_FINALIZAR_PROCESO, OP_SEGMENTATION_FAULT} => SinHermanosEnIO
Pedida ==
  /\ ~ejecutando_proceso /\ a_cpu = <<>> /\ ElMismo /\ EnCuenta /\ avanzo
  /\ CancelaFueraDeIO /\ TerminaSinHermanosEnIO
  /\ \/ Libre /\ a_kernel \in Cesiones
     \/ cpu_pc = "urgente" /\ a_kernel \in Avisos
     \/ cpu_pc = "bloqueante" /\ a_kernel \in Consultas

\* The kernel has said whether the thread blocks.
Contestada ==
  /\ ~ejecutando_proceso /\ cpu_pc = "bloqueante" /\ a_kernel = <<>> /\ ElMismo /\ avanzo
  /\ \/ a_cpu = Bloqueante /\ kernel = "elige_tras_acuse"
     \/ a_cpu = NoBloqueante /\ kernel = "sigue_tras_acuse"

\* The cpu has acknowledged it.
Acusada ==
  /\ ~ejecutando_proceso /\ a_cpu = <<>> /\ a_kernel = <<OP_ES_BLOQUEANTE>> /\ ElMismo /\ avanzo
  /\ \/ Libre /\ kernel = "elige_tras_acuse"
     \/ cpu_pc = "urgente" /\ kernel = "sigue_tras_acuse"

\* The kernel has given the turn, a new one or the same.
TurnoEnCamino ==
  /\ ~ejecutando_proceso /\ hilo_EXEC \in Vivos /\ EnCuenta
  /\ a_kernel = <<>> /\ a_cpu = enviar_a_ejecucion(hilo_EXEC)
  /\ \/ Libre
     \/ cpu_pc = "urgente" /\ avanzo

\* Nobody has the turn.
SinNadie ==
  /\ ~ejecutando_proceso /\ hilo_EXEC = Nadie /\ Vacias /\ Libre
  /\ kernel \in {"elige", "recibe", "caido"}
  /\ kernel = "recibe" => cola_READY = <<>>

\* The mutex of another thread was unlocked: both wait, forever.
Ajena ==
  /\ ~ejecutando_proceso /\ cpu_pc = "bloqueante" /\ Vacias /\ ElMismo
  /\ kernel = "recibe" /\ ajeno

Fase ==
  \/ Corriendo \/ Pedida \/ Contestada \/ Acusada \/ TurnoEnCamino \/ SinNadie \/ Ajena

\* Every thread that waits for something is alive and waits in one place.
Lugares ==
  /\ ToSet(cola_READY) \cup en_io \cup en_espera \subseteq Vivos /\ Vivos \subseteq creados
  /\ ToSet(cola_READY) \cap en_io = {} /\ ToSet(cola_READY) \cap en_espera = {}
  /\ en_io \cap en_espera = {}
  /\ IsInjective(cola_READY)
  /\ hilo_EXEC \notin ToSet(cola_READY) \cup en_io
  /\ kernel # "elige_tras_acuse" => hilo_EXEC \notin en_espera

\* A PID that waits in NEW has had no thread.
EnNEW == \A h \in creados : h[1] \notin procesos_NEW /\ <<h[1], 0>> \in creados

\* The interrupt connection holds whole messages of one integer.
Avisados ==
  \E k \in 0 .. Len(interrupciones) :
    /\ Len(interrupciones) = 3 * k
    /\ \A j \in 0 .. k - 1 : interrupciones[3 * j + 2] = SIZEOF_INT

\* TypeOK, but for what the phase says.
TipoDeDatos ==
  /\ hilo_EXEC \in Hilos \cup {Nadie}
  /\ cola_READY \in Seq(Hilos) /\ en_io \cup en_espera \cup creados \subseteq Hilos
  /\ procesos_NEW \subseteq PIDs
  /\ cronometro \in BOOLEAN /\ verificados \in 0 .. MaxVerificados
  /\ interrupciones \in Seq(Int)
  /\ actual \in Hilos \cup {<<0, 0>>} /\ registros \in Nat
  /\ ejecutando_proceso \in BOOLEAN /\ interrupt_flag \in BOOLEAN
  /\ avanzo \in BOOLEAN /\ ajeno \in BOOLEAN
  /\ contextos \in [Hilos -> Nat \cup {NoHay}]

IInv == TipoDeDatos /\ Fase /\ Lugares /\ EnNEW /\ Avisados

-----------------------------------------------------------------------------
(* Messages *)

\* A thread is a pair of naturals.
LEMMA Pares ==
  ASSUME NEW h \in Hilos
  PROVE  h[1] \in Nat /\ h[2] \in Nat /\ h = <<h[1], h[2]>> /\ h[1] \in PIDs /\ h[2] \in TIDs
<1>1. h \in Nat \X Nat
  BY ConstantesDelDespacho
<1>2. h[1] \in PIDs /\ h[2] \in TIDs
  BY DEF PIDs, TIDs
<1>3. h[1] \in Nat /\ h[2] \in Nat
  BY <1>1
<1>4. h = <<h[1], h[2]>>
  <2>1. PICK a \in Nat, b \in Nat : h = <<a, b>>
    BY <1>1
  <2>2. h[1] = a /\ h[2] = b
    BY <2>1
  <2> QED BY <2>1, <2>2, Zenon
<1> QED BY <1>2, <1>3, <1>4, Zenon

\* The packets of the protocol.
LEMMA Mensajes ==
  /\ process_create = <<4, 24, 4, 0, 4, 0, 4, 0>>
  /\ thread_create = <<23, 16, 4, 0, 4, 0>>
  /\ \A h \in Hilos : enviar_a_ejecucion(h) = <<18, 16, 4, h[1], 4, h[2]>>
<1>1. process_create = <<4, 24, 4, 0, 4, 0, 4, 0>>
  BY Palabras DEF process_create
<1>2. thread_create = <<23, 16, 4, 0, 4, 0>>
  BY Palabras DEF thread_create
<1>3. ASSUME NEW h \in Hilos PROVE enviar_a_ejecucion(h) = <<18, 16, 4, h[1], 4, h[2]>>
  <2>1. h[1] \in Int /\ h[2] \in Int /\ 18 \in Int
    BY Pares
  <2> DEFINE a == h[1]
             b == h[2]
  <2> HIDE DEF a, b
  <2>2. a \in Int /\ b \in Int
    BY <2>1 DEF a, b
  <2>3. enviar_paquete(agregar_a_paquete(agregar_a_paquete(crear_paquete(18), <<a>>), <<b>>))
        = <<18, 16, 4, a, 4, b>>
    BY <2>2, Palabras
  <2> QED BY <2>3 DEF enviar_a_ejecucion, a, b
<1> QED BY <1>1, <1>2, <1>3

\* The packet of a turn is a sequence of words.
LEMMA TurnoEsSecuencia ==
  ASSUME NEW h \in Hilos
  PROVE  enviar_a_ejecucion(h) \in Seq(Int) /\ enviar_a_ejecucion(h) # <<>>
<1>1. h[1] \in Int /\ h[2] \in Int
  BY Pares
<1>2. enviar_a_ejecucion(h) = <<18, 16, 4, h[1], 4, h[2]>>
  BY Mensajes
<1>3. \A x, y \in Int : <<18, 16, 4, x, 4, y>> \in Seq(Int) /\ <<18, 16, 4, x, 4, y>> # <<>>
  OBVIOUS
<1> QED BY <1>1, <1>2, <1>3

\* What a request is, from its first word.
LEMMA CualPedido ==
  ASSUME TipoDeDatos, Pedida
  PROVE  LET op == Head(a_kernel)
         IN  /\ a_kernel \in Seq(Int) /\ a_kernel # <<>>
             /\ op \in {OP_FINALIZAR_PROCESO, OP_FINALIZAR_HILO, OP_DUMP_MEM} =>
                  Libre /\ a_kernel = <<op>>
             /\ op \in {OP_IO, OP_SEGMENTATION_FAULT, OP_INTERRUPT} =>
                  Libre /\ \E v \in Int : a_kernel = <<op, 4, v>>
             /\ op \in {OP_THREAD_JOIN, OP_MUTEX_LOCK, OP_MUTEX_UNLOCK} =>
                  cpu_pc = "bloqueante" /\ \E v \in Int : a_kernel = <<op, 4, v>>
             /\ op = OP_MUTEX_CREATE =>
                  cpu_pc = "urgente" /\ \E v \in Int : a_kernel = <<op, 4, v>>
             /\ op = OP_CANCELAR_HILO =>
                  cpu_pc = "urgente" /\ \E v \in TIDs \ {actual[2]} : a_kernel = <<op, 4, v>>
             /\ op = OP_CREAR_PROCESO => cpu_pc = "urgente" /\ a_kernel = process_create
             /\ op = OP_CREAR_HILO => cpu_pc = "urgente" /\ a_kernel = thread_create
             /\ op \in {OP_FINALIZAR_PROCESO, OP_FINALIZAR_HILO, OP_DUMP_MEM, OP_IO,
                        OP_SEGMENTATION_FAULT, OP_INTERRUPT, OP_THREAD_JOIN, OP_MUTEX_LOCK,
                        OP_MUTEX_UNLOCK, OP_MUTEX_CREATE, OP_CANCELAR_HILO, OP_CREAR_PROCESO,
                        OP_CREAR_HILO}
<1>0. TIDs \subseteq Nat /\ actual \in Hilos /\ actual[2] \in Nat
  <2>1. actual \in Hilos BY DEF Pedida, ElMismo, Vivos
  <2> QED BY <2>1, Pares DEF TIDs
<1>1. CASE Libre /\ a_kernel \in Cesiones
  <2>1. \/ a_kernel = <<16>> \/ a_kernel = <<22, 4, 0>> \/ a_kernel = <<14>> \/ a_kernel = <<13>>
        \/ a_kernel = <<8, 4, actual[2]>> \/ a_kernel = <<7, 4, actual[2]>>
    BY <1>1 DEF Cesiones, dump_memory, io, thread_exit, process_exit, motivo, enviar_operacion,
                enviar_int
  <2>3. ASSUME NEW o \in {16, 14, 13}, a_kernel = <<o>>
        PROVE  /\ a_kernel \in Seq(Int) /\ a_kernel # <<>> /\ Head(a_kernel) = o
               /\ a_kernel = <<Head(a_kernel)>>
    BY <2>3
  <2>4. ASSUME NEW o \in {22, 8, 7}, NEW v \in Int, a_kernel = <<o, 4, v>>
        PROVE  /\ a_kernel \in Seq(Int) /\ a_kernel # <<>> /\ Head(a_kernel) = o
               /\ a_kernel = <<Head(a_kernel), 4, v>>
    BY <2>4
  <2>5. CASE \E o \in {16, 14, 13} : a_kernel = <<o>>
    BY <2>3, <2>5, <1>1
  <2>6. CASE \E o \in {22, 8, 7}, v \in Int : a_kernel = <<o, 4, v>>
    BY <2>4, <2>6, <1>1
  <2> QED BY <2>1, <2>5, <2>6, <1>0
<1>2. CASE cpu_pc = "urgente" /\ a_kernel \in Avisos
  <2>1. \/ a_kernel = process_create \/ a_kernel = thread_create \/ a_kernel = <<19, 4, 0>>
        \/ \E t \in TIDs \ {actual[2]} : a_kernel = <<15, 4, t>>
    BY <1>2 DEF Avisos, mutex_create, thread_cancel, enviar_int, enviar_string
  <2>2. \/ a_kernel = <<4, 24, 4, 0, 4, 0, 4, 0>> /\ a_kernel = process_create
        \/ a_kernel = <<23, 16, 4, 0, 4, 0>> /\ a_kernel = thread_create
        \/ a_kernel = <<19, 4, 0>>
        \/ \E t \in TIDs \ {actual[2]} : a_kernel = <<15, 4, t>>
    BY <2>1, Mensajes
  <2>3. CASE a_kernel = <<4, 24, 4, 0, 4, 0, 4, 0>> /\ a_kernel = process_create
    BY <2>3, <1>2
  <2>4. CASE a_kernel = <<23, 16, 4, 0, 4, 0>> /\ a_kernel = thread_create
    BY <2>4, <1>2
  <2>5. CASE a_kernel = <<19, 4, 0>>
    BY <2>5, <1>2
  <2>6. CASE \E t \in TIDs \ {actual[2]} : a_kernel = <<15, 4, t>>
    BY <2>6, <1>0, <1>2
  <2> QED BY <2>2, <2>3, <2>4, <2>5, <2>6
<1>3. CASE cpu_pc = "bloqueante" /\ a_kernel \in Consultas
  <2>1. \/ a_kernel = <<20, 4, 0>> \/ a_kernel = <<21, 4, 0>>
        \/ \E t \in TIDs : a_kernel = <<17, 4, t>>
    BY <1>3 DEF Consultas, mutex_lock, mutex_unlock, thread_join, enviar_int, enviar_string
  <2>2. CASE a_kernel = <<20, 4, 0>> \/ a_kernel = <<21, 4, 0>>
    <3>1. PICK o \in {20, 21} : a_kernel = <<o, 4, 0>>
      BY <2>2
    <3>2. a_kernel \in Seq(Int) /\ a_kernel # <<>> /\ Head(a_kernel) = o
      BY <3>1
    <3> QED BY <3>1, <3>2, <1>3
  <2>3. CASE \E t \in TIDs : a_kernel = <<17, 4, t>>
    <3>1. PICK t \in TIDs : a_kernel = <<17, 4, t>>
      BY <2>3
    <3>2. t \in Int
      BY <1>0
    <3>3. a_kernel \in Seq(Int) /\ a_kernel # <<>> /\ Head(a_kernel) = 17
      BY <3>1, <3>2
    <3> QED BY <3>1, <3>2, <3>3, <1>3
  <2> QED BY <2>1, <2>2, <2>3
<1> QED BY <1>1, <1>2, <1>3 DEF Pedida

\* A request is taken while it is the one of the phase.
LEMMA LlegaPedido ==
  ASSUME IInv, NEW op, Recibe(op)
  PROVE  /\ Pedida /\ Head(a_kernel) = op /\ kernel = "recibe" /\ TipoDeDatos
         /\ UNCHANGED <<quantum, enCpu, interrupt_flag, avanzo>>
<1>1. kernel = "recibe" /\ a_kernel # <<>>
  BY DEF Recibe
<1>2. Pedida
  BY <1>1 DEF IInv, Fase, Corriendo, Contestada, Acusada, TurnoEnCamino, SinNadie, Ajena, Vacias
<1> QED BY <1>1, <1>2 DEF IInv, Recibe

\* The requests of one integer or one string leave nothing behind.
LEMMA SeTomaInt ==
  ASSUME NEW v, NEW op, a_kernel = <<op, 4, v>>
  PROVE  HayBuffer(Datos) /\ recibir_int(Datos).resto = <<>> /\ Entero = v /\ a_kernel[3] = v
<1>1. Datos = Tail(<<op, 4, v>>)
  BY DEF Datos
<1>2. HayBuffer(Datos) /\ recibir_int(Datos) = [valor |-> v, resto |-> <<>>]
  BY <1>1, TomaInt
<1>3. recibir_int(Datos).resto = <<>> /\ recibir_int(Datos).valor = v
  BY <1>2
<1> QED BY <1>2, <1>3 DEF Entero

\* A thread that gives the cpu up: the cpu looks for interrupts and for turns.
LEMMA LlegaCesion ==
  ASSUME IInv,
         \/ \E op \in {OP_FINALIZAR_HILO, OP_FINALIZAR_PROCESO, OP_DUMP_MEM} : SinDatos(op)
         \/ \E op \in {OP_IO, OP_SEGMENTATION_FAULT, OP_INTERRUPT} : ConInt(op)
  PROVE  Pedida /\ Libre /\ kernel = "recibe" /\ a_kernel' = <<>>
<1>1. CASE \E op \in {OP_FINALIZAR_HILO, OP_FINALIZAR_PROCESO, OP_DUMP_MEM} : SinDatos(op)
  <2>1. PICK op \in {OP_FINALIZAR_HILO, OP_FINALIZAR_PROCESO, OP_DUMP_MEM} : SinDatos(op)
    BY <1>1
  <2>2. Pedida /\ Head(a_kernel) = op /\ kernel = "recibe" /\ TipoDeDatos
    BY <2>1, LlegaPedido DEF SinDatos
  <2>3. Libre /\ a_kernel = <<op>>
    BY <2>2, CualPedido
  <2>4. Datos = <<>>
    BY <2>3 DEF Datos
  <2> QED BY <2>1, <2>2, <2>3, <2>4 DEF SinDatos
<1>2. CASE \E op \in {OP_IO, OP_SEGMENTATION_FAULT, OP_INTERRUPT} : ConInt(op)
  <2>1. PICK op \in {OP_IO, OP_SEGMENTATION_FAULT, OP_INTERRUPT} : ConInt(op)
    BY <1>2
  <2>2. Pedida /\ Head(a_kernel) = op /\ kernel = "recibe" /\ TipoDeDatos
    BY <2>1, LlegaPedido DEF ConInt
  <2>3. Libre /\ \E v \in Int : a_kernel = <<op, 4, v>>
    BY <2>2, CualPedido
  <2>4. recibir_int(Datos).resto = <<>>
    BY <2>3, SeTomaInt
  <2> QED BY <2>1, <2>2, <2>3, <2>4 DEF ConInt
<1> QED BY <1>1, <1>2

\* The end of a process finds none of its threads in IO.
LEMMA LlegaFinDeProceso ==
  ASSUME IInv, SinDatos(OP_FINALIZAR_PROCESO) \/ ConInt(OP_SEGMENTATION_FAULT)
  PROVE  SinHermanosEnIO
<1>1. Pedida /\ Head(a_kernel) \in {OP_FINALIZAR_PROCESO, OP_SEGMENTATION_FAULT}
  BY LlegaPedido DEF SinDatos, ConInt
<1> QED BY <1>1 DEF Pedida, TerminaSinHermanosEnIO

\* A thread that goes on at once: the cpu waits for the turn.
LEMMA LlegaAviso ==
  ASSUME IInv,
         \/ ConPaquete(OP_CREAR_PROCESO) \/ ConPaquete(OP_CREAR_HILO)
         \/ ConString(OP_MUTEX_CREATE) \/ ConInt(OP_CANCELAR_HILO)
  PROVE  Pedida /\ cpu_pc = "urgente" /\ kernel = "recibe" /\ a_kernel' = <<>>
<1>1. CASE ConPaquete(OP_CREAR_PROCESO)
  <2>1. Pedida /\ Head(a_kernel) = OP_CREAR_PROCESO /\ kernel = "recibe" /\ TipoDeDatos
    BY <1>1, LlegaPedido DEF ConPaquete
  <2>2. cpu_pc = "urgente" /\ a_kernel = process_create
    BY <2>1, CualPedido
  <2>3. a_kernel = <<4, 24, 4, 0, 4, 0, 4, 0>>
    BY <2>2, Mensajes
  <2>4. recibir_paquete(Tail(<<4, 24, 4, 0, 4, 0, 4, 0>>)).resto = <<>>
    BY TomaPaquete
  <2>5. recibir_paquete(Datos).resto = <<>>
    BY <2>3, <2>4 DEF Datos
  <2> QED BY <1>1, <2>1, <2>2, <2>5 DEF ConPaquete
<1>2. CASE ConPaquete(OP_CREAR_HILO)
  <2>1. Pedida /\ Head(a_kernel) = OP_CREAR_HILO /\ kernel = "recibe" /\ TipoDeDatos
    BY <1>2, LlegaPedido DEF ConPaquete
  <2>2. cpu_pc = "urgente" /\ a_kernel = thread_create
    BY <2>1, CualPedido
  <2>3. a_kernel = <<23, 16, 4, 0, 4, 0>>
    BY <2>2, Mensajes
  <2>4. recibir_paquete(Tail(<<23, 16, 4, 0, 4, 0>>)).resto = <<>>
    <3>1. ASSUME NEW z \in Nat PROVE recibir_paquete(Tail(<<23, 16, 4, z, 4, z>>)).resto = <<>>
      <4>1. recibir_paquete(Tail(<<23, 16, 4, z, 4, z>>)) = [valores |-> <<<<z>>, <<z>>>>, resto |-> <<>>]
        BY TomaPaquete, Zenon
      <4> QED BY <4>1
    <3> QED BY <3>1
  <2>5. recibir_paquete(Datos).resto = <<>>
    BY <2>3, <2>4 DEF Datos
  <2> QED BY <1>2, <2>1, <2>2, <2>5 DEF ConPaquete
<1>3. CASE ConString(OP_MUTEX_CREATE)
  <2>1. Pedida /\ Head(a_kernel) = OP_MUTEX_CREATE /\ kernel = "recibe" /\ TipoDeDatos
    BY <1>3, LlegaPedido DEF ConString
  <2>2. cpu_pc = "urgente" /\ \E v \in Int : a_kernel = <<19, 4, v>>
    BY <2>1, CualPedido
  <2>3. recibir_int(Datos).resto = <<>>
    BY <2>2, SeTomaInt
  <2> QED BY <1>3, <2>1, <2>2, <2>3 DEF ConString, recibir_string
<1>4. CASE ConInt(OP_CANCELAR_HILO)
  <2>1. Pedida /\ Head(a_kernel) = OP_CANCELAR_HILO /\ kernel = "recibe" /\ TipoDeDatos
    BY <1>4, LlegaPedido DEF ConInt
  <2>2. cpu_pc = "urgente" /\ \E v \in TIDs : a_kernel = <<15, 4, v>>
    BY <2>1, CualPedido
  <2>3. recibir_int(Datos).resto = <<>>
    BY <2>2, SeTomaInt
  <2> QED BY <1>4, <2>1, <2>2, <2>3 DEF ConInt
<1> QED BY <1>1, <1>2, <1>3, <1>4

\* THREAD_CANCEL is about another thread of the process, and not one in IO.
LEMMA LlegaCancelacion ==
  ASSUME IInv, ConInt(OP_CANCELAR_HILO)
  PROVE  Entero # actual[2] /\ <<actual[1], Entero>> \notin en_io
<1>1. Pedida /\ Head(a_kernel) = OP_CANCELAR_HILO /\ TipoDeDatos
  BY LlegaPedido DEF ConInt
<1>2. PICK v \in TIDs \ {actual[2]} : a_kernel = <<15, 4, v>>
  BY <1>1, CualPedido
<1>3. Entero = v /\ a_kernel[3] = v
  BY <1>2, SeTomaInt
<1> QED BY <1>1, <1>2, <1>3 DEF Pedida, CancelaFueraDeIO

\* A thread that may block: the cpu waits for the answer.
LEMMA LlegaConsulta ==
  ASSUME IInv, ConInt(OP_THREAD_JOIN) \/ ConString(OP_MUTEX_LOCK) \/ ConString(OP_MUTEX_UNLOCK)
  PROVE  Pedida /\ cpu_pc = "bloqueante" /\ kernel = "recibe" /\ a_kernel' = <<>>
<1>1. PICK op \in {OP_THREAD_JOIN, OP_MUTEX_LOCK, OP_MUTEX_UNLOCK} : ConInt(op)
  BY DEF ConInt, ConString, recibir_string
<1>2. Pedida /\ Head(a_kernel) = op /\ kernel = "recibe" /\ TipoDeDatos
  BY <1>1, LlegaPedido DEF ConInt
<1>3. cpu_pc = "bloqueante" /\ \E v \in Int : a_kernel = <<op, 4, v>>
  BY <1>2, CualPedido
<1>4. recibir_int(Datos).resto = <<>>
  BY <1>3, SeTomaInt
<1> QED BY <1>1, <1>2, <1>3, <1>4 DEF ConInt

\* The turn that arrives is the one of hilo_EXEC.
LEMMA LlegaTurno ==
  ASSUME IInv, NEW despues, RecibirHilo(despues), cpu_pc \in {"espera", "urgente"}
  PROVE  /\ TurnoEnCamino /\ actual' = hilo_EXEC /\ a_cpu' = <<>>
         /\ registros' = contextos[hilo_EXEC] /\ hilo_EXEC \in Vivos
<1>1. a_cpu # <<>>
  BY DEF RecibirHilo
<1>2. TurnoEnCamino
  BY <1>1 DEF IInv, Fase, Corriendo, Pedida, Contestada, Acusada, SinNadie, Ajena, Vacias
<1>3. hilo_EXEC \in Hilos /\ hilo_EXEC \in Vivos
  BY <1>2 DEF TurnoEnCamino, Vivos
<1> DEFINE x == hilo_EXEC[1]
           y == hilo_EXEC[2]
           p == recibir_paquete(Tail(a_cpu))
<1>4. x \in Nat /\ y \in Nat /\ hilo_EXEC = <<x, y>>
  BY <1>3, Pares
<1> HIDE DEF x, y
<1>5. a_cpu = <<18, 16, 4, x, 4, y>>
  BY <1>2, <1>3, Mensajes DEF TurnoEnCamino, x, y
<1>6. p = [valores |-> <<<<x>>, <<y>>>>, resto |-> <<>>]
  BY <1>4, <1>5, TomaPaquete
<1>7. p.resto = <<>> /\ p.valores[1][1] = x /\ p.valores[2][1] = y
  BY <1>6
<1>8. a_cpu' = p.resto /\ actual' = <<p.valores[1][1], p.valores[2][1]>>
      /\ registros' = contextos[<<p.valores[1][1], p.valores[2][1]>>]
  BY DEF RecibirHilo
<1> QED BY <1>2, <1>3, <1>4, <1>7, <1>8

\* The answer that arrives says whether the thread blocks.
LEMMA LlegaRespuesta ==
  ASSUME IInv, revisar_bloqueante
  PROVE  /\ Contestada /\ a_cpu' = <<>> /\ a_kernel' = <<OP_ES_BLOQUEANTE>>
         /\ cpu_pc' = IF a_cpu = NoBloqueante THEN "urgente" ELSE "interrupcion"
<1>1. a_cpu # <<>> /\ cpu_pc = "bloqueante"
  BY DEF revisar_bloqueante
<1>2. Contestada
  BY <1>1 DEF IInv, Fase, Corriendo, Pedida, Contestada, Acusada, TurnoEnCamino, Libre, SinNadie,
             Ajena, Vacias
<1> DEFINE r == recibir_int(Tail(a_cpu))
<1>3. a_kernel' = a_kernel \o <<24>> /\ a_kernel = <<>> /\ a_cpu' = r.resto
      /\ cpu_pc' = IF r.valor = 0 THEN "urgente" ELSE "interrupcion"
  BY <1>2 DEF revisar_bloqueante, Contestada, Acuse, enviar_operacion
<1>4. a_kernel' = <<24>>
  <2>1. <<24>> \in Seq(Int) OBVIOUS
  <2> QED BY <1>3, <2>1, ConcatEmptySeq
<1>5. PICK v \in {0, 1} : a_cpu = <<24, 4, v>> /\ (v = 0 <=> a_cpu = NoBloqueante)
  BY <1>2 DEF Contestada, Bloqueante, NoBloqueante, enviar_int
<1>6. r = [valor |-> v, resto |-> <<>>]
  BY <1>5, TomaInt
<1>7. r.valor = v /\ r.resto = <<>>
  BY <1>6
<1> QED BY <1>2, <1>3, <1>4, <1>5, <1>7

-----------------------------------------------------------------------------
(* From one phase to the next *)

\* The thread goes on.
LEMMA FaseSigue ==
  ASSUME IInv, Sigue, a_cpu = <<>>, a_kernel' = <<>>, ~ejecutando_proceso, cpu_pc = "urgente", avanzo,
         hilo_EXEC \in Vivos', UNCHANGED <<enCpu, avanzo>>
  PROVE  Fase'
<1>1. hilo_EXEC' = hilo_EXEC /\ hilo_EXEC \in Hilos /\ kernel' = "recibe"
  BY DEF Sigue, Vivos
<1>2. a_cpu' = enviar_a_ejecucion(hilo_EXEC)
  <2>1. enviar_a_ejecucion(hilo_EXEC) \in Seq(Int)
    BY <1>1, TurnoEsSecuencia
  <2> QED BY <2>1, ConcatEmptySeq DEF Sigue
<1>3. a_cpu' = enviar_a_ejecucion(hilo_EXEC')
  BY <1>1, <1>2
<1>4. TurnoEnCamino'
  BY <1>1, <1>3 DEF TurnoEnCamino, EnCuenta, enCpu
<1> QED BY <1>4 DEF Fase

\* The thread leaves the cpu.
LEMMA FaseDeja ==
  ASSUME DejaDeEjecutar, a_cpu = <<>>, a_kernel' = <<>>, ~ejecutando_proceso, Libre, UNCHANGED enCpu
  PROVE  Fase'
<1>1. SinNadie'
  BY DEF DejaDeEjecutar, SinNadie, Vacias, Libre, enCpu
<1> QED BY <1>1 DEF Fase

\* The kernel answers a request.
LEMMA FaseResponde ==
  ASSUME IInv, Pedida, cpu_pc = "bloqueante", a_kernel' = <<>>, UNCHANGED <<enCpu, avanzo, contextos>>,
         \/ Responde(Bloqueante, "elige_tras_acuse")
         \/ Responde(NoBloqueante, "sigue_tras_acuse")
  PROVE  Fase'
<1>1. Bloqueante \in Seq(Int) /\ NoBloqueante \in Seq(Int)
  BY DEF Bloqueante, NoBloqueante, enviar_int
<1>2. a_cpu = <<>>
  BY DEF Pedida
<1>3. \/ a_cpu' = Bloqueante /\ kernel' = "elige_tras_acuse"
      \/ a_cpu' = NoBloqueante /\ kernel' = "sigue_tras_acuse"
  BY <1>1, <1>2, ConcatEmptySeq DEF Responde
<1>4. hilo_EXEC' = hilo_EXEC
  BY DEF Responde
<1>5. ElMismo'
  BY <1>4 DEF Pedida, ElMismo, Vivos, enCpu
<1>6. Bloqueante' = Bloqueante /\ NoBloqueante' = NoBloqueante
  BY DEF Bloqueante, NoBloqueante, enviar_int
<1>7. Contestada'
  BY <1>3, <1>5, <1>6 DEF Contestada, Pedida, enCpu
<1> QED BY <1>7 DEF Fase

-----------------------------------------------------------------------------
(* The steps of the cpu *)

\* A step that moves no thread from one queue to another.
LEMMA LugaresQuietos ==
  ASSUME IInv, UNCHANGED colas, Vivos' = Vivos,
         \/ hilo_EXEC' = Nadie
         \/ hilo_EXEC' = hilo_EXEC /\ (kernel = "elige_tras_acuse" => kernel' = "elige_tras_acuse")
  PROVE  Lugares' /\ EnNEW'
<1>1. Nadie \notin Vivos
  BY ConstantesDelDespacho DEF Vivos
<1>2. Lugares'
  BY <1>1 DEF IInv, Lugares, colas
<1>3. EnNEW'
  BY DEF IInv, EnNEW, colas
<1> QED BY <1>2, <1>3

\* A context of a thread that lives is written: the same threads live.
LEMMA MismosVivos ==
  ASSUME TipoDeDatos, actual \in Vivos, NEW n \in Nat, contextos' = [contextos EXCEPT ![actual] = n]
  PROVE  Vivos' = Vivos /\ contextos' \in [Hilos -> Nat \cup {NoHay}]
<1>1. actual \in Hilos /\ contextos \in [Hilos -> Nat \cup {NoHay}] /\ contextos[actual] # NoHay
  BY DEF Vivos, TipoDeDatos
<1>2. n # NoHay
  BY ConstantesDelDespacho
<1>3. \A h \in Hilos : contextos'[h] # NoHay <=> contextos[h] # NoHay
  BY <1>1, <1>2
<1>4. Vivos' = Vivos
  BY <1>3 DEF Vivos
<1> QED BY <1>1, <1>4

\* Any request: what is left to say is which one, and where the cpu waits.
LEMMA PidePaso ==
  ASSUME IInv, NEW nombre, NEW m \in Seq(Int), Pedido(nombre, m)
  PROVE  /\ a_kernel' = m /\ a_cpu' = <<>> /\ ejecutando_proceso' = FALSE /\ avanzo' = TRUE
         /\ ElMismo' /\ EnCuenta' /\ actual' = actual /\ en_io' = en_io
         /\ TipoDeDatos' /\ Lugares' /\ EnNEW' /\ Avisados'
<1>1. Corriendo
  BY DEF Pedido, IInv, Fase, Pedida, Contestada, Acusada, TurnoEnCamino, SinNadie, Ajena, Libre
<1>2. TipoDeDatos /\ actual \in Vivos /\ hilo_EXEC = actual /\ a_kernel = <<>> /\ a_cpu = <<>>
  BY <1>1 DEF Corriendo, ElMismo, IInv, Vacias
<1>3. registros + 1 \in Nat
  BY <1>2 DEF TipoDeDatos
<1>4. /\ registros' = registros + 1 /\ avanzo' = TRUE /\ ejecutando_proceso' = FALSE
      /\ contextos' = [contextos EXCEPT ![actual] = registros + 1]
      /\ a_kernel' = a_kernel \o m
      /\ UNCHANGED <<hilo_EXEC, colas, kernel, ajeno, quantum, a_cpu, actual, interrupt_flag>>
  BY DEF Pedido, actualizar_contexto, enKernel
<1>5. Vivos' = Vivos /\ contextos' \in [Hilos -> Nat \cup {NoHay}]
  BY <1>2, <1>3, <1>4, MismosVivos
<1>6. a_kernel' = m
  BY <1>2, <1>4, ConcatEmptySeq
<1>7. TipoDeDatos'
  BY <1>2, <1>3, <1>4, <1>5 DEF TipoDeDatos, quantum, colas
<1>8. Lugares' /\ EnNEW'
  BY <1>4, <1>5, LugaresQuietos
<1>9. Avisados'
  BY <1>4 DEF IInv, Avisados, quantum
<1>10. ElMismo' /\ EnCuenta'
  BY <1>1, <1>2, <1>4, <1>5 DEF ElMismo, EnCuenta, Corriendo
<1> QED BY <1>2, <1>4, <1>6, <1>7, <1>8, <1>9, <1>10 DEF colas

\* A thread that gives the cpu up keeps the invariant.
LEMMA CedeOk ==
  ASSUME IInv, NEW nombre, NEW m \in Cesiones, Cede(nombre, m),
         Head(m) \in {OP_FINALIZAR_PROCESO, OP_SEGMENTATION_FAULT} => SinHermanosEnIO
  PROVE  IInv'
<1>0. actual[2] \in Int
  <2>1. Corriendo
    BY DEF Cede, Pedido, IInv, Fase, Pedida, Contestada, Acusada, TurnoEnCamino, SinNadie, Ajena,
           Libre
  <2>2. actual \in Hilos
    BY <2>1 DEF Corriendo, ElMismo, Vivos
  <2> QED BY <2>2, Pares
<1>1. m \in Seq(Int) /\ Head(m) # OP_CANCELAR_HILO
  <2>1. \/ m = <<16>> \/ m = <<22, 4, 0>> \/ m = <<14>> \/ m = <<13>>
        \/ m = <<8, 4, actual[2]>> \/ m = <<7, 4, actual[2]>>
    BY DEF Cesiones, dump_memory, io, thread_exit, process_exit, motivo, enviar_operacion,
           enviar_int
  <2>2. ASSUME NEW o \in {16, 14, 13}, m = <<o>> PROVE m \in Seq(Int) /\ Head(m) = o
    BY <2>2
  <2>3. ASSUME NEW o \in {22, 8, 7}, NEW v \in Int, m = <<o, 4, v>>
        PROVE  m \in Seq(Int) /\ Head(m) = o
    BY <2>3
  <2> QED BY <2>1, <2>2, <2>3, <1>0
<1>2. Pedido(nombre, m) /\ cpu_pc' = "interrupcion"
  BY DEF Cede
<1>3. /\ a_kernel' = m /\ a_cpu' = <<>> /\ ejecutando_proceso' = FALSE /\ avanzo' = TRUE
      /\ ElMismo' /\ EnCuenta' /\ actual' = actual /\ en_io' = en_io
      /\ TipoDeDatos' /\ Lugares' /\ EnNEW' /\ Avisados'
  BY <1>1, <1>2, PidePaso
<1>4. SinHermanosEnIO' = SinHermanosEnIO
  BY <1>3 DEF SinHermanosEnIO, DelProceso
<1>5. m \in Cesiones'
  BY <1>3 DEF Cesiones, motivo, dump_memory, io, thread_exit, process_exit
<1>6. Pedida'
  BY <1>1, <1>2, <1>3, <1>4, <1>5 DEF Pedida, Libre, CancelaFueraDeIO, TerminaSinHermanosEnIO
<1> QED BY <1>3, <1>6 DEF IInv, Fase

\* A thread that goes on at once keeps the invariant.
LEMMA ContinuaOk ==
  ASSUME IInv, NEW nombre, NEW m \in Avisos, Continua(nombre, m), m \in Seq(Int),
         Head(m) \notin {OP_FINALIZAR_PROCESO, OP_SEGMENTATION_FAULT},
         Head(m) = OP_CANCELAR_HILO => <<actual[1], m[3]>> \notin en_io
  PROVE  IInv'
<1>2. Pedido(nombre, m) /\ cpu_pc' = "urgente"
  BY DEF Continua
<1>3. /\ a_kernel' = m /\ a_cpu' = <<>> /\ ejecutando_proceso' = FALSE /\ avanzo' = TRUE
      /\ ElMismo' /\ EnCuenta' /\ actual' = actual /\ en_io' = en_io
      /\ TipoDeDatos' /\ Lugares' /\ EnNEW' /\ Avisados'
  BY <1>2, PidePaso
<1>5. m \in Avisos'
  BY <1>3 DEF Avisos
<1>6. Pedida'
  BY <1>2, <1>3, <1>5 DEF Pedida, CancelaFueraDeIO, TerminaSinHermanosEnIO
<1> QED BY <1>3, <1>6 DEF IInv, Fase

\* A thread that may block keeps the invariant.
LEMMA ConsultaOk ==
  ASSUME IInv, NEW nombre, NEW m \in Consultas, Consulta(nombre, m)
  PROVE  IInv'
<1>1. m \in Seq(Int) /\ Head(m) \in {OP_THREAD_JOIN, OP_MUTEX_LOCK, OP_MUTEX_UNLOCK}
  <2>1. \/ m = <<20, 4, 0>> \/ m = <<21, 4, 0>> \/ \E t \in TIDs : m = <<17, 4, t>>
    BY DEF Consultas, mutex_lock, mutex_unlock, thread_join, enviar_int, enviar_string
  <2>2. PICK o \in {17, 20, 21}, v \in Int : m = <<o, 4, v>>
    <3>1. TIDs \subseteq Int
      BY Pares DEF TIDs
    <3> QED BY <2>1, <3>1
  <2> QED BY <2>2
<1>2. Pedido(nombre, m) /\ cpu_pc' = "bloqueante"
  BY DEF Consulta
<1>3. /\ a_kernel' = m /\ a_cpu' = <<>> /\ ejecutando_proceso' = FALSE /\ avanzo' = TRUE
      /\ ElMismo' /\ EnCuenta' /\ actual' = actual /\ en_io' = en_io
      /\ TipoDeDatos' /\ Lugares' /\ EnNEW' /\ Avisados'
  BY <1>1, <1>2, PidePaso
<1>6. Pedida'
  BY <1>1, <1>2, <1>3 DEF Pedida, CancelaFueraDeIO, TerminaSinHermanosEnIO
<1> QED BY <1>3, <1>6 DEF IInv, Fase

\* Every syscall keeps the invariant.
LEMMA ExecuteOk ==
  ASSUME IInv, Execute
  PROVE  IInv'
<1>1. ASSUME NEW nombre, NEW o \in {16, 14, 13, 22}, NEW m, m \in Cesiones, Cede(nombre, m),
             m = <<o>> \/ m = <<o, 4, 0>>, o = 13 => SinHermanosEnIO
      PROVE  IInv'
  <2>1. Head(m) = o
    BY <1>1
  <2> QED BY <2>1, <1>1, CedeOk
<1>2. ASSUME Cede("DUMP_MEMORY", dump_memory) PROVE IInv'
  BY <1>1, <1>2 DEF Cesiones, dump_memory, enviar_operacion
<1>3. ASSUME Cede("IO", io) PROVE IInv'
  BY <1>1, <1>3 DEF Cesiones, io, enviar_int
<1>4. ASSUME Cede("THREAD_EXIT", thread_exit) PROVE IInv'
  BY <1>1, <1>4 DEF Cesiones, thread_exit, enviar_operacion
<1>5. ASSUME SinHermanosEnIO, Cede("PROCESS_EXIT", process_exit) PROVE IInv'
  BY <1>1, <1>5 DEF Cesiones, process_exit, enviar_operacion
<1>6. ASSUME SinHermanosEnIO, Cede("SEGMENTATION_FAULT", motivo(OP_SEGMENTATION_FAULT)) PROVE IInv'
  BY <1>6, CedeOk DEF Cesiones
<1>7. ASSUME Continua("PROCESS_CREATE", process_create) PROVE IInv'
  <2>1. process_create \in Avisos
    BY DEF Avisos
  <2>2. process_create \in Seq(Int) /\ Head(process_create) = 4
    <3>1. process_create = <<4, 24, 4, 0, 4, 0, 4, 0>>
      BY Mensajes
    <3> QED BY <3>1
  <2>3. Head(process_create) \notin {OP_FINALIZAR_PROCESO, OP_SEGMENTATION_FAULT}
    BY <2>2
  <2>4. Head(process_create) = OP_CANCELAR_HILO => <<actual[1], process_create[3]>> \notin en_io
    BY <2>2
  <2> QED BY <1>7, <2>1, <2>2, <2>3, <2>4, ContinuaOk, Zenon
<1>8. ASSUME Continua("THREAD_CREATE", thread_create) PROVE IInv'
  <2>1. thread_create \in Avisos
    BY DEF Avisos
  <2>2. thread_create \in Seq(Int) /\ Head(thread_create) = 23
    <3>1. thread_create = <<23, 16, 4, 0, 4, 0>>
      BY Mensajes
    <3> QED BY <3>1
  <2>3. Head(thread_create) \notin {OP_FINALIZAR_PROCESO, OP_SEGMENTATION_FAULT}
    BY <2>2
  <2>4. Head(thread_create) = OP_CANCELAR_HILO => <<actual[1], thread_create[3]>> \notin en_io
    BY <2>2
  <2> QED BY <1>8, <2>1, <2>2, <2>3, <2>4, ContinuaOk, Zenon
<1>9. ASSUME Continua("MUTEX_CREATE", mutex_create) PROVE IInv'
  <2>1. mutex_create \in Avisos
    BY DEF Avisos
  <2>2. mutex_create \in Seq(Int) /\ Head(mutex_create) = 19
    BY DEF mutex_create, enviar_string
  <2>3. Head(mutex_create) \notin {OP_FINALIZAR_PROCESO, OP_SEGMENTATION_FAULT}
    BY <2>2
  <2>4. Head(mutex_create) = OP_CANCELAR_HILO => <<actual[1], mutex_create[3]>> \notin en_io
    BY <2>2
  <2> QED BY <1>9, <2>1, <2>2, <2>3, <2>4, ContinuaOk, Zenon
<1>10. ASSUME Consulta("MUTEX_LOCK", mutex_lock) PROVE IInv'
  BY <1>10, ConsultaOk DEF Consultas
<1>11. ASSUME Consulta("MUTEX_UNLOCK", mutex_unlock) PROVE IInv'
  BY <1>11, ConsultaOk DEF Consultas
<1>12. ASSUME NEW tid \in TIDs, Consulta("THREAD_JOIN", thread_join(tid)) PROVE IInv'
  <2>1. thread_join(tid) \in Consultas
    BY DEF Consultas
  <2> QED BY <1>12, <2>1, ConsultaOk
<1>13. ASSUME NEW tid \in TIDs \ {actual[2]}, <<actual[1], tid>> \notin en_io,
              Continua("THREAD_CANCEL", thread_cancel(tid))
       PROVE  IInv'
  <2> DEFINE m == thread_cancel(tid)
  <2>1. m \in Avisos
    BY DEF Avisos
  <2>2. m = <<15, 4, tid>> /\ tid \in Int
    BY Pares DEF thread_cancel, enviar_int, TIDs
  <2> HIDE DEF m
  <2>3. m \in Seq(Int) /\ Head(m) = 15 /\ m[3] = tid
    BY <2>2
  <2>4. Continua("THREAD_CANCEL", m)
    BY <1>13 DEF m
  <2> QED BY <1>13, <2>1, <2>3, <2>4, ContinuaOk
<1> QED BY <1>2, <1>3, <1>4, <1>5, <1>6, <1>7, <1>8, <1>9, <1>10, <1>11, <1>12, <1>13 DEF Execute

\* Outside an instruction and its answers, where the cpu is does not change the phase.
LEMMA FaseLibre ==
  ASSUME IInv, cpu_pc \in {"inicio", "interrupcion"},
         UNCHANGED <<enKernel, a_kernel, a_cpu, actual, ejecutando_proceso, contextos, avanzo>>,
         cpu_pc' \in IF ejecutando_proceso THEN {"execute", "inicio"} ELSE {"inicio", "espera"}
  PROVE  Fase'
<1>1. UNCHANGED <<hilo_EXEC, kernel, ajeno, cola_READY, en_io>> /\ Vivos' = Vivos
  BY DEF enKernel, colas, Vivos
<1>2. \/ Corriendo \/ Pedida \/ Acusada \/ TurnoEnCamino \/ SinNadie
  BY DEF IInv, Fase, Contestada, Ajena
<1>3. CASE Corriendo
  <2>1. Corriendo'
    BY <1>1, <1>3 DEF Corriendo, Vacias, ElMismo, EnCuenta
  <2> QED BY <2>1 DEF Fase
<1>4. CASE Pedida
  <2>1. Cesiones' = Cesiones
    BY DEF Cesiones, motivo, dump_memory, io, thread_exit, process_exit
  <2>2. CancelaFueraDeIO' /\ TerminaSinHermanosEnIO'
    BY <1>1, <1>4 DEF Pedida, CancelaFueraDeIO, TerminaSinHermanosEnIO, SinHermanosEnIO, DelProceso
  <2>3. Pedida'
    BY <1>1, <1>4, <2>1, <2>2 DEF Pedida, ElMismo, EnCuenta, Libre
  <2> QED BY <2>3 DEF Fase
<1>5. CASE Acusada
  <2>1. Acusada'
    BY <1>1, <1>5 DEF Acusada, ElMismo, Libre
  <2> QED BY <2>1 DEF Fase
<1>6. CASE TurnoEnCamino
  <2>1. enviar_a_ejecucion(hilo_EXEC') = enviar_a_ejecucion(hilo_EXEC)
    BY <1>1
  <2>2. TurnoEnCamino'
    BY <1>1, <1>6, <2>1 DEF TurnoEnCamino, EnCuenta, Libre
  <2> QED BY <2>2 DEF Fase
<1>7. CASE SinNadie
  <2>1. SinNadie'
    BY <1>1, <1>7 DEF SinNadie, Vacias, Libre
  <2> QED BY <2>1 DEF Fase
<1> QED BY <1>2, <1>3, <1>4, <1>5, <1>6, <1>7

\* The instructions that make no request, and the top of the loop.
LEMMA BucleOk ==
  ASSUME IInv, ExecuteLocal \/ Inicio
  PROVE  IInv'
<1>1. /\ UNCHANGED <<enKernel, quantum, a_kernel, a_cpu, actual, ejecutando_proceso, contextos>>
      /\ Vivos' = Vivos
  BY DEF ExecuteLocal, Inicio, Vivos
<1>2. Lugares' /\ EnNEW' /\ Avisados'
  <2>1. UNCHANGED <<hilo_EXEC, colas, kernel, interrupciones>>
    BY <1>1 DEF enKernel, quantum
  <2>2. Lugares' /\ EnNEW'
    BY <1>1, <2>1, LugaresQuietos
  <2> QED BY <2>1, <2>2 DEF IInv, Avisados
<1>3. CASE ExecuteLocal
  <2>1. Corriendo
    BY <1>3 DEF ExecuteLocal, IInv, Fase, Pedida, Contestada, Acusada, TurnoEnCamino, SinNadie,
               Ajena, Libre
  <2>2. Corriendo'
    BY <1>1, <1>3, <2>1 DEF ExecuteLocal, Corriendo, Vacias, ElMismo, EnCuenta, enKernel
  <2>3. TipoDeDatos'
    BY <1>1, <1>3 DEF ExecuteLocal, IInv, TipoDeDatos, enKernel, colas, quantum
  <2> QED BY <1>2, <2>2, <2>3 DEF IInv, Fase
<1>4. CASE Inicio
  <2>1. TipoDeDatos'
    BY <1>1, <1>4 DEF Inicio, IInv, TipoDeDatos, enKernel, colas, quantum
  <2>2. Fase'
    BY <1>1, <1>4, FaseLibre DEF Inicio
  <2> QED BY <1>2, <2>1, <2>2 DEF IInv
<1> QED BY <1>3, <1>4

\* The turn arrives, after a wait or at once.
LEMMA RecibirHiloOk ==
  ASSUME IInv, RecibirTurno \/ RecuperarContexto
  PROVE  IInv'
<1>1. PICK despues \in {"execute", "interrupcion"} :
        RecibirHilo(despues) /\ cpu_pc \in {"espera", "urgente"}
        /\ (despues = "interrupcion" => cpu_pc = "urgente")
  BY DEF RecibirTurno, RecuperarContexto
<1>2. /\ TurnoEnCamino /\ actual' = hilo_EXEC /\ a_cpu' = <<>>
      /\ registros' = contextos[hilo_EXEC] /\ hilo_EXEC \in Vivos
  BY <1>1, LlegaTurno
<1>3. /\ ejecutando_proceso' = TRUE /\ cpu_pc' = despues
      /\ UNCHANGED <<hilo_EXEC, colas, kernel, ajeno, quantum, a_kernel, interrupt_flag, contextos,
                     avanzo>>
  BY <1>1 DEF RecibirHilo, enKernel
<1>4. Vivos' = Vivos
  BY <1>3 DEF Vivos
<1>5. Lugares' /\ EnNEW' /\ Avisados'
  <2>1. Lugares' /\ EnNEW'
    BY <1>3, <1>4, LugaresQuietos
  <2> QED BY <1>3, <2>1 DEF IInv, Avisados, quantum
<1>6. TipoDeDatos'
  <2>1. hilo_EXEC \in Hilos /\ contextos[hilo_EXEC] \in Nat
    BY <1>2 DEF Vivos, IInv, TipoDeDatos
  <2> QED BY <1>2, <1>3, <2>1 DEF IInv, TipoDeDatos, colas, quantum
<1>7. Corriendo'
  BY <1>1, <1>2, <1>3, <1>4 DEF TurnoEnCamino, Corriendo, Vacias, ElMismo, EnCuenta, Libre
<1> QED BY <1>5, <1>6, <1>7 DEF IInv, Fase

\* The answer arrives and is acknowledged.
LEMMA RevisarBloqueanteOk ==
  ASSUME IInv, revisar_bloqueante
  PROVE  IInv'
<1>1. /\ Contestada /\ a_cpu' = <<>> /\ a_kernel' = <<OP_ES_BLOQUEANTE>>
      /\ cpu_pc' = IF a_cpu = NoBloqueante THEN "urgente" ELSE "interrupcion"
  BY LlegaRespuesta
<1>2. UNCHANGED <<hilo_EXEC, colas, kernel, ajeno, quantum, actual, registros, ejecutando_proceso,
                  interrupt_flag, contextos, avanzo>>
  BY DEF revisar_bloqueante, enKernel
<1>3. Vivos' = Vivos
  BY <1>2 DEF Vivos
<1>4. Lugares' /\ EnNEW' /\ Avisados'
  <2>1. Lugares' /\ EnNEW'
    BY <1>2, <1>3, LugaresQuietos
  <2> QED BY <1>2, <2>1 DEF IInv, Avisados, quantum
<1>5. TipoDeDatos'
  BY <1>2 DEF IInv, TipoDeDatos, colas, quantum
<1>6. Bloqueante # NoBloqueante
  BY DEF Bloqueante, NoBloqueante, enviar_int
<1>7. Acusada'
  BY <1>1, <1>2, <1>3, <1>6 DEF Contestada, Acusada, ElMismo, Libre
<1> QED BY <1>4, <1>5, <1>7 DEF IInv, Fase

\* The check of the interrupt: a preemption is a request like any other.
LEMMA RevisarInterrupcionOk ==
  ASSUME IInv, RevisarInterrupcion
  PROVE  IInv'
<1>1. /\ cpu_pc = "interrupcion" /\ cpu_pc' = "inicio"
      /\ UNCHANGED <<enKernel, hilo_EXEC, colas, kernel, ajeno, quantum, a_cpu, actual, registros, avanzo>>
  BY DEF RevisarInterrupcion, enKernel
<1>2. CASE Interrumpible /\ actualizar_contexto(registros) /\ interrupt_flag' = FALSE
           /\ a_kernel' = a_kernel \o motivo(OP_INTERRUPT)
  <2>1. Corriendo
    BY <1>1, <1>2 DEF Interrumpible, IInv, Fase, Pedida, Contestada, Acusada, TurnoEnCamino, SinNadie,
                     Ajena
  <2>2. /\ TipoDeDatos /\ actual \in Vivos /\ actual \in Hilos /\ hilo_EXEC = actual /\ avanzo
        /\ a_kernel = <<>> /\ a_cpu = <<>> /\ registros \in Nat
    BY <1>1, <2>1 DEF Corriendo, ElMismo, IInv, Vacias, TipoDeDatos, Vivos
  <2>3. ejecutando_proceso' = FALSE /\ contextos' = [contextos EXCEPT ![actual] = registros]
    BY <1>2 DEF actualizar_contexto
  <2>4. Vivos' = Vivos /\ contextos' \in [Hilos -> Nat \cup {NoHay}]
    BY <2>2, <2>3, MismosVivos
  <2>5. Lugares' /\ EnNEW'
    BY <1>1, <2>4, LugaresQuietos
  <2>6. Avisados'
    BY <1>1 DEF IInv, Avisados, quantum
  <2>7. TipoDeDatos'
    BY <1>1, <1>2, <2>2, <2>3, <2>4 DEF TipoDeDatos, colas, quantum
  <2>8. motivo(OP_INTERRUPT) = <<7, 4, actual[2]>> /\ actual[2] \in Int
    BY <2>2, Pares DEF motivo, enviar_int
  <2>9. a_kernel' = <<7, 4, actual[2]>>
    <3>1. \A v \in Int : <<7, 4, v>> \in Seq(Int)
      OBVIOUS
    <3> QED BY <1>2, <2>2, <2>8, <3>1, ConcatEmptySeq
  <2>10. a_kernel' \in Cesiones' /\ Head(a_kernel') = 7
    BY <1>1, <2>9 DEF Cesiones, motivo, enviar_int
  <2>11. Pedida'
    BY <1>1, <2>1, <2>2, <2>3, <2>4, <2>10
       DEF Corriendo, Pedida, ElMismo, EnCuenta, Libre, CancelaFueraDeIO, TerminaSinHermanosEnIO
  <2> QED BY <2>5, <2>6, <2>7, <2>11 DEF IInv, Fase
<1>3. CASE UNCHANGED <<a_kernel, ejecutando_proceso, interrupt_flag, contextos>>
  <2>1. Vivos' = Vivos
    BY <1>3 DEF Vivos
  <2>2. Lugares' /\ EnNEW'
    BY <1>1, <2>1, LugaresQuietos
  <2>3. Avisados'
    BY <1>1 DEF IInv, Avisados, quantum
  <2>4. TipoDeDatos'
    BY <1>1, <1>3 DEF IInv, TipoDeDatos, colas, quantum
  <2>5. Fase'
    BY <1>1, <1>3, FaseLibre
  <2> QED BY <2>2, <2>3, <2>4, <2>5 DEF IInv
<1> QED BY <1>2, <1>3 DEF RevisarInterrupcion

-----------------------------------------------------------------------------
(* Interrupts and quanta *)

\* A step that neither side of the dispatch connection takes.
LEMMA FaseQuieta ==
  ASSUME Fase, en_io' \subseteq en_io, hilo_EXEC = Nadie => cola_READY' = cola_READY,
         UNCHANGED <<hilo_EXEC, kernel, ajeno, a_kernel, a_cpu, cpu_pc, actual, ejecutando_proceso,
                     contextos, avanzo>>
  PROVE  Fase'
<1>1. Vivos' = Vivos /\ Cesiones' = Cesiones /\ Avisos' = Avisos /\ Consultas' = Consultas
  BY DEF Vivos, Cesiones, Avisos, Consultas, motivo
<1>2. CASE Pedida
  <2>1. Pedida'
    BY <1>1, <1>2 DEF Pedida, ElMismo, EnCuenta, Libre, CancelaFueraDeIO, TerminaSinHermanosEnIO,
                     SinHermanosEnIO, DelProceso
  <2> QED BY <2>1 DEF Fase
<1>3. CASE Corriendo \/ Contestada \/ Acusada \/ SinNadie \/ Ajena
  <2>1. (Corriendo \/ Contestada \/ Acusada \/ SinNadie \/ Ajena)'
    BY <1>1, <1>3 DEF Corriendo, Contestada, Acusada, SinNadie, Ajena, Vacias, ElMismo, EnCuenta, Libre,
                     Bloqueante, NoBloqueante
  <2> QED BY <2>1 DEF Fase
<1>4. CASE TurnoEnCamino
  <2>1. enviar_a_ejecucion(hilo_EXEC') = enviar_a_ejecucion(hilo_EXEC)
    OBVIOUS
  <2>2. TurnoEnCamino'
    BY <1>1, <1>4, <2>1 DEF TurnoEnCamino, EnCuenta, Libre
  <2> QED BY <2>2 DEF Fase
<1> QED BY <1>2, <1>3, <1>4 DEF Fase

\* A whole message more on the interrupt connection.
LEMMA UnAvisoMas ==
  ASSUME IInv, NEW v \in Int, interrupciones' = interrupciones \o <<OP_INTERRUPT, 4, v>>
  PROVE  Avisados' /\ interrupciones' \in Seq(Int)
<1> DEFINE s == interrupciones
           m == <<7, 4, v>>
<1>1. PICK k \in 0 .. Len(s) :
        Len(s) = 3 * k /\ \A j \in 0 .. k - 1 : s[3 * j + 2] = 4
  BY DEF IInv, Avisados
<1>2. s \in Seq(Int) /\ Len(s) \in Nat
  BY DEF IInv, TipoDeDatos
<1>3. m \in Seq(Int) /\ Len(m) = 3 /\ m[2] = 4
  OBVIOUS
<1>4. interrupciones' = s \o m
  OBVIOUS
<1> HIDE DEF s, m
<1> DEFINE t == s \o m
<1>5. /\ t \in Seq(Int) /\ Len(t) = Len(s) + Len(m)
      /\ \A i \in 1 .. Len(s) + Len(m) : t[i] = IF i <= Len(s) THEN s[i] ELSE m[i - Len(s)]
  BY <1>2, <1>3, ConcatProperties
<1> HIDE DEF t
<1>6. Len(t) = 3 * (k + 1) /\ k + 1 \in 0 .. Len(t)
  BY <1>1, <1>2, <1>3, <1>5
<1>7. ASSUME NEW j \in 0 .. k + 1 - 1 PROVE t[3 * j + 2] = 4
  <2>1. 3 * j + 2 \in 1 .. Len(s) + Len(m)
    BY <1>1, <1>2, <1>3
  <2>2. CASE j < k
    <3>1. j \in 0 .. k - 1 /\ 3 * j + 2 <= Len(s)
      BY <1>1, <1>2, <2>2
    <3> QED BY <1>1, <1>5, <2>1, <3>1
  <2>3. CASE j = k
    <3>1. ~(3 * j + 2 <= Len(s)) /\ 3 * j + 2 - Len(s) = 2
      BY <1>1, <1>2, <2>3
    <3> QED BY <1>3, <1>5, <2>1, <3>1
  <2>4. j < k \/ j = k
    BY <1>1, <1>2
  <2> QED BY <2>2, <2>3, <2>4
<1>a. interrupciones' = t
  BY <1>4 DEF t
<1>8. \E n \in 0 .. Len(t) : Len(t) = 3 * n /\ \A j \in 0 .. n - 1 : t[3 * j + 2] = 4
  <2> DEFINE n == k + 1
  <2>1. n \in 0 .. Len(t) /\ Len(t) = 3 * n /\ \A j \in 0 .. n - 1 : t[3 * j + 2] = 4
    BY <1>6, <1>7
  <2> HIDE DEF n
  <2> QED BY <2>1, Zenon
<1>9. Avisados'
  BY <1>a, <1>8 DEF Avisados
<1> QED BY <1>a, <1>5, <1>9

\* The reader takes one whole message.
LEMMA UnAvisoMenos ==
  ASSUME IInv, interrupciones # <<>>, interrupciones' = recibir_int(Tail(interrupciones)).resto
  PROVE  Avisados' /\ interrupciones' \in Seq(Int)
<1> DEFINE s == interrupciones
           u == Tail(s)
           t == SubSeq(u, 3, Len(u))
<1>1. PICK k \in 0 .. Len(s) :
        Len(s) = 3 * k /\ \A j \in 0 .. k - 1 : s[3 * j + 2] = 4
  BY DEF IInv, Avisados
<1>2. s \in Seq(Int) /\ Len(s) \in Nat /\ Len(s) # 0 /\ s # <<>>
  <2>1. s \in Seq(Int)
    BY DEF IInv, TipoDeDatos
  <2> QED BY <2>1
<1>3. k >= 1 /\ k - 1 \in Nat /\ 0 \in 0 .. k - 1
  BY <1>1, <1>2
<1>4. s[2] = 4
  <2>1. s[3 * 0 + 2] = 4
    BY <1>1, <1>3
  <2> QED BY <2>1
<1>5. u \in Seq(Int) /\ Len(u) = Len(s) - 1 /\ \A i \in 1 .. Len(s) - 1 : u[i] = s[i + 1]
  BY <1>2, HeadTailProperties
<1>6. Head(u) = 4 /\ u # <<>>
  <2>1. 1 \in 1 .. Len(s) - 1
    BY <1>1, <1>2, <1>3
  <2>2. u[1] = 4 /\ Len(u) # 0
    BY <1>4, <1>5, <2>1
  <2> HIDE DEF u
  <2> QED BY <2>2, <1>5
<1>7. interrupciones' = t
  <2>1. recibir_int(u).resto = SubSeq(u, (Head(u) \div 4) + 2, Len(u))
    BY DEF recibir_int, recibir_buffer
  <2>2. (Head(u) \div 4) + 2 = 3
    BY <1>6
  <2> QED BY <2>1, <2>2
<1> HIDE DEF s, u
<1>8. t \in Seq(Int) /\ Len(t) = Len(u) - 2 /\ \A i \in 1 .. Len(u) - 2 : t[i] = u[i + 2]
  <2>1. Len(u) >= 2 /\ Len(u) \in Nat
    BY <1>1, <1>2, <1>3, <1>5
  <2>a. \A c \in Nat : c >= 2 => (IF 3 <= c THEN c - 3 + 1 ELSE 0) = c - 2
    OBVIOUS
  <2>0. (IF 3 <= Len(u) THEN Len(u) - 3 + 1 ELSE 0) = Len(u) - 2
    BY <2>1, <2>a, Zenon
  <2>2. \A i \in 3 .. Len(u) : u[i] \in Int
    BY <1>5
  <2>3. /\ t \in Seq(Int)
        /\ Len(t) = IF 3 <= Len(u) THEN Len(u) - 3 + 1 ELSE 0
        /\ \A i \in 1 .. Len(u) - 3 + 1 : t[i] = u[3 + i - 1]
    BY <2>1, <2>2, SubSeqProperties
  <2>4. \A i \in Int : 3 + i - 1 = i + 2
    OBVIOUS
  <2>5. Len(u) - 3 + 1 = Len(u) - 2
    BY <2>1
  <2> HIDE DEF t
  <2>6. Len(t) = Len(u) - 2
    BY <2>0, <2>3
  <2>7. ASSUME NEW i \in 1 .. Len(u) - 2 PROVE t[i] = u[i + 2]
    <3>1. i \in 1 .. Len(u) - 3 + 1 /\ 3 + i - 1 = i + 2
      BY <2>5, <2>1
    <3> QED BY <2>3, <3>1
  <2> QED BY <2>3, <2>6, <2>7
<1> HIDE DEF t
<1>9. Len(t) = 3 * (k - 1) /\ k - 1 \in 0 .. Len(t)
  BY <1>1, <1>2, <1>3, <1>5, <1>8
<1>10. ASSUME NEW j \in 0 .. (k - 1) - 1 PROVE t[3 * j + 2] = 4
  <2>1. 3 * j + 2 \in 1 .. Len(u) - 2 /\ 3 * j + 2 + 2 \in 1 .. Len(s) - 1 /\ j + 1 \in 0 .. k - 1
    BY <1>1, <1>2, <1>3, <1>5, <1>9
  <2>2. t[3 * j + 2] = u[3 * j + 2 + 2]
    BY <1>8, <2>1
  <2>3. u[3 * j + 2 + 2] = s[3 * j + 2 + 2 + 1]
    BY <1>5, <2>1
  <2>4. 3 * j + 2 + 2 + 1 = 3 * (j + 1) + 2
    BY <2>1
  <2> QED BY <1>1, <2>1, <2>2, <2>3, <2>4
<1>11. Avisados'
  BY <1>7, <1>9, <1>10 DEF Avisados
<1> QED BY <1>7, <1>8, <1>11

\* The interrupt thread of the cpu.
LEMMA InterrupcionesOk ==
  ASSUME IInv, recibir_interrupciones
  PROVE  IInv'
<1>1. /\ UNCHANGED <<hilo_EXEC, colas, kernel, ajeno, cronometro, verificados, a_kernel, a_cpu, cpu_pc,
                     actual, registros, ejecutando_proceso, contextos, avanzo>>
      /\ Vivos' = Vivos
  BY DEF recibir_interrupciones, enKernel, enCpu, Vivos
<1>2. Avisados' /\ interrupciones' \in Seq(Int)
  <2>1. interrupciones # <<>> /\ interrupciones' = recibir_int(Tail(interrupciones)).resto
    BY DEF recibir_interrupciones
  <2> QED BY <2>1, UnAvisoMenos
<1>3. interrupt_flag' \in BOOLEAN
  BY DEF recibir_interrupciones
<1>4. TipoDeDatos'
  BY <1>1, <1>2, <1>3 DEF IInv, TipoDeDatos, colas
<1>5. Lugares' /\ EnNEW'
  BY <1>1, LugaresQuietos
<1>6. Fase'
  BY <1>1, FaseQuieta DEF IInv, colas
<1> QED BY <1>2, <1>4, <1>5, <1>6 DEF IInv

\* The quantum threads: a check, and later a send.
LEMMA QuantumOk ==
  ASSUME IInv, VenceQuantum \/ EnviaInterrupcion
  PROVE  IInv'
<1>1. /\ UNCHANGED <<hilo_EXEC, colas, ajeno, a_kernel, a_cpu, cpu_pc, actual, registros,
                     ejecutando_proceso, interrupt_flag, contextos, avanzo>>
      /\ Vivos' = Vivos
  BY DEF VenceQuantum, EnviaInterrupcion, enKernel, enCpu, Vivos
<1>2. /\ cronometro' \in BOOLEAN /\ verificados' \in 0 .. MaxVerificados
  <2>1. verificados \in 0 .. MaxVerificados /\ cronometro \in BOOLEAN /\ MaxVerificados \in Nat
    BY ConstantesDelDespacho DEF IInv, TipoDeDatos
  <2>2. CASE VenceQuantum
    <3>1. /\ cronometro' = FALSE
          /\ \/ verificados < MaxVerificados /\ verificados' = verificados + 1
             \/ verificados' = verificados
      BY <2>2 DEF VenceQuantum
    <3>2. verificados' \in 0 .. MaxVerificados
      BY <2>1, <3>1
    <3> QED BY <3>1, <3>2
  <2>3. CASE EnviaInterrupcion
    <3>1. cronometro' = cronometro /\ verificados' = verificados - 1 /\ verificados > 0
      BY <2>3 DEF EnviaInterrupcion
    <3> QED BY <2>1, <3>1
  <2> QED BY <2>2, <2>3
<1>3. CASE kernel' = kernel /\ interrupciones' = interrupciones
  <2>1. Lugares' /\ EnNEW'
    BY <1>1, <1>3, LugaresQuietos
  <2>2. Fase'
    BY <1>1, <1>3, FaseQuieta DEF IInv, colas
  <2>3. Avisados' /\ TipoDeDatos'
    BY <1>1, <1>2, <1>3 DEF IInv, Avisados, TipoDeDatos, colas
  <2> QED BY <2>1, <2>2, <2>3 DEF IInv
<1>4. CASE /\ hilo_EXEC # Nadie /\ kernel' = kernel
           /\ interrupciones' = interrupciones \o enviar_int(hilo_EXEC[2], OP_INTERRUPT)
  <2>1. hilo_EXEC \in Hilos
    BY <1>4 DEF IInv, TipoDeDatos
  <2>2. hilo_EXEC[2] \in Int
    BY <2>1, Pares
  <2>3. interrupciones' = interrupciones \o <<OP_INTERRUPT, 4, hilo_EXEC[2]>>
    BY <1>4 DEF enviar_int
  <2>4. Avisados' /\ interrupciones' \in Seq(Int)
    BY <2>2, <2>3, UnAvisoMas
  <2>5. Lugares' /\ EnNEW'
    BY <1>1, <1>4, LugaresQuietos
  <2>6. Fase'
    BY <1>1, <1>4, FaseQuieta DEF IInv, colas
  <2>7. TipoDeDatos'
    BY <1>1, <1>2, <2>4 DEF IInv, TipoDeDatos, colas
  <2> QED BY <2>4, <2>5, <2>6, <2>7 DEF IInv
<1>5. CASE hilo_EXEC = Nadie /\ kernel' = "caido" /\ interrupciones' = interrupciones
  <2>1. Lugares' /\ EnNEW'
    BY <1>1, <1>5, LugaresQuietos
  <2>2. Nadie \notin Vivos
    BY ConstantesDelDespacho DEF Vivos
  <2>3. SinNadie
    BY <1>5, <2>2 DEF IInv, Fase, Corriendo, Pedida, Contestada, Acusada, TurnoEnCamino, Ajena, ElMismo
  <2>4. SinNadie'
    BY <1>1, <1>5, <2>3 DEF SinNadie, Vacias, Libre
  <2>5. Avisados' /\ TipoDeDatos'
    BY <1>1, <1>2, <1>5 DEF IInv, Avisados, TipoDeDatos, colas
  <2> QED BY <2>1, <2>4, <2>5 DEF IInv, Fase
<1>6. CASE VenceQuantum
  BY <1>3, <1>6 DEF VenceQuantum, enKernel
<1>7. CASE EnviaInterrupcion
  BY <1>4, <1>5, <1>7 DEF EnviaInterrupcion
<1> QED BY <1>6, <1>7

-----------------------------------------------------------------------------
(* The steps of the kernel *)

\* What the thread of a request is.
LEMMA EnTurno ==
  ASSUME IInv, Pedida
  PROVE  /\ hilo_EXEC = actual /\ hilo_EXEC \in Hilos /\ hilo_EXEC \in Vivos /\ hilo_EXEC \in creados
         /\ hilo_EXEC # Nadie /\ Nadie \notin Hilos
         /\ a_cpu = <<>> /\ ~ejecutando_proceso /\ avanzo
         /\ hilo_EXEC \notin ToSet(cola_READY) \cup en_io \cup en_espera
<1>1. /\ hilo_EXEC = actual /\ hilo_EXEC \in Vivos /\ a_cpu = <<>> /\ ~ejecutando_proceso /\ avanzo
      /\ kernel # "elige_tras_acuse"
  BY DEF Pedida, ElMismo, EnCuenta
<1>2. hilo_EXEC \in Hilos /\ Nadie \notin Hilos
  BY <1>1, ConstantesDelDespacho DEF Vivos
<1>3. hilo_EXEC \in creados /\ hilo_EXEC \notin ToSet(cola_READY) \cup en_io \cup en_espera
  BY <1>1 DEF IInv, Lugares
<1> QED BY <1>1, <1>2, <1>3

\* What the steps of the kernel leave alone is what they leave alone of the types.
LEMMA MarcoDelKernel ==
  ASSUME IInv, UNCHANGED <<quantum, enCpu, interrupt_flag, avanzo>>,
         hilo_EXEC' \in Hilos \cup {Nadie},
         cola_READY' \in Seq(Hilos), en_io' \cup en_espera' \cup creados' \subseteq Hilos,
         procesos_NEW' \subseteq PIDs, ajeno' \in BOOLEAN, contextos' \in [Hilos -> Nat \cup {NoHay}]
  PROVE  TipoDeDatos' /\ Avisados'
<1>1. TipoDeDatos'
  BY DEF IInv, TipoDeDatos, quantum, enCpu
<1>2. Avisados'
  BY DEF IInv, Avisados, quantum
<1> QED BY <1>1, <1>2

\* The same when no queue changes.
LEMMA MarcoQuieto ==
  ASSUME IInv, UNCHANGED <<quantum, enCpu, interrupt_flag, avanzo, colas, contextos>>,
         ajeno' \in BOOLEAN, hilo_EXEC' \in {hilo_EXEC, Nadie}
  PROVE  TipoDeDatos' /\ Avisados'
<1>1. TipoDeDatos'
  BY DEF IInv, TipoDeDatos, quantum, enCpu, colas
<1>2. Avisados'
  BY DEF IInv, Avisados, quantum
<1> QED BY <1>1, <1>2

\* Threads that are in no queue go to the end of READY.
LEMMA Encola ==
  ASSUME IInv, NEW S \in SUBSET Hilos, S \cap ToSet(cola_READY) = {}, EncolarReady(S)
  PROVE  /\ cola_READY' \in Seq(Hilos) /\ ToSet(cola_READY') = ToSet(cola_READY) \cup S
         /\ IsInjective(cola_READY')
<1>1. IsFiniteSet(S)
  BY ConstantesDelDespacho, FS_Subset
<1> DEFINE z == SetToSeq(S)
<1>2. z \in Seq(S) /\ IsInjective(z) /\ ToSet(z) = S
  BY <1>1, SetToSeqTipo
<1> HIDE DEF z
<1>3. z \in Seq(Hilos)
  BY <1>2
<1>4. cola_READY \in Seq(Hilos) /\ IsInjective(cola_READY)
  BY DEF IInv, TipoDeDatos, Lugares
<1>5. cola_READY' = cola_READY \o z
  BY DEF EncolarReady, z
<1> QED BY <1>2, <1>3, <1>4, <1>5, ConcatSinRepetir

\* What is left of READY, and then the threads that are not there.
LEMMA QuedanYEntran ==
  ASSUME IInv, NEW M \in SUBSET Hilos, NEW S \in SUBSET Hilos, S \cap ToSet(cola_READY) = {},
         cola_READY' = Filtrar(cola_READY, Hilos \ M) \o SetToSeq(S)
  PROVE  /\ cola_READY' \in Seq(Hilos) /\ ToSet(cola_READY') \subseteq (ToSet(cola_READY) \ M) \cup S
         /\ IsInjective(cola_READY')
<1>1. IsFiniteSet(S)
  BY ConstantesDelDespacho, FS_Subset
<1> DEFINE z == SetToSeq(S)
           q == Filtrar(cola_READY, Hilos \ M)
<1>2. z \in Seq(S) /\ IsInjective(z) /\ ToSet(z) = S
  BY <1>1, SetToSeqTipo
<1>3. cola_READY \in Seq(Hilos) /\ IsInjective(cola_READY)
  BY DEF IInv, TipoDeDatos, Lugares
<1>4. q \in Seq(Hilos \ M)
  <2>1. Hilos \cap (Hilos \ M) \subseteq Hilos \ M
    OBVIOUS
  <2> QED BY <1>3, <2>1, FiltrarTipo
<1>5. ToSet(q) \subseteq ToSet(cola_READY) /\ IsInjective(q)
  BY <1>3, FiltrarSinRepetir
<1>6. cola_READY' = q \o z
  OBVIOUS
<1> HIDE DEF z, q
<1>7. z \in Seq(Hilos) /\ q \in Seq(Hilos) /\ ToSet(q) \subseteq Hilos \ M
  BY <1>2, <1>4 DEF ToSet
<1>8. ToSet(q) \cap ToSet(z) = {}
  BY <1>2, <1>5
<1>9. q \o z \in Seq(Hilos) /\ ToSet(q \o z) = ToSet(q) \cup ToSet(z) /\ IsInjective(q \o z)
  BY <1>2, <1>5, <1>7, <1>8, ConcatSinRepetir
<1> QED BY <1>2, <1>5, <1>6, <1>7, <1>9

\* memoria creates the context of a thread.
LEMMA Nace ==
  ASSUME IInv, NEW h \in Hilos, contextos' = [contextos EXCEPT ![h] = 0]
  PROVE  contextos' \in [Hilos -> Nat \cup {NoHay}] /\ Vivos' = Vivos \cup {h}
<1>1. contextos \in [Hilos -> Nat \cup {NoHay}]
  BY DEF IInv, TipoDeDatos
<1>2. 0 # NoHay
  BY ConstantesDelDespacho
<1>3. contextos' \in [Hilos -> Nat \cup {NoHay}]
  BY <1>1
<1>4. \A g \in Hilos : contextos'[g] # NoHay <=> (contextos[g] # NoHay \/ g = h)
  BY <1>1, <1>2
<1> QED BY <1>3, <1>4 DEF Vivos

\* A new timestamp.
LEMMA IniciarConteoOk ==
  ASSUME IInv, iniciar_conteo_q
  PROVE  IInv'
<1>1. /\ kernel = "cuenta" /\ kernel' = "recibe" /\ cronometro' = TRUE
      /\ UNCHANGED <<hilo_EXEC, colas, ajeno, verificados, interrupciones, a_kernel, a_cpu, cpu_pc,
                     actual, registros, ejecutando_proceso, interrupt_flag, contextos, avanzo>>
  BY DEF iniciar_conteo_q, enCpu
<1>2. Vivos' = Vivos /\ Cesiones' = Cesiones /\ Avisos' = Avisos /\ Consultas' = Consultas
  BY <1>1 DEF Vivos, Cesiones, Avisos, Consultas, motivo
<1>3. Lugares' /\ EnNEW'
  BY <1>1, <1>2, LugaresQuietos
<1>4. TipoDeDatos' /\ Avisados'
  BY <1>1 DEF IInv, TipoDeDatos, Avisados, colas
<1>5. Corriendo \/ Pedida \/ TurnoEnCamino
  BY <1>1 DEF IInv, Fase, Contestada, Acusada, SinNadie, Ajena
<1>6. CASE Corriendo
  <2>1. Corriendo'
    BY <1>1, <1>2, <1>6 DEF Corriendo, Vacias, ElMismo, EnCuenta
  <2> QED BY <1>3, <1>4, <2>1 DEF IInv, Fase
<1>7. CASE Pedida
  <2>1. Pedida'
    BY <1>1, <1>2, <1>7 DEF Pedida, ElMismo, EnCuenta, Libre, CancelaFueraDeIO, TerminaSinHermanosEnIO,
                           SinHermanosEnIO, DelProceso, colas
  <2> QED BY <1>3, <1>4, <2>1 DEF IInv, Fase
<1>8. CASE TurnoEnCamino
  <2>1. enviar_a_ejecucion(hilo_EXEC') = enviar_a_ejecucion(hilo_EXEC)
    BY <1>1
  <2>2. TurnoEnCamino'
    BY <1>1, <1>2, <1>8, <2>1 DEF TurnoEnCamino, EnCuenta, Libre
  <2> QED BY <1>3, <1>4, <2>2 DEF IInv, Fase
<1> QED BY <1>5, <1>6, <1>7, <1>8

\* A thread comes back from IO.
LEMMA VolverDeIOOk ==
  ASSUME IInv, VolverDeIO
  PROVE  IInv'
<1>1. PICK h \in en_io : en_io' = en_io \ {h} /\ EncolarReady({h})
  BY DEF VolverDeIO
<1>2. /\ kernel \notin {"elige", "caido"}
      /\ IF hilo_EXEC = Nadie THEN DejaDeEjecutar ELSE UNCHANGED <<hilo_EXEC, kernel, a_cpu>>
      /\ UNCHANGED <<en_espera, procesos_NEW, creados, ajeno, quantum, a_kernel, enCpu, interrupt_flag,
                     contextos, avanzo>>
  BY DEF VolverDeIO
<1>3. /\ h \in Vivos /\ h \in Hilos /\ h \notin ToSet(cola_READY) /\ h \notin en_espera
      /\ h # hilo_EXEC /\ h # Nadie
  BY <1>1, ConstantesDelDespacho DEF IInv, Lugares, Vivos
<1>4. /\ cola_READY' \in Seq(Hilos) /\ ToSet(cola_READY') = ToSet(cola_READY) \cup {h}
      /\ IsInjective(cola_READY')
  <2>1. {h} \in SUBSET Hilos /\ {h} \cap ToSet(cola_READY) = {}
    BY <1>3
  <2> QED BY <1>1, <2>1, Encola
<1>5. Vivos' = Vivos
  BY <1>2 DEF Vivos
<1>6. \/ hilo_EXEC = Nadie /\ hilo_EXEC' = Nadie /\ kernel' = "elige" /\ a_cpu' = a_cpu
      \/ hilo_EXEC # Nadie /\ UNCHANGED <<hilo_EXEC, kernel, a_cpu>>
  BY <1>2 DEF DejaDeEjecutar
<1>7. Lugares'
  <2>1. /\ ToSet(cola_READY') \cup en_io' \cup en_espera' \subseteq Vivos' /\ Vivos' \subseteq creados'
        /\ ToSet(cola_READY') \cap en_io' = {} /\ ToSet(cola_READY') \cap en_espera' = {}
        /\ en_io' \cap en_espera' = {}
    BY <1>1, <1>2, <1>3, <1>4, <1>5 DEF IInv, Lugares
  <2>2. /\ hilo_EXEC' = hilo_EXEC
        /\ kernel' # "elige_tras_acuse" => kernel # "elige_tras_acuse" \/ hilo_EXEC = Nadie
    BY <1>6
  <2>3. Nadie \notin Vivos
    BY ConstantesDelDespacho DEF Vivos
  <2>4. /\ hilo_EXEC' \notin ToSet(cola_READY') \cup en_io'
        /\ kernel' # "elige_tras_acuse" => hilo_EXEC' \notin en_espera'
    BY <1>1, <1>2, <1>3, <1>4, <2>2, <2>3 DEF IInv, Lugares
  <2> QED BY <1>4, <2>1, <2>4 DEF Lugares
<1>8. EnNEW'
  BY <1>2 DEF IInv, EnNEW
<1>9. TipoDeDatos' /\ Avisados'
  BY <1>1, <1>2, <1>4, <1>6, MarcoDelKernel DEF IInv, TipoDeDatos
<1>10. Fase'
  <2>1. CASE hilo_EXEC # Nadie
    BY <1>1, <1>2, <1>6, <2>1, FaseQuieta DEF IInv, enCpu
  <2>2. CASE hilo_EXEC = Nadie
    <3>1. SinNadie
      BY <2>2, ConstantesDelDespacho DEF IInv, Fase, Corriendo, Pedida, Contestada, Acusada,
             TurnoEnCamino, Ajena, ElMismo, Vivos
    <3>2. SinNadie'
      BY <1>2, <1>6, <2>2, <3>1 DEF SinNadie, Vacias, Libre, enCpu
    <3> QED BY <3>2 DEF Fase
  <2> QED BY <2>1, <2>2
<1> QED BY <1>7, <1>8, <1>9, <1>10 DEF IInv

\* The acknowledgment: the handler of the request goes on.
LEMMA RecibirAcuseOk ==
  ASSUME IInv, RecibirAcuse
  PROVE  IInv'
<1>1. /\ a_kernel # <<>> /\ a_kernel' = Tail(a_kernel)
      /\ \/ kernel = "sigue_tras_acuse" /\ Sigue
         \/ kernel = "elige_tras_acuse" /\ DejaDeEjecutar
      /\ UNCHANGED <<colas, quantum, enCpu, interrupt_flag, contextos, avanzo, ajeno>>
  BY DEF RecibirAcuse, Datos
<1>2. Acusada
  BY <1>1 DEF IInv, Fase, Corriendo, Pedida, Contestada, TurnoEnCamino, SinNadie, Ajena, EnCuenta, Vacias
<1>3. a_kernel' = <<>>
  BY <1>1, <1>2 DEF Acusada
<1>4. Vivos' = Vivos
  BY <1>1 DEF Vivos
<1>5. hilo_EXEC' = Nadie \/ (hilo_EXEC' = hilo_EXEC /\ kernel # "elige_tras_acuse")
  <2>1. CASE kernel = "sigue_tras_acuse" /\ Sigue
    <3>1. hilo_EXEC' = hilo_EXEC
      BY <2>1 DEF Sigue
    <3> QED BY <2>1, <3>1
  <2>2. CASE DejaDeEjecutar
    BY <2>2 DEF DejaDeEjecutar
  <2> QED BY <1>1, <2>1, <2>2
<1>6. Lugares' /\ EnNEW'
  BY <1>1, <1>4, <1>5, LugaresQuietos
<1>7. TipoDeDatos' /\ Avisados'
  <2>1. ajeno' \in BOOLEAN /\ hilo_EXEC' \in {hilo_EXEC, Nadie}
    BY <1>1, <1>5 DEF IInv, TipoDeDatos
  <2> QED BY <1>1, <2>1, MarcoQuieto
<1>8. CASE kernel = "sigue_tras_acuse" /\ Sigue
  <2>1. Fase'
    BY <1>1, <1>2, <1>3, <1>4, <1>8, FaseSigue DEF Acusada, ElMismo
  <2> QED BY <1>6, <1>7, <2>1 DEF IInv
<1>9. CASE kernel = "elige_tras_acuse" /\ DejaDeEjecutar
  <2>1. Fase'
    BY <1>1, <1>2, <1>3, <1>9, FaseDeja DEF Acusada
  <2> QED BY <1>6, <1>7, <2>1 DEF IInv
<1> QED BY <1>1, <1>8, <1>9

\* The election.
LEMMA ElegirHiloOk ==
  ASSUME IInv, elegir_hilo
  PROVE  IInv'
<1>1. SinNadie
  BY DEF elegir_hilo, IInv, Fase, Corriendo, Pedida, Contestada, Acusada, TurnoEnCamino, Ajena, EnCuenta
<1>2. /\ UNCHANGED <<en_io, en_espera, procesos_NEW, creados, ajeno, quantum, a_kernel, enCpu,
                     interrupt_flag, contextos>>
      /\ Vivos' = Vivos
  BY DEF elegir_hilo, Vivos
<1>3. CASE cola_READY = <<>> /\ kernel' = "recibe" /\ UNCHANGED <<hilo_EXEC, cola_READY, a_cpu, avanzo>>
  <2>1. Lugares' /\ EnNEW'
    BY <1>1, <1>2, <1>3, LugaresQuietos DEF SinNadie, colas
  <2>2. TipoDeDatos' /\ Avisados'
    <3>1. ajeno' \in BOOLEAN /\ hilo_EXEC' \in {hilo_EXEC, Nadie} /\ UNCHANGED colas
      BY <1>2, <1>3 DEF IInv, TipoDeDatos, colas
    <3> QED BY <1>2, <1>3, <3>1, MarcoQuieto
  <2>3. SinNadie'
    BY <1>1, <1>2, <1>3 DEF SinNadie, Vacias, Libre, enCpu
  <2> QED BY <2>1, <2>2, <2>3 DEF IInv, Fase
<1>4. CASE /\ cola_READY # <<>> /\ kernel' = "cuenta"
           /\ hilo_EXEC' = Head(cola_READY) /\ cola_READY' = Tail(cola_READY)
           /\ a_cpu' = a_cpu \o enviar_a_ejecucion(hilo_EXEC')
           /\ avanzo' = FALSE
  <2>1. /\ cola_READY \in Seq(Hilos) /\ IsInjective(cola_READY)
        /\ ToSet(cola_READY) \subseteq Vivos /\ ToSet(cola_READY) \cap (en_io \cup en_espera) = {}
    BY DEF IInv, TipoDeDatos, Lugares
  <2>2. /\ hilo_EXEC' \in ToSet(cola_READY) /\ cola_READY' \in Seq(Hilos)
        /\ ToSet(cola_READY') \subseteq ToSet(cola_READY)
        /\ IsInjective(cola_READY') /\ hilo_EXEC' \notin ToSet(cola_READY')
    BY <1>4, <2>1, PrimeroYResto
  <2>3. hilo_EXEC' \in Vivos /\ hilo_EXEC' \in Hilos
    BY <2>1, <2>2 DEF Vivos
  <2>4. Lugares'
    BY <1>2, <2>1, <2>2, <2>3 DEF IInv, Lugares
  <2>5. EnNEW'
    BY <1>2 DEF IInv, EnNEW
  <2>6. TipoDeDatos' /\ Avisados'
    BY <1>2, <1>4, <2>2, <2>3 DEF IInv, TipoDeDatos, Avisados, quantum, enCpu
  <2>7. a_cpu' = enviar_a_ejecucion(hilo_EXEC')
    <3>1. enviar_a_ejecucion(hilo_EXEC') \in Seq(Int)
      BY <2>3, TurnoEsSecuencia
    <3> QED BY <1>1, <1>4, <3>1, ConcatEmptySeq DEF SinNadie, Vacias
  <2>8. TurnoEnCamino'
    BY <1>1, <1>2, <1>4, <2>3, <2>7 DEF SinNadie, TurnoEnCamino, EnCuenta, Vacias, Libre, enCpu
  <2> QED BY <2>4, <2>5, <2>6, <2>8 DEF IInv, Fase
<1> QED BY <1>3, <1>4 DEF elegir_hilo
\* A process appears: memoria has its first thread, or it waits in NEW.
LEMMA CrearProcesoOk ==
  ASSUME IInv, crear_proceso
  PROVE  IInv'
<1>1. Pedida /\ cpu_pc = "urgente" /\ kernel = "recibe" /\ a_kernel' = <<>>
  BY LlegaAviso DEF crear_proceso
<1>2. /\ Sigue /\ UNCHANGED <<en_io, en_espera, ajeno>>
      /\ UNCHANGED <<quantum, enCpu, interrupt_flag, avanzo>>
  BY DEF crear_proceso, ConPaquete, Recibe
<1>3. PICK p \in PidLibre :
        \/ procesos_NEW' = procesos_NEW \cup {p} /\ UNCHANGED <<cola_READY, creados, contextos>>
        \/ /\ procesos_NEW = {} /\ UNCHANGED procesos_NEW
           /\ creados' = creados \cup {<<p, 0>>}
           /\ contextos' = [contextos EXCEPT ![<<p, 0>>] = 0]
           /\ EncolarReady({<<p, 0>>})
  BY DEF crear_proceso
<1>4. p \in PIDs /\ <<p, 0>> \in Hilos /\ <<p, 0>> \notin creados
  <2>1. p \in PIDs /\ (p < p <=> <<p, 0>> \in creados \/ p \in procesos_NEW)
    BY DEF PidLibre
  <2>2. PICK h \in Hilos : p = h[1]
    BY <2>1 DEF PIDs
  <2>3. p \in Nat /\ <<p, 0>> \in Hilos
    BY <2>2, Pares, ConstantesDelDespacho
  <2>4. ~(p < p)
    BY <2>3
  <2> QED BY <2>1, <2>3, <2>4
<1>5. \A h \in creados : h[1] # p
  BY <1>4 DEF IInv, EnNEW
<1>6. /\ hilo_EXEC = actual /\ hilo_EXEC \in Hilos /\ hilo_EXEC \in Vivos /\ hilo_EXEC \in creados
      /\ a_cpu = <<>> /\ ~ejecutando_proceso /\ avanzo
      /\ hilo_EXEC \notin ToSet(cola_READY) \cup en_io \cup en_espera
  BY <1>1, EnTurno
<1>7. hilo_EXEC' = hilo_EXEC /\ kernel' = "recibe"
  BY <1>2 DEF Sigue
<1>8. CASE procesos_NEW' = procesos_NEW \cup {p} /\ UNCHANGED <<cola_READY, creados, contextos>>
  <2>1. Vivos' = Vivos
    BY <1>8 DEF Vivos
  <2>2. Lugares'
    BY <1>2, <1>6, <1>7, <1>8, <2>1 DEF IInv, Lugares
  <2>3. EnNEW'
    BY <1>5, <1>8 DEF IInv, EnNEW
  <2>4. TipoDeDatos' /\ Avisados'
    BY <1>2, <1>4, <1>7, <1>8, MarcoDelKernel DEF IInv, TipoDeDatos
  <2>5. Fase'
    BY <1>1, <1>2, <1>6, <2>1, FaseSigue
  <2> QED BY <2>2, <2>3, <2>4, <2>5 DEF IInv
<1>9. CASE /\ procesos_NEW = {} /\ UNCHANGED procesos_NEW
           /\ creados' = creados \cup {<<p, 0>>}
           /\ contextos' = [contextos EXCEPT ![<<p, 0>>] = 0]
           /\ EncolarReady({<<p, 0>>})
  <2> DEFINE h == <<p, 0>>
  <2>0. h[1] = p /\ <<h[1], 0>> = h
    OBVIOUS
  <2>1. h \in Hilos /\ h \notin creados /\ creados' = creados \cup {h}
        /\ contextos' = [contextos EXCEPT ![h] = 0] /\ EncolarReady({h})
    BY <1>4, <1>9
  <2> HIDE DEF h
  <2>2. contextos' \in [Hilos -> Nat \cup {NoHay}] /\ Vivos' = Vivos \cup {h}
    BY <2>1, Nace
  <2>3. h \notin ToSet(cola_READY) \cup en_io \cup en_espera
    BY <2>1 DEF IInv, Lugares
  <2>4. /\ cola_READY' \in Seq(Hilos) /\ ToSet(cola_READY') = ToSet(cola_READY) \cup {h}
        /\ IsInjective(cola_READY')
    <3>1. {h} \in SUBSET Hilos /\ {h} \cap ToSet(cola_READY) = {}
      BY <2>1, <2>3
    <3> QED BY <2>1, <3>1, Encola
  <2>5. Lugares'
    BY <1>2, <1>6, <1>7, <2>1, <2>2, <2>3, <2>4 DEF IInv, Lugares
  <2>6. EnNEW'
    BY <1>9, <2>0, <2>1 DEF IInv, EnNEW
  <2>7. TipoDeDatos' /\ Avisados'
    BY <1>2, <1>7, <1>9, <2>1, <2>2, <2>4, MarcoDelKernel DEF IInv, TipoDeDatos
  <2>8. Fase'
    BY <1>1, <1>2, <1>6, <2>2, FaseSigue
  <2> QED BY <2>5, <2>6, <2>7, <2>8 DEF IInv
<1> QED BY <1>3, <1>8, <1>9

\* A thread appears, unless memoria refuses it.
LEMMA CrearHiloOk ==
  ASSUME IInv, crear_hilo
  PROVE  IInv'
<1>1. Pedida /\ cpu_pc = "urgente" /\ kernel = "recibe" /\ a_kernel' = <<>>
  BY LlegaAviso DEF crear_hilo
<1>2. /\ Sigue /\ UNCHANGED <<en_io, en_espera, procesos_NEW, ajeno>>
      /\ UNCHANGED <<quantum, enCpu, interrupt_flag, avanzo>>
  BY DEF crear_hilo, ConPaquete, Recibe
<1>3. PICK t \in TidLibre(hilo_EXEC[1]) :
        /\ creados' = creados \cup {<<hilo_EXEC[1], t>>}
        /\ \/ UNCHANGED <<cola_READY, contextos>>
           \/ /\ contextos' = [contextos EXCEPT ![<<hilo_EXEC[1], t>>] = 0]
              /\ EncolarReady({<<hilo_EXEC[1], t>>})
  BY DEF crear_hilo
<1>4. /\ hilo_EXEC = actual /\ hilo_EXEC \in Hilos /\ hilo_EXEC \in Vivos /\ hilo_EXEC \in creados
      /\ a_cpu = <<>> /\ ~ejecutando_proceso /\ avanzo
      /\ hilo_EXEC \notin ToSet(cola_READY) \cup en_io \cup en_espera
  BY <1>1, EnTurno
<1> DEFINE h == <<hilo_EXEC[1], t>>
<1>5. h \in Hilos /\ h \notin creados /\ h[1] = hilo_EXEC[1]
  <2>1. /\ t \in TIDs /\ h \in Hilos
        /\ \A u \in TIDs : u < t <=> <<hilo_EXEC[1], u>> \in creados
    BY DEF TidLibre
  <2>2. t \in Nat
    BY <2>1, Pares DEF TIDs
  <2>3. ~(t < t)
    BY <2>2
  <2> QED BY <2>1, <2>3
<1>6. /\ creados' = creados \cup {h}
      /\ \/ UNCHANGED <<cola_READY, contextos>>
         \/ contextos' = [contextos EXCEPT ![h] = 0] /\ EncolarReady({h})
  BY <1>3
<1> HIDE DEF h
<1>7. hilo_EXEC' = hilo_EXEC /\ kernel' = "recibe"
  BY <1>2 DEF Sigue
<1>8. EnNEW'
  BY <1>2, <1>4, <1>5, <1>6 DEF IInv, EnNEW
<1>9. CASE UNCHANGED <<cola_READY, contextos>>
  <2>1. Vivos' = Vivos
    BY <1>9 DEF Vivos
  <2>2. Lugares'
    BY <1>2, <1>4, <1>6, <1>7, <1>9, <2>1 DEF IInv, Lugares
  <2>3. TipoDeDatos' /\ Avisados'
    BY <1>2, <1>5, <1>6, <1>7, <1>9, MarcoDelKernel DEF IInv, TipoDeDatos
  <2>4. Fase'
    BY <1>1, <1>2, <1>4, <2>1, FaseSigue
  <2> QED BY <1>8, <2>2, <2>3, <2>4 DEF IInv
<1>10. CASE contextos' = [contextos EXCEPT ![h] = 0] /\ EncolarReady({h})
  <2>2. contextos' \in [Hilos -> Nat \cup {NoHay}] /\ Vivos' = Vivos \cup {h}
    BY <1>5, <1>10, Nace
  <2>3. h \notin ToSet(cola_READY) \cup en_io \cup en_espera
    BY <1>5 DEF IInv, Lugares
  <2>4. /\ cola_READY' \in Seq(Hilos) /\ ToSet(cola_READY') = ToSet(cola_READY) \cup {h}
        /\ IsInjective(cola_READY')
    <3>1. {h} \in SUBSET Hilos /\ {h} \cap ToSet(cola_READY) = {}
      BY <1>5, <2>3
    <3> QED BY <1>10, <3>1, Encola
  <2>5. Lugares'
    BY <1>2, <1>4, <1>5, <1>6, <1>7, <2>2, <2>3, <2>4 DEF IInv, Lugares
  <2>7. TipoDeDatos' /\ Avisados'
    BY <1>2, <1>5, <1>6, <1>7, <2>2, <2>4, MarcoDelKernel DEF IInv, TipoDeDatos
  <2>8. Fase'
    BY <1>1, <1>2, <1>4, <2>2, FaseSigue
  <2> QED BY <1>8, <2>5, <2>7, <2>8 DEF IInv
<1> QED BY <1>6, <1>9, <1>10

\* A mutex appears: no queue changes.
LEMMA CrearMutexOk ==
  ASSUME IInv, crear_mutex
  PROVE  IInv'
<1>1. Pedida /\ cpu_pc = "urgente" /\ kernel = "recibe" /\ a_kernel' = <<>>
  BY LlegaAviso DEF crear_mutex
<1>2. /\ Sigue /\ UNCHANGED <<colas, contextos, ajeno>>
      /\ UNCHANGED <<quantum, enCpu, interrupt_flag, avanzo>>
  BY DEF crear_mutex, ConString, Recibe
<1>3. hilo_EXEC \in Vivos /\ a_cpu = <<>> /\ ~ejecutando_proceso /\ avanzo
  BY <1>1, EnTurno
<1>4. hilo_EXEC' = hilo_EXEC /\ kernel # "elige_tras_acuse"
  BY <1>1, <1>2 DEF Sigue
<1>5. Vivos' = Vivos
  BY <1>2 DEF Vivos
<1>6. Lugares' /\ EnNEW'
  BY <1>2, <1>4, <1>5, LugaresQuietos
<1>7. TipoDeDatos' /\ Avisados'
  <2>1. ajeno' \in BOOLEAN /\ hilo_EXEC' \in {hilo_EXEC, Nadie}
    BY <1>2, <1>4 DEF IInv, TipoDeDatos
  <2> QED BY <1>2, <2>1, MarcoQuieto
<1>8. Fase'
  BY <1>1, <1>2, <1>3, <1>5, FaseSigue
<1> QED BY <1>6, <1>7, <1>8 DEF IInv

\* An answer that changes, at most, what waits for a join or a mutex.
LEMMA RespondeOk ==
  ASSUME IInv, Pedida, cpu_pc = "bloqueante", kernel = "recibe", a_kernel' = <<>>,
         UNCHANGED <<quantum, enCpu, interrupt_flag, avanzo>>,
         UNCHANGED <<cola_READY, en_io, procesos_NEW, creados, contextos, ajeno>>,
         \/ /\ en_espera' \in {en_espera, en_espera \cup {hilo_EXEC}}
            /\ Responde(Bloqueante, "elige_tras_acuse")
         \/ en_espera' = en_espera /\ Responde(NoBloqueante, "sigue_tras_acuse")
  PROVE  IInv'
<1>1. /\ hilo_EXEC \in Hilos /\ hilo_EXEC \in Vivos
      /\ hilo_EXEC \notin ToSet(cola_READY) \cup en_io \cup en_espera
  BY EnTurno
<1>2. /\ hilo_EXEC' = hilo_EXEC
      /\ \/ en_espera' = en_espera
         \/ en_espera' = en_espera \cup {hilo_EXEC} /\ kernel' = "elige_tras_acuse"
  BY DEF Responde
<1>3. Vivos' = Vivos
  BY DEF Vivos
<1>4. Lugares'
  BY <1>1, <1>2, <1>3 DEF IInv, Lugares
<1>5. EnNEW'
  BY DEF IInv, EnNEW
<1>6. TipoDeDatos' /\ Avisados'
  BY <1>1, <1>2, MarcoDelKernel DEF IInv, TipoDeDatos
<1>7. Fase'
  BY FaseResponde
<1> QED BY <1>4, <1>5, <1>6, <1>7 DEF IInv

\* THREAD_JOIN and MUTEX_LOCK.
LEMMA EsperarOk ==
  ASSUME IInv, bloquear_hilo_por_thread_join \/ bloquear_mutex
  PROVE  IInv'
<1>1. Pedida /\ cpu_pc = "bloqueante" /\ kernel = "recibe" /\ a_kernel' = <<>>
  BY LlegaConsulta DEF bloquear_hilo_por_thread_join, bloquear_mutex
<1>2. /\ UNCHANGED <<cola_READY, en_io, procesos_NEW, creados, contextos, ajeno>>
      /\ UNCHANGED <<quantum, enCpu, interrupt_flag, avanzo>>
      /\ \/ /\ en_espera' \in {en_espera, en_espera \cup {hilo_EXEC}}
            /\ Responde(Bloqueante, "elige_tras_acuse")
         \/ en_espera' = en_espera /\ Responde(NoBloqueante, "sigue_tras_acuse")
  BY DEF bloquear_hilo_por_thread_join, bloquear_mutex, ConInt, ConString, Recibe
<1> QED BY <1>1, <1>2, RespondeOk

\* MUTEX_UNLOCK: a thread that waited goes to READY, or nobody answers.
LEMMA DesbloquearMutexOk ==
  ASSUME IInv, desbloquear_mutex
  PROVE  IInv'
<1>1. Pedida /\ cpu_pc = "bloqueante" /\ kernel = "recibe" /\ a_kernel' = <<>>
  BY LlegaConsulta DEF desbloquear_mutex
<1>2. /\ UNCHANGED <<en_io, procesos_NEW, creados, contextos>>
      /\ UNCHANGED <<quantum, enCpu, interrupt_flag, avanzo>>
  BY DEF desbloquear_mutex, ConString, Recibe
<1>3. Vivos' = Vivos
  BY <1>2 DEF Vivos
<1>4. EnNEW'
  BY <1>2 DEF IInv, EnNEW
<1>5. /\ hilo_EXEC = actual /\ hilo_EXEC \in Hilos /\ hilo_EXEC \in Vivos
      /\ a_cpu = <<>> /\ ~ejecutando_proceso
      /\ hilo_EXEC \notin ToSet(cola_READY) \cup en_io \cup en_espera
  BY <1>1, EnTurno
<1>6. CASE /\ \E S \in SUBSET DelProceso(en_espera, hilo_EXEC[1]) :
                Cardinality(S) <= 1 /\ en_espera' = en_espera \ S /\ EncolarReady(S)
           /\ Responde(NoBloqueante, "sigue_tras_acuse")
           /\ UNCHANGED ajeno
  <2>1. PICK S \in SUBSET DelProceso(en_espera, hilo_EXEC[1]) :
          en_espera' = en_espera \ S /\ EncolarReady(S)
    BY <1>6
  <2>2. S \subseteq en_espera
    BY DEF DelProceso
  <2>3. S \in SUBSET Hilos /\ S \subseteq Vivos /\ S \cap (ToSet(cola_READY) \cup en_io) = {}
    BY <2>2 DEF IInv, Lugares, TipoDeDatos
  <2>4. /\ cola_READY' \in Seq(Hilos) /\ ToSet(cola_READY') = ToSet(cola_READY) \cup S
        /\ IsInjective(cola_READY')
    BY <2>1, <2>3, Encola
  <2>5. hilo_EXEC' = hilo_EXEC /\ kernel' = "sigue_tras_acuse"
    BY <1>6 DEF Responde
  <2>6. Lugares'
    BY <1>2, <1>3, <1>5, <2>1, <2>2, <2>3, <2>4, <2>5 DEF IInv, Lugares
  <2>7. TipoDeDatos' /\ Avisados'
    BY <1>2, <1>5, <1>6, <2>1, <2>4, <2>5, MarcoDelKernel DEF IInv, TipoDeDatos
  <2>8. Fase'
    BY <1>1, <1>2, <1>6, FaseResponde
  <2> QED BY <1>4, <2>6, <2>7, <2>8 DEF IInv
<1>7. CASE Responde(Bloqueante, "elige_tras_acuse") /\ UNCHANGED <<cola_READY, en_espera, ajeno>>
  BY <1>1, <1>2, <1>7, RespondeOk
<1>8. CASE ajeno' = TRUE /\ UNCHANGED <<cola_READY, en_espera, hilo_EXEC, kernel, a_cpu>>
  <2>1. UNCHANGED colas /\ kernel # "elige_tras_acuse" /\ hilo_EXEC' = hilo_EXEC
    BY <1>1, <1>2, <1>8 DEF colas
  <2>2. Lugares'
    BY <1>3, <2>1, LugaresQuietos
  <2>3. TipoDeDatos' /\ Avisados'
    BY <1>2, <1>8, <2>1, MarcoQuieto
  <2>4. Ajena'
    BY <1>1, <1>2, <1>3, <1>5, <1>8 DEF Ajena, Vacias, ElMismo, enCpu
  <2> QED BY <1>4, <2>2, <2>3, <2>4 DEF IInv, Fase
<1> QED BY <1>6, <1>7, <1>8 DEF desbloquear_mutex

\* A thread ends, by its own exit or by another one of its process.
LEMMA TerminanOk ==
  ASSUME IInv, Pedida, NEW h \in Vivos, h \notin en_io,
         NEW D \in SUBSET (DelProceso(en_espera, h[1]) \ {h}), Terminan({h}, D),
         \/ h # hilo_EXEC /\ hilo_EXEC' = hilo_EXEC
         \/ h = hilo_EXEC /\ hilo_EXEC' = Nadie,
         UNCHANGED <<quantum, enCpu, interrupt_flag, avanzo>>,
         UNCHANGED <<en_io, procesos_NEW, creados, ajeno>>
  PROVE  Vivos' = Vivos \ {h} /\ TipoDeDatos' /\ Avisados' /\ Lugares' /\ EnNEW'
<1>1. /\ contextos' = [g \in Hilos |-> IF g \in {h} THEN NoHay ELSE contextos[g]]
      /\ cola_READY' = Filtrar(cola_READY, Hilos \ {h}) \o SetToSeq(D)
      /\ en_espera' = en_espera \ ({h} \cup D)
  BY DEF Terminan
<1>2. Vivos' = Vivos \ {h} /\ contextos' \in [Hilos -> Nat \cup {NoHay}]
  BY <1>1 DEF Vivos, IInv, TipoDeDatos
<1>3. D \subseteq en_espera /\ h \notin D /\ h \in Hilos
  BY DEF DelProceso, Vivos
<1>4. D \in SUBSET Hilos /\ D \subseteq Vivos /\ D \cap (ToSet(cola_READY) \cup en_io) = {}
  BY <1>3 DEF IInv, Lugares, TipoDeDatos
<1>5. /\ cola_READY' \in Seq(Hilos) /\ ToSet(cola_READY') \subseteq (ToSet(cola_READY) \ {h}) \cup D
      /\ IsInjective(cola_READY')
  <2>1. {h} \in SUBSET Hilos /\ D \cap ToSet(cola_READY) = {}
    BY <1>3, <1>4
  <2> QED BY <1>1, <1>4, <2>1, QuedanYEntran
<1>6. /\ hilo_EXEC \in Hilos /\ Nadie \notin Hilos
      /\ hilo_EXEC \notin ToSet(cola_READY) \cup en_io \cup en_espera
  BY EnTurno
<1>7. hilo_EXEC' \notin ToSet(cola_READY') \cup en_io' \cup en_espera'
  <2>1. ToSet(cola_READY') \cup en_io' \cup en_espera' \subseteq
          ToSet(cola_READY) \cup en_io \cup en_espera
    BY <1>1, <1>3, <1>5
  <2>2. ToSet(cola_READY) \cup en_io \cup en_espera \subseteq Hilos
    BY DEF IInv, Lugares, Vivos
  <2> QED BY <1>6, <2>1, <2>2
<1>8. Lugares'
  BY <1>1, <1>2, <1>3, <1>4, <1>5, <1>7 DEF IInv, Lugares
<1>9. EnNEW'
  BY DEF IInv, EnNEW
<1>10. TipoDeDatos' /\ Avisados'
  BY <1>1, <1>2, <1>5, MarcoDelKernel DEF IInv, TipoDeDatos
<1> QED BY <1>2, <1>8, <1>9, <1>10

\* THREAD_EXIT.
LEMMA ThreadExitOk ==
  ASSUME IInv, THREAD_EXIT
  PROVE  IInv'
<1>1. Pedida /\ Libre /\ kernel = "recibe" /\ a_kernel' = <<>>
  BY LlegaCesion DEF THREAD_EXIT
<1>2. /\ UNCHANGED <<en_io, procesos_NEW, creados, ajeno>>
      /\ UNCHANGED <<quantum, enCpu, interrupt_flag, avanzo>>
      /\ finalizar_hilo(hilo_EXEC)
  BY DEF THREAD_EXIT, SinDatos, Recibe
<1>3. /\ hilo_EXEC \in Vivos /\ a_cpu = <<>> /\ ~ejecutando_proceso
      /\ hilo_EXEC \notin en_io /\ Encontrable(hilo_EXEC)
  BY <1>1, EnTurno DEF Encontrable
<1>4. PICK D \in SUBSET (DelProceso(en_espera, hilo_EXEC[1]) \ {hilo_EXEC}) : Terminan({hilo_EXEC}, D)
  BY <1>2, <1>3 DEF finalizar_hilo
<1>5. DejaDeEjecutar
  BY <1>2, <1>3 DEF finalizar_hilo
<1>6. hilo_EXEC' = Nadie
  BY <1>5 DEF DejaDeEjecutar
<1>7. TipoDeDatos' /\ Avisados' /\ Lugares' /\ EnNEW'
  BY <1>1, <1>2, <1>3, <1>4, <1>6, TerminanOk
<1>8. Fase'
  BY <1>1, <1>2, <1>3, <1>5, FaseDeja
<1> QED BY <1>7, <1>8 DEF IInv

\* THREAD_CANCEL: the thread of the turn is another one and goes on.
LEMMA ThreadCancelOk ==
  ASSUME IInv, THREAD_CANCEL
  PROVE  IInv'
<1> DEFINE h == <<hilo_EXEC[1], Entero>>
<1>1. Pedida /\ cpu_pc = "urgente" /\ kernel = "recibe" /\ a_kernel' = <<>>
  BY LlegaAviso DEF THREAD_CANCEL
<1>2. /\ UNCHANGED <<en_io, procesos_NEW, creados, ajeno>>
      /\ UNCHANGED <<quantum, enCpu, interrupt_flag, avanzo>>
      /\ finalizar_hilo(h)
  BY DEF THREAD_CANCEL, ConInt, Recibe
<1>3. hilo_EXEC = actual /\ hilo_EXEC \in Vivos /\ a_cpu = <<>> /\ ~ejecutando_proceso /\ avanzo
  BY <1>1, EnTurno
<1>4. h \notin en_io /\ h # hilo_EXEC
  <2>1. Entero # actual[2] /\ <<actual[1], Entero>> \notin en_io
    BY LlegaCancelacion DEF THREAD_CANCEL
  <2>2. h[2] = Entero
    OBVIOUS
  <2> QED BY <1>3, <2>1, <2>2
<1> HIDE DEF h
<1>5. Sigue
  BY <1>2, <1>4 DEF finalizar_hilo
<1>6. hilo_EXEC' = hilo_EXEC
  BY <1>5 DEF Sigue
<1>7. CASE UNCHANGED <<contextos, cola_READY, en_espera>>
  <2>1. Vivos' = Vivos
    BY <1>7 DEF Vivos
  <2>2. UNCHANGED colas /\ kernel # "elige_tras_acuse"
    BY <1>1, <1>2, <1>7 DEF colas
  <2>3. Lugares' /\ EnNEW'
    BY <1>6, <2>1, <2>2, LugaresQuietos
  <2>4. TipoDeDatos' /\ Avisados'
    <3>1. ajeno' \in BOOLEAN /\ hilo_EXEC' \in {hilo_EXEC, Nadie}
      BY <1>2, <1>6 DEF IInv, TipoDeDatos
    <3> QED BY <1>2, <1>7, <2>2, <3>1, MarcoQuieto
  <2>5. Fase'
    BY <1>1, <1>2, <1>3, <1>5, <2>1, FaseSigue
  <2> QED BY <2>3, <2>4, <2>5 DEF IInv
<1>8. CASE h \in Vivos /\ \E D \in SUBSET (DelProceso(en_espera, h[1]) \ {h}) : Terminan({h}, D)
  <2>1. PICK D \in SUBSET (DelProceso(en_espera, h[1]) \ {h}) : Terminan({h}, D)
    BY <1>8
  <2>2. Vivos' = Vivos \ {h} /\ TipoDeDatos' /\ Avisados' /\ Lugares' /\ EnNEW'
    BY <1>1, <1>2, <1>4, <1>6, <1>8, <2>1, TerminanOk
  <2>3. Fase'
    BY <1>1, <1>2, <1>3, <1>4, <1>5, <2>2, FaseSigue
  <2> QED BY <2>2, <2>3 DEF IInv
<1> QED BY <1>2, <1>7, <1>8 DEF finalizar_hilo

\* The end of a process: its threads are in no place, and others may come from NEW.
LEMMA FinalizarProcesoOk ==
  ASSUME IInv, finalizar_proceso
  PROVE  IInv'
<1>1. Pedida /\ Libre /\ kernel = "recibe" /\ a_kernel' = <<>>
  BY LlegaCesion DEF finalizar_proceso
<1>2. /\ UNCHANGED <<en_io, ajeno>> /\ DejaDeEjecutar
      /\ UNCHANGED <<quantum, enCpu, interrupt_flag, avanzo>>
  BY DEF finalizar_proceso, SinDatos, ConInt, Recibe
<1>3. SinHermanosEnIO
  BY LlegaFinDeProceso DEF finalizar_proceso
<1>4. PICK P \in SUBSET procesos_NEW :
        LET nuevos  == {<<p, 0>> : p \in P}
            mueren  == DelProceso(Hilos, hilo_EXEC[1])
            quedan  == Filtrar(cola_READY, Hilos \ mueren)
        IN  /\ procesos_NEW' = procesos_NEW \ P
            /\ creados' = creados \cup nuevos
            /\ contextos' = [h \in Hilos |-> IF h \in mueren THEN NoHay
                                             ELSE IF h \in nuevos THEN 0 ELSE contextos[h]]
            /\ cola_READY' = quedan \o SetToSeq(nuevos)
            /\ en_espera' = en_espera \ mueren
  BY DEF finalizar_proceso
<1>5. /\ hilo_EXEC = actual /\ hilo_EXEC \in Hilos /\ hilo_EXEC \in creados /\ Nadie \notin Hilos
      /\ a_cpu = <<>> /\ ~ejecutando_proceso
  BY <1>1, EnTurno
<1> DEFINE N == {<<p, 0>> : p \in P}
           M == DelProceso(Hilos, hilo_EXEC[1])
<1>6. N \subseteq Hilos /\ \A h \in N : h[1] \in P /\ h = <<h[1], 0>>
  <2>1. ASSUME NEW p \in P PROVE <<p, 0>> \in Hilos
    <3>1. p \in PIDs
      BY DEF IInv, TipoDeDatos
    <3>2. PICK h \in Hilos : p = h[1]
      BY <3>1 DEF PIDs
    <3> QED BY <3>2, ConstantesDelDespacho
  <2>2. \A p \in P : <<p, 0>>[1] = p
    OBVIOUS
  <2> QED BY <2>1, <2>2
<1>7. N \cap creados = {} /\ N \cap M = {}
  <2>1. \A h \in N : h[1] \in procesos_NEW
    BY <1>6
  <2>2. \A h \in creados : h[1] \notin procesos_NEW
    BY DEF IInv, EnNEW
  <2>3. \A h \in M : h[1] = hilo_EXEC[1]
    BY DEF DelProceso
  <2> QED BY <1>5, <2>1, <2>2, <2>3
<1>8. M \cap en_io = {} /\ M \subseteq Hilos
  BY <1>3, <1>5 DEF SinHermanosEnIO, DelProceso
<1>9. /\ procesos_NEW' = procesos_NEW \ P
      /\ creados' = creados \cup N
      /\ contextos' = [h \in Hilos |-> IF h \in M THEN NoHay ELSE IF h \in N THEN 0 ELSE contextos[h]]
      /\ cola_READY' = Filtrar(cola_READY, Hilos \ M) \o SetToSeq(N)
      /\ en_espera' = en_espera \ M
  BY <1>4
<1> HIDE DEF M, N
<1>10. contextos' \in [Hilos -> Nat \cup {NoHay}] /\ Vivos' = (Vivos \ M) \cup N
  <2>1. contextos' \in [Hilos -> Nat \cup {NoHay}]
    BY <1>9 DEF IInv, TipoDeDatos
  <2>2. 0 # NoHay
    BY ConstantesDelDespacho
  <2> QED BY <1>6, <1>7, <1>9, <2>1, <2>2 DEF Vivos
<1>11. /\ ToSet(cola_READY) \cup en_io \cup en_espera \subseteq Vivos /\ Vivos \subseteq creados
       /\ N \cap (ToSet(cola_READY) \cup en_io \cup en_espera) = {}
  BY <1>7 DEF IInv, Lugares
<1>12. /\ cola_READY' \in Seq(Hilos) /\ ToSet(cola_READY') \subseteq (ToSet(cola_READY) \ M) \cup N
       /\ IsInjective(cola_READY')
  <2>1. N \in SUBSET Hilos /\ M \in SUBSET Hilos /\ N \cap ToSet(cola_READY) = {}
    BY <1>6, <1>8, <1>11
  <2> QED BY <1>9, <2>1, QuedanYEntran
<1>13. hilo_EXEC' = Nadie
  BY <1>2 DEF DejaDeEjecutar
<1>14. Lugares'
  <2>1. ToSet(cola_READY') \cup en_io' \cup en_espera' \subseteq Vivos' /\ Vivos' \subseteq creados'
    BY <1>2, <1>8, <1>9, <1>10, <1>11, <1>12
  <2>2. /\ ToSet(cola_READY') \cap en_io' = {} /\ ToSet(cola_READY') \cap en_espera' = {}
        /\ en_io' \cap en_espera' = {}
    BY <1>2, <1>9, <1>11, <1>12 DEF IInv, Lugares
  <2>3. Nadie \notin Vivos'
    BY <1>5 DEF Vivos
  <2> QED BY <1>12, <1>13, <2>1, <2>2, <2>3 DEF Lugares
<1>15. EnNEW'
  BY <1>6, <1>7, <1>9 DEF IInv, EnNEW
<1>16. TipoDeDatos' /\ Avisados'
  BY <1>2, <1>6, <1>9, <1>10, <1>12, <1>13, MarcoDelKernel DEF IInv, TipoDeDatos
<1>17. Fase'
  BY <1>1, <1>2, <1>5, FaseDeja
<1> QED BY <1>14, <1>15, <1>16, <1>17 DEF IInv

\* IO and DUMP_MEMORY.
LEMMA BloquearPorIOOk ==
  ASSUME IInv, BloquearPorIO
  PROVE  IInv'
<1>1. Pedida /\ Libre /\ kernel = "recibe" /\ a_kernel' = <<>>
  BY LlegaCesion DEF BloquearPorIO
<1>2. /\ en_io' = en_io \cup {hilo_EXEC} /\ DejaDeEjecutar
      /\ UNCHANGED <<cola_READY, en_espera, procesos_NEW, creados, contextos, ajeno>>
      /\ UNCHANGED <<quantum, enCpu, interrupt_flag, avanzo>>
  BY DEF BloquearPorIO, SinDatos, ConInt, Recibe
<1>3. /\ hilo_EXEC \in Hilos /\ hilo_EXEC \in Vivos /\ Nadie \notin Hilos
      /\ a_cpu = <<>> /\ ~ejecutando_proceso
      /\ hilo_EXEC \notin ToSet(cola_READY) \cup en_io \cup en_espera
  BY <1>1, EnTurno
<1>4. Vivos' = Vivos /\ Nadie \notin Vivos
  BY <1>2, <1>3 DEF Vivos
<1>5. hilo_EXEC' = Nadie
  BY <1>2 DEF DejaDeEjecutar
<1>6. Lugares'
  BY <1>2, <1>3, <1>4, <1>5 DEF IInv, Lugares
<1>7. EnNEW'
  BY <1>2 DEF IInv, EnNEW
<1>8. TipoDeDatos' /\ Avisados'
  BY <1>2, <1>3, <1>5, MarcoDelKernel DEF IInv, TipoDeDatos
<1>9. Fase'
  BY <1>1, <1>2, <1>3, FaseDeja
<1> QED BY <1>6, <1>7, <1>8, <1>9 DEF IInv

\* The end of the quantum.
LEMMA FinDeQuantumOk ==
  ASSUME IInv, cambiar_hilo_exec_fin_Q
  PROVE  IInv'
<1>1. Pedida /\ Libre /\ kernel = "recibe" /\ a_kernel' = <<>>
  BY LlegaCesion DEF cambiar_hilo_exec_fin_Q
<1>2. /\ EncolarReady({hilo_EXEC}) /\ DejaDeEjecutar
      /\ UNCHANGED <<en_io, en_espera, procesos_NEW, creados, contextos, ajeno>>
      /\ UNCHANGED <<quantum, enCpu, interrupt_flag, avanzo>>
  BY DEF cambiar_hilo_exec_fin_Q, ConInt, Recibe
<1>3. /\ hilo_EXEC \in Hilos /\ hilo_EXEC \in Vivos /\ Nadie \notin Hilos
      /\ a_cpu = <<>> /\ ~ejecutando_proceso
      /\ hilo_EXEC \notin ToSet(cola_READY) \cup en_io \cup en_espera
  BY <1>1, EnTurno
<1>4. Vivos' = Vivos /\ Nadie \notin Vivos
  BY <1>2, <1>3 DEF Vivos
<1>5. hilo_EXEC' = Nadie
  BY <1>2 DEF DejaDeEjecutar
<1>6. /\ cola_READY' \in Seq(Hilos) /\ ToSet(cola_READY') = ToSet(cola_READY) \cup {hilo_EXEC}
      /\ IsInjective(cola_READY')
  <2>1. {hilo_EXEC} \in SUBSET Hilos /\ {hilo_EXEC} \cap ToSet(cola_READY) = {}
    BY <1>3
  <2> QED BY <1>2, <2>1, Encola
<1>7. Lugares'
  BY <1>2, <1>3, <1>4, <1>5, <1>6 DEF IInv, Lugares
<1>8. EnNEW'
  BY <1>2 DEF IInv, EnNEW
<1>9. TipoDeDatos' /\ Avisados'
  BY <1>2, <1>5, <1>6, MarcoDelKernel DEF IInv, TipoDeDatos
<1>10. Fase'
  BY <1>1, <1>2, <1>3, FaseDeja
<1> QED BY <1>7, <1>8, <1>9, <1>10 DEF IInv
-----------------------------------------------------------------------------
(* The invariant *)

\* It holds when the kernel has elected the first thread.
LEMMA InitOk ==
  ASSUME Init
  PROVE  IInv
<1>1. /\ hilo_EXEC = <<1, 0>> /\ creados = {<<1, 0>>}
      /\ cola_READY = <<>> /\ en_io = {} /\ en_espera = {} /\ procesos_NEW = {}
      /\ kernel = "cuenta" /\ cronometro = FALSE /\ verificados = 0
      /\ a_cpu = enviar_a_ejecucion(<<1, 0>>) /\ a_kernel = <<>> /\ interrupciones = <<>>
      /\ cpu_pc = "inicio" /\ actual = <<0, 0>> /\ registros = 0
      /\ ejecutando_proceso = FALSE /\ interrupt_flag = FALSE
      /\ contextos = [h \in Hilos |-> IF h = <<1, 0>> THEN 0 ELSE NoHay]
      /\ avanzo = FALSE /\ ajeno = FALSE
  BY DEF Init
<1> DEFINE uno == <<1, 0>>
<1>2. uno \in Hilos /\ NoHay # 0 /\ uno # Nadie /\ MaxVerificados \in Nat
  BY ConstantesDelDespacho
<1>3. uno[1] = 1 /\ <<uno[1], 0>> = uno
  OBVIOUS
<1>4. /\ hilo_EXEC = uno /\ creados = {uno} /\ a_cpu = enviar_a_ejecucion(uno)
      /\ contextos = [h \in Hilos |-> IF h = uno THEN 0 ELSE NoHay]
  BY <1>1
<1> HIDE DEF uno
<1>5. Vivos = {uno}
  BY <1>2, <1>4 DEF Vivos
<1>6. TipoDeDatos
  <2>1. contextos \in [Hilos -> Nat \cup {NoHay}]
    BY <1>4
  <2>2. cola_READY \in Seq(Hilos) /\ interrupciones \in Seq(Int)
    BY <1>1
  <2>3. /\ ejecutando_proceso \in BOOLEAN /\ interrupt_flag \in BOOLEAN
        /\ avanzo \in BOOLEAN /\ ajeno \in BOOLEAN /\ cronometro \in BOOLEAN
    BY <1>1
  <2>4. verificados \in 0 .. MaxVerificados /\ registros \in Nat
    BY <1>1, <1>2
  <2> QED BY <1>1, <1>2, <1>4, <2>1, <2>2, <2>3, <2>4, Zenon DEF TipoDeDatos
<1>7. TurnoEnCamino
  BY <1>1, <1>4, <1>5 DEF TurnoEnCamino, EnCuenta, Libre
<1>8. Lugares
  <2>1. ToSet(cola_READY) = {} /\ IsInjective(cola_READY)
    BY <1>1 DEF ToSet, IsInjective
  <2> QED BY <1>1, <1>4, <1>5, <2>1 DEF Lugares
<1>9. EnNEW
  BY <1>1, <1>3, <1>4 DEF EnNEW
<1>10. Avisados
  <2>1. Len(interrupciones) = 0
    BY <1>1
  <2>2. 0 \in 0 .. Len(interrupciones) /\ Len(interrupciones) = 3 * 0 /\ 0 .. 0 - 1 = {}
    BY <2>1
  <2> QED BY <2>2 DEF Avisados
<1> QED BY <1>6, <1>7, <1>8, <1>9, <1>10 DEF IInv, Fase

\* A step in which nothing happens.
LEMMA QuietoOk ==
  ASSUME IInv, UNCHANGED vars
  PROVE  IInv'
<1>1. /\ UNCHANGED <<hilo_EXEC, colas, kernel, ajeno, quantum, a_kernel, a_cpu, enCpu, interrupt_flag,
                     contextos, avanzo>>
      /\ Vivos' = Vivos
  BY DEF vars, enKernel, Vivos
<1>2. Lugares' /\ EnNEW'
  BY <1>1, LugaresQuietos
<1>3. Fase'
  BY <1>1, FaseQuieta DEF IInv, colas, enCpu
<1>4. TipoDeDatos' /\ Avisados'
  BY <1>1 DEF IInv, TipoDeDatos, Avisados, colas, quantum, enCpu
<1> QED BY <1>2, <1>3, <1>4 DEF IInv

\* Every step keeps it.
LEMMA PasoOk ==
  ASSUME IInv, [Next]_vars
  PROVE  IInv'
<1>1. CASE gestionar_peticiones_cpu_dispatch
  BY <1>1, CrearProcesoOk, CrearHiloOk, CrearMutexOk, EsperarOk, DesbloquearMutexOk, ThreadExitOk,
     ThreadCancelOk, FinalizarProcesoOk, BloquearPorIOOk, FinDeQuantumOk, RecibirAcuseOk,
     ElegirHiloOk, IniciarConteoOk, Zenon DEF gestionar_peticiones_cpu_dispatch
<1>2. CASE BuclePrincipal
  BY <1>2, BucleOk, RecibirHiloOk, ExecuteOk, RevisarBloqueanteOk, RevisarInterrupcionOk, Zenon
     DEF BuclePrincipal
<1>3. CASE recibir_interrupciones \/ VenceQuantum \/ EnviaInterrupcion \/ VolverDeIO
  BY <1>3, InterrupcionesOk, QuantumOk, VolverDeIOOk, Zenon
<1>4. CASE UNCHANGED vars
  BY <1>4, QuietoOk
<1> QED BY <1>1, <1>2, <1>3, <1>4, Zenon DEF Next

\* The phases, the places of the threads and the types hold of every behaviour.
THEOREM Invariante == Spec => []IInv
<1>1. Init => IInv
  BY InitOk
<1>2. IInv /\ [Next]_vars => IInv'
  BY PasoOk
<1> QED BY <1>1, <1>2, PTL DEF Spec

-----------------------------------------------------------------------------
(* What it says of the protocol *)

\* Types: no NULL TCB is queued, and what travels is words.
LEMMA TiposDeLaFase ==
  ASSUME IInv
  PROVE  TypeOK
<1>1. \A v \in Int : <<24, 4, v>> \in Seq(Int)
  OBVIOUS
<1>2. <<24>> \in Seq(Int) /\ <<>> \in Seq(Int) /\ 0 \in Int /\ 1 \in Int
  OBVIOUS
<1>3. Bloqueante \in Seq(Int) /\ NoBloqueante \in Seq(Int)
  BY <1>1, <1>2 DEF Bloqueante, NoBloqueante, enviar_int
<1>4. a_kernel \in Seq(Int)
  <2>1. CASE Pedida
    BY <2>1, CualPedido DEF IInv
  <2>2. CASE ~Pedida
    BY <1>2, <2>2 DEF IInv, Fase, Corriendo, Contestada, Acusada, TurnoEnCamino, SinNadie, Ajena, Vacias
  <2> QED BY <2>1, <2>2
<1>5. a_cpu \in Seq(Int)
  <2>1. CASE TurnoEnCamino
    BY <2>1, TurnoEsSecuencia DEF TurnoEnCamino, Vivos
  <2>2. CASE ~TurnoEnCamino
    BY <1>2, <1>3, <2>2 DEF IInv, Fase, Corriendo, Pedida, Contestada, Acusada, SinNadie, Ajena, Vacias
  <2> QED BY <2>1, <2>2
<1>6. /\ kernel \in {"recibe", "elige", "cuenta", "sigue_tras_acuse", "elige_tras_acuse", "caido"}
      /\ cpu_pc \in {"inicio", "espera", "execute", "bloqueante", "urgente", "interrupcion"}
  BY DEF IInv, Fase, Corriendo, Pedida, Contestada, Acusada, TurnoEnCamino, SinNadie, Ajena, EnCuenta,
         Libre
<1> QED BY <1>4, <1>5, <1>6 DEF IInv, TipoDeDatos, TypeOK

\* The packet of a turn is taken apart as one of two fields.
LEMMA TurnoEsPaquete ==
  ASSUME NEW h \in Hilos
  PROVE  LET m == enviar_a_ejecucion(h) IN Head(m) = OP_EJECUTAR_HILO /\ EsPaquete(m, 2)
<1> DEFINE x == h[1]
           y == h[2]
<1>1. x \in Nat /\ y \in Nat /\ enviar_a_ejecucion(h) = <<18, 16, 4, x, 4, y>>
  BY Pares, Mensajes
<1> HIDE DEF x, y
<1> DEFINE m == <<18, 16, 4, x, 4, y>>
           r == recibir_paquete(Tail(m))
<1>2. HayBuffer(Tail(m)) /\ r = [valores |-> <<<<x>>, <<y>>>>, resto |-> <<>>]
  BY <1>1, TomaPaquete
<1>3. Len(r.valores) = 2 /\ r.resto = <<>>
  BY <1>1, <1>2
<1>4. Head(m) = 18 /\ Len(m) > 1
  OBVIOUS
<1> QED BY <1>1, <1>2, <1>3, <1>4 DEF EsPaquete

\* A request is one that the dispatch thread takes apart.
LEMMA PedidaEsPedido ==
  ASSUME TipoDeDatos, Pedida
  PROVE  EsPedido(a_kernel)
<1> DEFINE op == Head(a_kernel)
<1>1. CASE op \in {13, 14, 16}
  BY <1>1, CualPedido DEF EsPedido
<1>2. CASE op \in {22, 8, 7, 17, 20, 21, 19, 15}
  <2>1. \E v \in Int : a_kernel = <<op, 4, v>>
    <3>1. TIDs \subseteq Int
      BY Pares DEF TIDs
    <3> QED BY <1>2, <3>1, CualPedido
  <2> HIDE DEF op
  <2>2. EsInt(a_kernel)
    BY <2>1 DEF EsInt
  <2> QED BY <1>2, <2>2 DEF EsPedido, op
<1>3. CASE op = 4
  <2>1. a_kernel = <<4, 24, 4, 0, 4, 0, 4, 0>>
    BY <1>3, CualPedido, Mensajes
  <2> DEFINE m == <<4, 24, 4, 0, 4, 0, 4, 0>>
  <2>2. HayBuffer(Tail(m)) /\ recibir_paquete(Tail(m)).resto = <<>>
        /\ Len(recibir_paquete(Tail(m)).valores) = 3
    BY TomaPaquete
  <2>3. Len(m) > 1
    OBVIOUS
  <2>4. EsPaquete(a_kernel, 3)
    BY <2>1, <2>2, <2>3 DEF EsPaquete
  <2> QED BY <1>3, <2>4 DEF EsPedido
<1>4. CASE op = 23
  <2>1. a_kernel = <<23, 16, 4, 0, 4, 0>>
    BY <1>4, CualPedido, Mensajes
  <2>2. \E z \in Nat : a_kernel = <<23, 16, 4, z, 4, z>>
    BY <2>1
  <2>3. PICK z \in Nat : a_kernel = <<23, 16, 4, z, 4, z>>
    BY <2>2
  <2> DEFINE m == <<23, 16, 4, z, 4, z>>
             r == recibir_paquete(Tail(m))
  <2>4. HayBuffer(Tail(m)) /\ r = [valores |-> <<<<z>>, <<z>>>>, resto |-> <<>>]
    BY TomaPaquete, Zenon
  <2>5. Len(r.valores) = 2 /\ r.resto = <<>>
    BY <2>4
  <2>6. Len(m) > 1
    OBVIOUS
  <2>7. EsPaquete(a_kernel, 2)
    BY <2>3, <2>4, <2>5, <2>6 DEF EsPaquete
  <2> QED BY <1>4, <2>7 DEF EsPedido
<1> QED BY <1>1, <1>2, <1>3, <1>4, CualPedido

\* Each connection holds what its reader takes apart.
LEMMA SincroniaDeLaFase ==
  ASSUME IInv
  PROVE  Sincronizados
<1>1. ASSUME a_kernel # <<>>
      PROVE  IF EsperaAcuse THEN a_kernel = <<OP_ES_BLOQUEANTE>> ELSE EsPedido(a_kernel)
  <2>1. Pedida \/ Acusada
    BY <1>1 DEF IInv, Fase, Corriendo, Contestada, TurnoEnCamino, SinNadie, Ajena, Vacias
  <2>2. CASE Acusada
    BY <2>2 DEF Acusada, EsperaAcuse
  <2>3. CASE Pedida
    <3>1. ~EsperaAcuse
      BY <2>3 DEF Pedida, EnCuenta, EsperaAcuse
    <3>2. EsPedido(a_kernel)
      BY <2>3, PedidaEsPedido DEF IInv
    <3> QED BY <3>1, <3>2
  <2> QED BY <2>1, <2>2, <2>3
<1>2. ASSUME a_cpu # <<>>
      PROVE  IF cpu_pc = "bloqueante" THEN Head(a_cpu) = OP_ES_BLOQUEANTE /\ EsInt(a_cpu)
             ELSE Head(a_cpu) = OP_EJECUTAR_HILO /\ EsPaquete(a_cpu, 2)
  <2>1. Contestada \/ TurnoEnCamino
    BY <1>2 DEF IInv, Fase, Corriendo, Pedida, Acusada, SinNadie, Ajena, Vacias
  <2>2. CASE Contestada
    <3>1. PICK v \in {0, 1} : a_cpu = <<24, 4, v>>
      BY <2>2 DEF Contestada, Bloqueante, NoBloqueante, enviar_int
    <3>2. Head(a_cpu) = 24 /\ Len(a_cpu) = 3 /\ a_cpu[2] = 4
      BY <3>1
    <3> QED BY <2>2, <3>2 DEF Contestada, EsInt
  <2>3. CASE TurnoEnCamino
    <3>1. hilo_EXEC \in Hilos /\ a_cpu = enviar_a_ejecucion(hilo_EXEC) /\ cpu_pc # "bloqueante"
      BY <2>3 DEF TurnoEnCamino, Vivos, Libre
    <3>2. Head(a_cpu) = OP_EJECUTAR_HILO /\ EsPaquete(a_cpu, 2)
      BY <3>1, TurnoEsPaquete
    <3> QED BY <3>1, <3>2
  <2> QED BY <2>1, <2>2, <2>3
<1> QED BY <1>1, <1>2 DEF Sincronizados

\* Kernel and cpu mean the same thread, and it exists in memoria.
LEMMA AcuerdoDeLaFase ==
  ASSUME IInv
  PROVE  DeAcuerdo
<1>1. ASSUME ejecutando_proceso \/ a_kernel # <<>> \/ cpu_pc = "bloqueante"
      PROVE  actual = hilo_EXEC /\ actual \in Vivos
  BY <1>1 DEF IInv, Fase, Corriendo, Pedida, Contestada, Acusada, TurnoEnCamino, SinNadie, Ajena,
              Vacias, ElMismo, Libre
<1>2. ASSUME a_cpu # <<>>, cpu_pc # "bloqueante"
      PROVE  hilo_EXEC \in Vivos /\ a_cpu = enviar_a_ejecucion(hilo_EXEC)
  BY <1>2 DEF IInv, Fase, Corriendo, Pedida, Contestada, Acusada, TurnoEnCamino, SinNadie, Ajena, Vacias
<1> QED BY <1>1, <1>2 DEF DeAcuerdo

\* Both sides wait only when nothing can run, or after the unanswered UNLOCK.
LEMMA EsperaDeLaFase ==
  ASSUME IInv
  PROVE  SinAbrazo
<1> SUFFICES ASSUME EsperaDeLosDos
             PROVE  \/ ajeno
                    \/ kernel = "recibe" /\ hilo_EXEC = Nadie /\ cola_READY = <<>> /\ cpu_pc = "espera"
  BY DEF SinAbrazo
<1>1. a_kernel = <<>> /\ a_cpu = <<>> /\ cpu_pc \in {"espera", "urgente", "bloqueante"}
      /\ kernel \in {"recibe", "sigue_tras_acuse", "elige_tras_acuse"}
  BY DEF EsperaDeLosDos, EsperaAcuse
<1>2. ~Pedida
  BY <1>1, CualPedido DEF IInv
<1>3. ~TurnoEnCamino
  <2>1. ASSUME TurnoEnCamino PROVE FALSE
    BY <1>1, <2>1, TurnoEsSecuencia DEF TurnoEnCamino, Vivos
  <2> QED BY <2>1
<1>4. ~Contestada /\ ~Acusada
  BY <1>1 DEF Contestada, Acusada, Bloqueante, NoBloqueante, enviar_int
<1>5. SinNadie \/ Ajena
  BY <1>1, <1>2, <1>3, <1>4 DEF IInv, Fase, Corriendo
<1> QED BY <1>1, <1>5 DEF SinNadie, Ajena, Libre

\* A preemption is of a thread that has executed since it was elected.
LEMMA TurnoDeLaFase ==
  ASSUME IInv
  PROVE  TurnoNoVacio
<1>1. ASSUME a_kernel # <<>>, Head(a_kernel) = OP_INTERRUPT PROVE avanzo
  BY <1>1 DEF IInv, Fase, Corriendo, Pedida, Contestada, Acusada, TurnoEnCamino, SinNadie, Ajena, Vacias
<1> QED BY <1>1 DEF TurnoNoVacio

\* Types of the dispatch protocol: whatever is queued is a thread and whatever travels is
\* words, for any threads and any scripts.
THEOREM TiposDelDespacho == Spec => []TypeOK
BY Invariante, TiposDeLaFase, PTL

\* The two connections never lose step: no word is read as what it is not.
THEOREM SinPerderElPaso == Spec => []Sincronizados
BY Invariante, SincroniaDeLaFase, PTL

\* A request is always of the thread that the kernel attributes it to.
THEOREM MismoHilo == Spec => []DeAcuerdo
BY Invariante, AcuerdoDeLaFase, PTL

\* Kernel and cpu do not wait for each other while there is a thread to run.
THEOREM NoSeAbrazan == Spec => []SinAbrazo
BY Invariante, EsperaDeLaFase, PTL

\* No late interrupt takes the turn from a thread that has executed nothing in it.
THEOREM NingunTurnoVacio == Spec => []TurnoNoVacio
BY Invariante, TurnoDeLaFase, PTL
-----------------------------------------------------------------------------
(* The turns *)

\* What each thread has executed, in the cpu or in memoria.
Avance == [h \in Hilos |-> IF ejecutando_proceso /\ h = actual THEN registros ELSE contextos[h]]

\* Off the cpu, it is what memoria keeps.
LEMMA AvanceEnMemoria ==
  ASSUME TipoDeDatos, ~ejecutando_proceso
  PROVE  Avance = contextos
BY DEF Avance, TipoDeDatos

\* The threads of the abstract system are the ones memoria has.
LEMMA VivosDelTurno ==
  ASSUME IInv
  PROVE  Turno!Vivos = Vivos
<1>1. NoHay \notin Nat
  BY ConstantesDelDespacho
<1>2. ejecutando_proceso => actual \in Vivos /\ registros \in Nat
  BY DEF IInv, Fase, Corriendo, Pedida, Contestada, Acusada, TurnoEnCamino, SinNadie, Ajena, ElMismo,
         TipoDeDatos
<1>3. \A h \in Hilos :
        (IF ejecutando_proceso /\ h = actual THEN registros ELSE contextos[h]) # NoHay
          <=> contextos[h] # NoHay
  BY <1>1, <1>2 DEF Vivos
<1> QED BY <1>3 DEF Turno!Vivos, Vivos

\* A step that changes neither who has the turn nor what anyone has executed.
LEMMA EsNada ==
  ASSUME UNCHANGED <<hilo_EXEC, ejecutando_proceso, actual, registros, contextos>>
  PROVE  UNCHANGED <<hilo_EXEC, Avance>>
BY DEF Avance

\* One instruction of the thread of the turn.
LEMMA EsEjecutar ==
  ASSUME IInv, hilo_EXEC \in Vivos, UNCHANGED hilo_EXEC,
         Avance' = [Avance EXCEPT ![hilo_EXEC] = @ + 1]
  PROVE  Turno!Next
<1>1. hilo_EXEC \in Turno!Vivos
  BY VivosDelTurno
<1>2. Turno!Ejecutar
  BY <1>1 DEF Turno!Ejecutar, Avance
<1> QED BY <1>2 DEF Turno!Next

\* One request, or the end of the turn that an earlier one asked for.
LEMMA EsPedir ==
  ASSUME IInv, IInv', ~ejecutando_proceso, ~ejecutando_proceso', hilo_EXEC \in Vivos,
         hilo_EXEC' \in {hilo_EXEC, Nadie},
         \A h \in Hilos : \/ contextos'[h] \in {contextos[h], NoHay}
                          \/ h \notin Vivos /\ contextos'[h] = 0
  PROVE  Turno!Next
<1>1. Avance = contextos /\ Avance' = contextos'
  <2>1. TipoDeDatos'
    BY DEF IInv
  <2> QED BY <2>1, AvanceEnMemoria DEF IInv, Avance, TipoDeDatos
<1>2. hilo_EXEC \in Turno!Vivos /\ Turno!Vivos = Vivos
  BY VivosDelTurno
<1>3. contextos' = [h \in Hilos |-> contextos'[h]]
  BY DEF IInv, TipoDeDatos
<1>4. hilo_EXEC' = Nadie \/ hilo_EXEC' \in Vivos'
  BY DEF IInv, Fase, Corriendo, Pedida, Contestada, Acusada, TurnoEnCamino, SinNadie, Ajena, ElMismo
<1>5. hilo_EXEC' \in {Nadie} \cup ({hilo_EXEC} \ {h \in Hilos : Avance'[h] = NoHay})
  BY <1>1, <1>4 DEF Vivos
<1>6. \A h \in Hilos : Avance'[h] \in {Avance[h], NoHay} \cup (IF h \in Turno!Vivos THEN {} ELSE {0})
  BY <1>1, <1>2
<1>7. Avance' = [h \in Hilos |-> Avance'[h]]
  BY <1>1, <1>3
<1>8. Turno!Pedir
  BY <1>2, <1>5, <1>6, <1>7 DEF Turno!Pedir, Avance
<1> QED BY <1>8 DEF Turno!Next

\* The steps of the cpu: an instruction is one, whatever follows it is none.
LEMMA TurnoDelCpu ==
  ASSUME IInv, BuclePrincipal
  PROVE  [Turno!Next]_<<hilo_EXEC, Avance>>
<1>1. ASSUME NEW nombre, NEW m, Pedido(nombre, m) PROVE Turno!Next
  <2>1. Corriendo
    BY <1>1 DEF Pedido, IInv, Fase, Pedida, Contestada, Acusada, TurnoEnCamino, SinNadie, Ajena, Libre
  <2>2. /\ ejecutando_proceso /\ hilo_EXEC = actual /\ actual \in Vivos /\ actual \in Hilos
        /\ contextos \in [Hilos -> Nat \cup {NoHay}]
    BY <2>1 DEF Corriendo, ElMismo, Vivos, IInv, TipoDeDatos
  <2>3. /\ ejecutando_proceso' = FALSE /\ UNCHANGED <<hilo_EXEC, actual>>
        /\ contextos' = [contextos EXCEPT ![actual] = registros + 1]
    BY <1>1 DEF Pedido, actualizar_contexto, enKernel
  <2>4. Avance' = [Avance EXCEPT ![hilo_EXEC] = @ + 1]
    BY <2>2, <2>3 DEF Avance
  <2> QED BY <2>2, <2>3, <2>4, EsEjecutar
<1>2. CASE Execute
  <2>1. PICK nombre, m : Pedido(nombre, m)
    BY <1>2 DEF Execute, Cede, Continua, Consulta
  <2> QED BY <1>1, <2>1
<1>3. CASE ExecuteLocal
  <2>1. Corriendo
    BY <1>3 DEF ExecuteLocal, IInv, Fase, Pedida, Contestada, Acusada, TurnoEnCamino, SinNadie, Ajena,
               Libre
  <2>2. /\ ejecutando_proceso /\ hilo_EXEC = actual /\ actual \in Vivos /\ actual \in Hilos
    BY <2>1 DEF Corriendo, ElMismo, Vivos
  <2>3. registros' = registros + 1 /\ UNCHANGED <<hilo_EXEC, ejecutando_proceso, actual, contextos>>
    BY <1>3 DEF ExecuteLocal, enKernel
  <2>4. Avance' = [Avance EXCEPT ![hilo_EXEC] = @ + 1]
    BY <2>2, <2>3 DEF Avance
  <2> QED BY <2>2, <2>3, <2>4, EsEjecutar
<1>4. CASE RecibirTurno \/ RecuperarContexto
  <2>1. PICK despues : RecibirHilo(despues) /\ cpu_pc \in {"espera", "urgente"}
    BY <1>4 DEF RecibirTurno, RecuperarContexto
  <2>2. /\ TurnoEnCamino /\ actual' = hilo_EXEC /\ registros' = contextos[hilo_EXEC]
    BY <2>1, LlegaTurno
  <2>3. ejecutando_proceso' = TRUE /\ UNCHANGED <<hilo_EXEC, contextos>> /\ ~ejecutando_proceso
    BY <2>1, <2>2 DEF RecibirHilo, enKernel, TurnoEnCamino
  <2>4. Avance' = Avance
    BY <2>2, <2>3 DEF Avance
  <2> QED BY <2>3, <2>4
<1>5. CASE Inicio \/ revisar_bloqueante
  <2>1. UNCHANGED <<hilo_EXEC, ejecutando_proceso, actual, registros, contextos>>
    BY <1>5 DEF Inicio, revisar_bloqueante, enKernel
  <2> QED BY <2>1, EsNada
<1>6. CASE RevisarInterrupcion
  <2>1. UNCHANGED <<hilo_EXEC, actual, registros>>
    BY <1>6 DEF RevisarInterrupcion, enKernel
  <2>2. CASE Interrumpible /\ actualizar_contexto(registros)
    <3>1. /\ ejecutando_proceso /\ ejecutando_proceso' = FALSE
          /\ contextos' = [contextos EXCEPT ![actual] = registros]
          /\ contextos \in [Hilos -> Nat \cup {NoHay}]
      BY <2>2 DEF Interrumpible, actualizar_contexto, IInv, TipoDeDatos
    <3>2. Avance' = Avance
      BY <2>1, <3>1 DEF Avance
    <3> QED BY <2>1, <3>2
  <2>3. CASE UNCHANGED <<ejecutando_proceso, contextos>>
    BY <2>1, <2>3, EsNada
  <2> QED BY <1>6, <2>2, <2>3 DEF RevisarInterrupcion
<1> QED BY <1>2, <1>3, <1>4, <1>5, <1>6 DEF BuclePrincipal

\* The steps of the kernel: a request is served, a turn ends, a turn begins.
LEMMA TurnoDelKernel ==
  ASSUME IInv, gestionar_peticiones_cpu_dispatch
  PROVE  [Turno!Next]_<<hilo_EXEC, Avance>>
<1>0. IInv'
  BY PasoOk, Zenon DEF Next
<1>1. ASSUME NEW op, Recibe(op)
      PROVE  /\ ~ejecutando_proceso /\ ~ejecutando_proceso' /\ hilo_EXEC \in Vivos
             /\ contextos \in [Hilos -> Nat \cup {NoHay}] /\ NoHay # 0 /\ NoHay \notin Nat
  BY <1>1, LlegaPedido, EnTurno, ConstantesDelDespacho DEF enCpu, IInv, TipoDeDatos
<1>2. CASE crear_proceso
  <2>1. Recibe(OP_CREAR_PROCESO) /\ Sigue
    BY <1>2 DEF crear_proceso, ConPaquete
  <2>2. PICK p \in PidLibre :
          contextos' = contextos \/ contextos' = [contextos EXCEPT ![<<p, 0>>] = 0]
    BY <1>2 DEF crear_proceso
  <2>3. <<p, 0>> \notin Vivos
    <3>1. <<p, 0>> \notin creados
      <4>1. p \in PIDs /\ (p < p <=> <<p, 0>> \in creados \/ p \in procesos_NEW)
        BY DEF PidLibre
      <4>2. p \in Nat
        BY <4>1, Pares DEF PIDs
      <4> QED BY <4>1, <4>2
    <3> QED BY <3>1 DEF IInv, Lugares
  <2> DEFINE h == <<p, 0>>
  <2> HIDE DEF h
  <2>4. contextos' = contextos \/ contextos' = [contextos EXCEPT ![h] = 0]
    BY <2>2 DEF h
  <2>5. \A g \in Hilos : contextos'[g] \in {contextos[g], NoHay} \/ (g \notin Vivos /\ contextos'[g] = 0)
    BY <1>1, <2>1, <2>3, <2>4 DEF h
  <2> QED BY <1>0, <1>1, <2>1, <2>5, EsPedir DEF Sigue
<1>3. CASE crear_hilo
  <2>1. Recibe(OP_CREAR_HILO) /\ Sigue
    BY <1>3 DEF crear_hilo, ConPaquete
  <2>2. PICK t \in TidLibre(hilo_EXEC[1]) :
          contextos' = contextos \/ contextos' = [contextos EXCEPT ![<<hilo_EXEC[1], t>>] = 0]
    BY <1>3 DEF crear_hilo
  <2> DEFINE h == <<hilo_EXEC[1], t>>
  <2>3. h \notin Vivos
    <3>1. h \notin creados
      <4>1. t \in TIDs /\ (t < t <=> h \in creados)
        BY DEF TidLibre
      <4>2. t \in Nat
        BY <4>1, Pares DEF TIDs
      <4> QED BY <4>1, <4>2
    <3> QED BY <3>1 DEF IInv, Lugares
  <2>4. contextos' = contextos \/ contextos' = [contextos EXCEPT ![h] = 0]
    BY <2>2
  <2> HIDE DEF h
  <2>5. \A g \in Hilos : contextos'[g] \in {contextos[g], NoHay} \/ (g \notin Vivos /\ contextos'[g] = 0)
    BY <1>1, <2>1, <2>3, <2>4
  <2> QED BY <1>0, <1>1, <2>1, <2>5, EsPedir DEF Sigue
<1>4. CASE crear_mutex \/ bloquear_hilo_por_thread_join \/ bloquear_mutex \/ desbloquear_mutex
  <2>1. PICK op : Recibe(op)
    BY <1>4 DEF crear_mutex, bloquear_hilo_por_thread_join, bloquear_mutex, desbloquear_mutex, ConInt,
               ConString
  <2>2. UNCHANGED <<hilo_EXEC, contextos>>
    BY <1>4 DEF crear_mutex, bloquear_hilo_por_thread_join, bloquear_mutex, desbloquear_mutex, Sigue,
               Responde
  <2> QED BY <1>0, <1>1, <2>1, <2>2, EsPedir
<1>5. CASE THREAD_EXIT \/ THREAD_CANCEL
  <2>1. PICK op, h : Recibe(op) /\ finalizar_hilo(h)
    BY <1>5 DEF THREAD_EXIT, THREAD_CANCEL, SinDatos, ConInt
  <2>2. hilo_EXEC' \in {hilo_EXEC, Nadie}
    BY <2>1 DEF finalizar_hilo, Sigue, DejaDeEjecutar
  <2>3. \/ contextos' = contextos
        \/ contextos' = [g \in Hilos |-> IF g \in {h} THEN NoHay ELSE contextos[g]]
    BY <2>1 DEF finalizar_hilo, Terminan
  <2>4. \A g \in Hilos : contextos'[g] \in {contextos[g], NoHay}
    BY <2>3
  <2> QED BY <1>0, <1>1, <2>1, <2>2, <2>4, EsPedir
<1>6. CASE finalizar_proceso
  <2>1. PICK op : Recibe(op)
    BY <1>6 DEF finalizar_proceso, SinDatos, ConInt
  <2>2. PICK P \in SUBSET procesos_NEW :
          contextos' = [h \in Hilos |-> IF h \in DelProceso(Hilos, hilo_EXEC[1]) THEN NoHay
                                        ELSE IF h \in {<<p, 0>> : p \in P} THEN 0 ELSE contextos[h]]
    BY <1>6 DEF finalizar_proceso
  <2>3. \A h \in {<<p, 0>> : p \in P} : h \notin Vivos
    <3>1. ASSUME NEW p \in P PROVE <<p, 0>> \notin Vivos
      <4>1. <<p, 0>>[1] = p /\ p \in procesos_NEW
        OBVIOUS
      <4>2. <<p, 0>> \notin creados
        BY <4>1 DEF IInv, EnNEW
      <4> QED BY <4>2 DEF IInv, Lugares
    <3> QED BY <3>1
  <2>4. \A h \in Hilos : contextos'[h] \in {contextos[h], NoHay} \/ (h \notin Vivos /\ contextos'[h] = 0)
    BY <2>2, <2>3
  <2>5. hilo_EXEC' = Nadie
    BY <1>6 DEF finalizar_proceso, DejaDeEjecutar
  <2> QED BY <1>0, <1>1, <2>1, <2>4, <2>5, EsPedir
<1>7. CASE BloquearPorIO \/ cambiar_hilo_exec_fin_Q
  <2>1. PICK op : Recibe(op)
    BY <1>7 DEF BloquearPorIO, cambiar_hilo_exec_fin_Q, SinDatos, ConInt
  <2>2. hilo_EXEC' = Nadie /\ UNCHANGED contextos
    BY <1>7 DEF BloquearPorIO, cambiar_hilo_exec_fin_Q, DejaDeEjecutar
  <2> QED BY <1>0, <1>1, <2>1, <2>2, EsPedir
<1>8. CASE RecibirAcuse
  <2>1. /\ a_kernel # <<>> /\ kernel \in {"sigue_tras_acuse", "elige_tras_acuse"}
        /\ hilo_EXEC' \in {hilo_EXEC, Nadie}
        /\ UNCHANGED <<enCpu, contextos>>
    BY <1>8 DEF RecibirAcuse, Sigue, DejaDeEjecutar
  <2>2. Acusada
    BY <2>1 DEF IInv, Fase, Corriendo, Pedida, Contestada, TurnoEnCamino, SinNadie, Ajena, EnCuenta,
               Vacias
  <2>3. ~ejecutando_proceso /\ ~ejecutando_proceso' /\ hilo_EXEC \in Vivos
    BY <2>1, <2>2 DEF Acusada, ElMismo, enCpu
  <2> QED BY <1>0, <2>1, <2>3, EsPedir
<1>9. CASE elegir_hilo
  <2>1. UNCHANGED <<ejecutando_proceso, actual, registros, contextos>>
    BY <1>9 DEF elegir_hilo, enCpu
  <2>2. CASE UNCHANGED hilo_EXEC
    BY <2>1, <2>2, EsNada
  <2>3. CASE cola_READY # <<>> /\ hilo_EXEC' = Head(cola_READY)
    <3>1. cola_READY \in Seq(Hilos) /\ ToSet(cola_READY) \subseteq Vivos
      BY DEF IInv, TipoDeDatos, Lugares
    <3>2. hilo_EXEC' \in Turno!Vivos
      BY <2>3, <3>1, PrimeroYResto, VivosDelTurno
    <3>3. hilo_EXEC = Nadie
      BY <1>9 DEF elegir_hilo, IInv, Fase, Corriendo, Pedida, Contestada, Acusada, TurnoEnCamino,
                  SinNadie, Ajena, EnCuenta
    <3>4. UNCHANGED Avance
      BY <2>1 DEF Avance
    <3>5. Turno!Elegir
      BY <3>2, <3>3, <3>4 DEF Turno!Elegir, Avance
    <3> QED BY <3>5 DEF Turno!Next
  <2> QED BY <1>9, <2>2, <2>3 DEF elegir_hilo
<1>10. CASE iniciar_conteo_q
  <2>1. UNCHANGED <<hilo_EXEC, ejecutando_proceso, actual, registros, contextos>>
    BY <1>10 DEF iniciar_conteo_q, enCpu
  <2> QED BY <2>1, EsNada
<1> QED BY <1>2, <1>3, <1>4, <1>5, <1>6, <1>7, <1>8, <1>9, <1>10 DEF gestionar_peticiones_cpu_dispatch

\* Every step of the protocol is a step of the turns, or none.
LEMMA PasoDeTurno ==
  ASSUME IInv, [Next]_vars
  PROVE  [Turno!Next]_<<hilo_EXEC, Avance>>
<1>1. CASE recibir_interrupciones \/ VenceQuantum \/ EnviaInterrupcion \/ UNCHANGED vars
  <2>1. UNCHANGED <<hilo_EXEC, ejecutando_proceso, actual, registros, contextos>>
    BY <1>1 DEF recibir_interrupciones, VenceQuantum, EnviaInterrupcion, vars, enKernel, enCpu
  <2> QED BY <2>1, EsNada
<1>2. CASE VolverDeIO
  <2>1. UNCHANGED <<hilo_EXEC, ejecutando_proceso, actual, registros, contextos>>
    BY <1>2 DEF VolverDeIO, DejaDeEjecutar, enCpu
  <2> QED BY <2>1, EsNada
<1> QED BY <1>1, <1>2, TurnoDelCpu, TurnoDelKernel DEF Next

\* The first turn is the one of the first thread.
LEMMA PrimerTurno ==
  ASSUME Init
  PROVE  Turno!Init
<1>1. /\ <<1, 0>> \in Hilos /\ hilo_EXEC = <<1, 0>> /\ ejecutando_proceso = FALSE
      /\ contextos = [h \in Hilos |-> IF h = <<1, 0>> THEN 0 ELSE NoHay]
  BY ConstantesDelDespacho DEF Init
<1>2. Avance = [g \in Hilos |-> IF g = <<1, 0>> THEN 0 ELSE NoHay]
  BY <1>1 DEF Avance
<1> QED BY <1>1, <1>2 DEF Turno!Init, Avance

\* Kernel, cpu, interrupts, IO and memoria implement the turns: only the thread of the turn
\* advances, one instruction at a time, and nothing it executed is lost or repeated.
THEOREM ImplementanLosTurnos == Spec => ImplementaTurnos
<1>1. Init => Turno!Init
  BY PrimerTurno
<1>2. IInv /\ [Next]_vars => [Turno!Next]_<<hilo_EXEC, Avance>>
  BY PasoDeTurno
<1>3. IInv /\ [Next]_vars => [Turno!Next]_<<hilo_EXEC, [h \in Hilos |->
         IF ejecutando_proceso /\ h = actual THEN registros ELSE contextos[h]]>>
  BY <1>2 DEF Avance
<1> QED BY <1>1, <1>3, Invariante, PTL DEF Spec, ImplementaTurnos, Turno!Spec
=============================================================================
