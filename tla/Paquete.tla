------------------------------ MODULE Paquete ------------------------------
(***************************************************************************)
(* The packets of utils: what the sending routines put on a connection and *)
(* what the receiving ones take from it. Nothing in a message says which   *)
(* routine wrote it: both ends must agree.                                 *)
(*                                                                         *)
(* A connection is a sequence of words of SIZEOF_INT bytes. A string is    *)
(* abstracted to one word.                                                 *)
(***************************************************************************)
EXTENDS Integers, Sequences

SIZEOF_INT == 4

\* enum op_code: the ones kernel and cpu exchange.
OP_CREAR_PROCESO     == 4
OP_INTERRUPT         == 7
OP_SEGMENTATION_FAULT == 8
OP_FINALIZAR_PROCESO == 13
OP_FINALIZAR_HILO    == 14
OP_CANCELAR_HILO     == 15
OP_DUMP_MEM          == 16
OP_THREAD_JOIN       == 17
OP_EJECUTAR_HILO     == 18
OP_MUTEX_CREATE      == 19
OP_MUTEX_LOCK        == 20
OP_MUTEX_UNLOCK      == 21
OP_IO                == 22
OP_CREAR_HILO        == 23
OP_ES_BLOQUEANTE     == 24

-----------------------------------------------------------------------------
(* Sending *)

crear_paquete(op) == [codigo_operacion |-> op, size |-> 0, stream |-> <<>>]

\* A field is its length in bytes and its words.
agregar_a_paquete(paquete, valor) ==
  LET tam == SIZEOF_INT * Len(valor)
  IN  [paquete EXCEPT !.size = @ + SIZEOF_INT + tam, !.stream = @ \o <<tam>> \o valor]

\* serializar_paquete and the send of enviar_paquete: one call, so the words of two
\* messages never mix.
enviar_paquete(paquete) == <<paquete.codigo_operacion, paquete.size>> \o paquete.stream

\* enviar_int, and enviar_string for a string of one word: the buffer is the bare value.
enviar_int(valor, op)    == <<op, SIZEOF_INT, valor>>
enviar_string(valor, op) == <<op, SIZEOF_INT, valor>>

enviar_operacion(op) == <<op>>

-----------------------------------------------------------------------------
(* Receiving. resto is what stays in the connection. *)

recibir_operacion(s) == [valor |-> Head(s), resto |-> Tail(s)]

\* recv with MSG_WAITALL returns only when the size and that many bytes have come.
HayBuffer(s) == s # <<>> /\ Len(s) > Head(s) \div SIZEOF_INT

recibir_buffer(s) ==
  LET n == Head(s) \div SIZEOF_INT
  IN  [valor |-> SubSeq(s, 2, n + 1), resto |-> SubSeq(s, n + 2, Len(s))]

recibir_int(s) == LET b == recibir_buffer(s) IN [valor |-> b.valor[1], resto |-> b.resto]

recibir_string(s) == recibir_int(s)

\* The loop over the fields: from word d on, the buffer holds these values. A length
\* that goes past the end reads what there is.
Campos(b) ==
  LET desde[d \in Nat] ==
        IF d >= Len(b) THEN <<>>
        ELSE LET n == b[d + 1] \div SIZEOF_INT
             IN  <<SubSeq(b, d + 2, d + 1 + n)>> \o desde[d + 1 + n]
  IN  desde[0]

recibir_paquete(s) ==
  LET b == recibir_buffer(s) IN [valores |-> Campos(b.valor), resto |-> b.resto]
=============================================================================
