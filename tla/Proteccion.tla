---------------------------- MODULE Proteccion ----------------------------
(***************************************************************************)
(* READ_MEM and WRITE_MEM: the MMU of the CPU in front of the partitions   *)
(* of Memoria. The CPU works with the base and the limit memory gave it    *)
(* (obtenerCDE) when the thread was dispatched; a thread runs while the    *)
(* kernel asks memory nothing, so an access is a step of its own.          *)
(*                                                                         *)
(* Registers are unsigned and the MMU takes an int: both are W bits wide.  *)
(* An access moves ANCHO bytes. What is written is abstracted to who       *)
(* wrote it.                                                               *)
(***************************************************************************)
EXTENDS Memoria

CONSTANTS
  W,          \* bits of a register and of an int
  ANCHO,      \* bytes of an access: sizeof(uint32_t)
  Registros   \* values the scripts use as addresses

ASSUME ConstantesDeProteccion ==
  /\ W \in Nat /\ ANCHO \in Nat \ {0}
  /\ TAM_MEMORIA < 2^(W - 1)
  /\ Registros \subseteq 0 .. 2^W - 1

VARIABLES
  memoria_usuario,   \* who wrote each byte last, 0 when nobody did
  desbordada         \* some write fell outside memoria_usuario

varsProteccion == <<vars, memoria_usuario, desbordada>>

Direcciones == 0 .. TAM_MEMORIA - 1

\* int direccion_logica = registros[...]
ConSigno(r) == IF r >= 2^(W - 1) THEN r - 2^W ELSE r

\* Mutant: the size is taken for the limit.
DentroDelTamanio(base, limite, desplazamiento) == base + desplazamiento <= base + limite + 1

\* The test of the MMU.
Dentro(base, limite, desplazamiento) == base + desplazamiento <= base + limite

\* MMU: -1 stands for a segmentation fault.
MMU(base, limite, desplazamiento) ==
  IF Dentro(base, limite, desplazamiento) THEN base + desplazamiento ELSE -1

\* The context the CPU holds for the process.
CDE(p) == lista_procesos[buscar_proceso(p)]

Fisica(p, r) == MMU(CDE(p).base, CDE(p).limite, ConSigno(r))

Palabra(dir) == dir .. dir + ANCHO - 1

InitProteccion ==
  Init /\ memoria_usuario = [a \in Direcciones |-> 0] /\ desbordada = FALSE

\* WRITE_MEM that the MMU accepts.
Escribir ==
  /\ Libre
  /\ \E p \in activos, r \in Registros :
       LET dir == Fisica(p, r)
       IN  /\ dir # -1
           /\ memoria_usuario' =
                [a \in Direcciones |-> IF a \in Palabra(dir) THEN p ELSE memoria_usuario[a]]
           /\ desbordada' = (desbordada \/ ~(Palabra(dir) \subseteq Direcciones))
  /\ UNCHANGED vars

\* READ_MEM or WRITE_MEM that the MMU refuses: the kernel ends the process. With
\* base 0 the displacement -1 translates to -1, and the instruction has no effect.
FallaDeSegmento ==
  /\ Libre
  /\ \E p \in activos :
       /\ \E r \in Registros : ~Dentro(CDE(p).base, CDE(p).limite, ConSigno(r))
       /\ finalizar_proceso(p) /\ activos' = activos \ {p}
  /\ UNCHANGED <<fijo, cabeza, iniciando, prox_tid, memoria_usuario, desbordada>>

\* A request of the kernel: what a process writes stays in memory after it ends.
PedidoDelKernel == Next /\ UNCHANGED <<memoria_usuario, desbordada>>

NextProteccion == PedidoDelKernel \/ Escribir \/ FallaDeSegmento

SpecProteccion == InitProteccion /\ [][NextProteccion]_varsProteccion

-----------------------------------------------------------------------------
(* Properties *)

\* A write stays inside the memory and changes only bytes of the partition of the
\* process that makes it, whatever processes came and went before ("Validates
\* logical addresses against base and limit registers to prevent unauthorized
\* access"). It needs the MMU, the context of the process and the partition list
\* to agree.
EscrituraPropia ==
  [][/\ ~desbordada'
     /\ \A a \in Direcciones :
          memoria_usuario'[a] # memoria_usuario[a] =>
            \E i \in DOMAIN lista_particiones :
              /\ lista_particiones[i].PID = memoria_usuario'[a]
              /\ a \in BytesDe(i)]_varsProteccion
=============================================================================
