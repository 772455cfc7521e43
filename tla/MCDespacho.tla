----------------------------- MODULE MCDespacho -----------------------------
(* Values of the constants of Despacho for TLC. *)
EXTENDS Despacho

TresHilos == {<<1, 0>>, <<1, 1>>, <<2, 0>>}

Todas == {"DUMP_MEMORY", "IO", "PROCESS_CREATE", "THREAD_CREATE", "MUTEX_CREATE", "MUTEX_LOCK",
          "MUTEX_UNLOCK", "THREAD_JOIN", "THREAD_CANCEL", "THREAD_EXIT", "PROCESS_EXIT",
          "SEGMENTATION_FAULT"}
=============================================================================
