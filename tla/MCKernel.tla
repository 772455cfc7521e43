------------------------------ MODULE MCKernel ------------------------------
(* Values of the constants of Kernel for TLC: which requests the scripts make. *)
EXTENDS Kernel

Crear    == {"THREAD_CREATE", "THREAD_EXIT"}
Procesos == {"PROCESS_CREATE", "PROCESS_EXIT", "SEGMENTATION_FAULT"}
DeMutex  == {"MUTEX_CREATE", "MUTEX_LOCK", "MUTEX_UNLOCK"}

Todas            == Procesos \cup Crear \cup DeMutex
                      \cup {"THREAD_JOIN", "THREAD_CANCEL", "INTERRUPT"}
SinMutexes       == Todas \ (DeMutex \cup {"INTERRUPT"})
MutexSinCancelar == Todas \ {"THREAD_CANCEL", "PROCESS_CREATE"}

CrearUnirTerminar == Crear \cup {"THREAD_JOIN"}

UnaPrioridad   == {0}
DosPrioridades == {0, 1}
SinBasura      == {Nadie}
=============================================================================
