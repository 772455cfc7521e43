\* Every configuration of partitions and search; the script of process 2 may be missing.
SPECIFICATION Spec
CONSTANTS
  MaxPid = 4
  MaxTid = 1
  Tamanios <- DosTamanios
  TAM_MEMORIA = 9
  PARTICIONES <- Fijas
  Faltantes = {2}
INVARIANTS
  TypeOK
  Teselan
  MemoriaActiva
  RechazoJusto
  UnaParticion
  MemoriaDevuelta
PROPERTIES
  ImplementaReserva
\* The kernel may have no process left to create.
CHECK_DEADLOCK FALSE
