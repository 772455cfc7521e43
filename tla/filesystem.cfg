\* Dumps one at a time; each block of index has room for two pointers.
SPECIFICATION SpecJusta
CONSTANTS
  Volcados = {v1, v2, v3}
  v1 = v1
  v2 = v2
  v3 = v3
  Tamanios <- Completos
  BLOCK_SIZE = 4
  BLOCK_COUNT = 6
  PUNTERO = 2
  Simultaneos = 1
  MaxCaidas = 1
  Nadie = Nadie
INVARIANTS
  TypeOK
  ArchivosLegibles
  SinDobleAsignacion
  SinFugas
PROPERTIES
  TodoRespondido
\* Every dump may have been answered.
CHECK_DEADLOCK FALSE
