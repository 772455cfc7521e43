\* An IO ends while a thread of another process waits for its dump.
CONSTANTS
  Hilos <- TresHilos
  MaxPedidos = 3
  MaxVolcados = 2
  Clases = {"IO", "DUMP"}
  Nadie = Nadie
SPECIFICATION Spec
INVARIANTS
  BloqueadoHastaRespuesta
\* The system stops when every thread has ended or is blocked.
CHECK_DEADLOCK FALSE
