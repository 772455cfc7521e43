\* Two kernel threads elect.
CONSTANTS
  Hilos <- TresHilos
  MaxPedidos = 3
  MaxVolcados = 2
  Clases = {"IO", "DUMP"}
  Nadie = Nadie
SPECIFICATION Spec
INVARIANTS
  EleccionExclusiva
\* The system stops when every thread has ended or is blocked.
CHECK_DEADLOCK FALSE
