\* Two threads join a third one.
CONSTANTS
  MaxPid = 1
  MaxTid = 2
  Prioridades <- UnaPrioridad
  Nombres = {m1}
  ALGORITMO = "FIFO"
  Llamadas <- CrearUnirTerminar
  Disciplina = TRUE
  Basura <- SinBasura
  Nadie = Nadie
SPECIFICATION Spec
INVARIANTS
  NadieEsperaAUnFinalizado
\* The system stops when every thread has ended or is blocked.
CHECK_DEADLOCK FALSE
