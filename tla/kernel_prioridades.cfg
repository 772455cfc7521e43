\* PRIORIDADES without mutexes: two processes of up to three threads, two priorities.
CONSTANTS
  MaxPid = 2
  MaxTid = 2
  Prioridades <- DosPrioridades
  Nombres = {m1}
  ALGORITMO = "PRIORIDADES"
  Llamadas <- SinMutexes
  Disciplina = TRUE
  Basura <- SinBasura
  Nadie = Nadie
SPECIFICATION Spec
PROPERTIES
  EleccionPorPrioridad
\* The system stops when every thread has ended or is blocked.
CHECK_DEADLOCK FALSE
