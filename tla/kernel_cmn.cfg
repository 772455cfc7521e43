\* CMN, every request: two processes of two threads, two priorities.
CONSTANTS
  MaxPid = 2
  MaxTid = 1
  Prioridades <- DosPrioridades
  Nombres = {m1}
  ALGORITMO = "CMN"
  Llamadas <- Todas
  Disciplina = TRUE
  Basura <- SinBasura
  Nadie = Nadie
SPECIFICATION Spec
INVARIANTS
  TypeOK
  ColasNEWAlineadas
  UnSoloLugar
  SinHuerfanos
  TrabajoConservado
  EsperadosVivos
PROPERTIES
  SinAdelantarse
  ImplementaCiclo
\* The system stops when every thread has ended or is blocked.
CHECK_DEADLOCK FALSE
