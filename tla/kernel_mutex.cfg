\* CMN, scripts that use mutexes without discipline and cancel nobody.
CONSTANTS
  MaxPid = 2
  MaxTid = 3
  Prioridades <- UnaPrioridad
  Nombres = {m1}
  ALGORITMO = "CMN"
  Llamadas <- MutexSinCancelar
  Disciplina = FALSE
  Basura <- SinBasura
  Nadie = Nadie
SPECIFICATION Spec
INVARIANTS
  ContabilidadMutex
  EsperaSoloSiTomado
  EsperaUnica
PROPERTIES
  SinColarse
  SinPostergar
\* The system stops when every thread has ended or is blocked.
CHECK_DEADLOCK FALSE
