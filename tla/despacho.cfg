\* Every instruction; a process of two threads and one of one.
CONSTANTS
  Hilos <- TresHilos
  Largo = 2
  MaxVerificados = 1
  MaxEnVuelo = 3
  Instrucciones <- Todas
  Nadie = Nadie
  NoHay = NoHay
SPECIFICATION Spec
INVARIANTS
  TypeOK
  Sincronizados
  DeAcuerdo
  SinAbrazo
  TurnoNoVacio
PROPERTIES
  ImplementaTurnos
  ElegidoEjecuta
\* The system stops when every thread has ended or is blocked.
CHECK_DEADLOCK FALSE
