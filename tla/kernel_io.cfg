\* IO and dumps: a process of two threads and one of one, three requests.
CONSTANTS
  Hilos <- TresHilos
  MaxPedidos = 3
  MaxVolcados = 2
  Clases = {"IO", "DUMP"}
  Nadie = Nadie
SPECIFICATION Spec
INVARIANTS
  TypeOK
  NadieOlvidado
  KernelYCpuDeAcuerdo
  UnaIO
PROPERTIES
  IOAtendida
\* The system stops when every thread has ended or is blocked.
CHECK_DEADLOCK FALSE
