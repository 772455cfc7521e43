\* Sizes and addresses multiples of the word.
SPECIFICATION SpecProteccion
CONSTANTS
  MaxPid = 3
  MaxTid = 1
  Tamanios <- Multiplos
  TAM_MEMORIA = 14
  PARTICIONES <- Fijas
  Faltantes <- Ninguno
  W = 6
  ANCHO = 4
  Registros <- Alineados
PROPERTIES
  EscrituraPropia
\* The kernel may have no process left to create.
CHECK_DEADLOCK FALSE
