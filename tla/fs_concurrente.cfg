\* Two dumps at once, on a disk with room for both in some sizes.
SPECIFICATION Spec
CONSTANTS
  Volcados = {v1, v2}
  v1 = v1
  v2 = v2
  Tamanios <- Completos
  BLOCK_SIZE = 4
  BLOCK_COUNT = 5
  PUNTERO = 2
  Simultaneos = 2
  MaxCaidas = 0
  Nadie = Nadie
INVARIANTS
  SinRechazos
\* Every dump may have been answered.
CHECK_DEADLOCK FALSE
