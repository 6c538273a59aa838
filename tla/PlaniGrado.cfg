\* MULTIPROGRAMACION raises the degree while processes are admitted.
CONSTANTS
  MaxProcesos  = 3
  GradoInicial = 1
  Grados       = {2}
  Prioridades  = {1}
  Algoritmos   = {"FIFO"}
  Comandos     = {"MULTIPROGRAMACION"}
  Servicios    = {"EXIT"}
  Auxiliares   = {"h1"}
  MaxQuantum   = 1
  MaxCompuerta = 1
  NULO         = NULO
SPECIFICATION Spec
INVARIANT GradoRespetado
CHECK_DEADLOCK FALSE
