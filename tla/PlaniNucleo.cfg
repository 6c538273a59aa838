\* Safety of the planners: the three algorithms, no page faults, no console commands
\* besides INICIAR_PROCESO.
CONSTANTS
  MaxProcesos  = 3
  GradoInicial = 2
  Grados       = {}
  Prioridades  = {1, 2}
  Algoritmos   = {"FIFO", "RR", "PRIORIDADES"}
  Comandos     = {}
  Servicios    = {"EXIT", "SLEEP", "FS", "CONTINUA"}
  Auxiliares   = {"h1", "h2", "h3"}
  MaxQuantum   = 1
  MaxCompuerta = 1
  NULO         = NULO
SPECIFICATION Spec
INVARIANTS TipoOK GradoRespetado SinDuplicados SinPerdidos NadieVarado ExecCoherente
CHECK_DEADLOCK FALSE
