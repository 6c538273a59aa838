\* The planners under every planning command of the console, page faults included.
CONSTANTS
  MaxProcesos  = 2
  GradoInicial = 1
  Grados       = {2}
  Prioridades  = {1, 2}
  Algoritmos   = {"PRIORIDADES"}
  Comandos     = {"DETENER_PLANIFICACION", "INICIAR_PLANIFICACION", "MULTIPROGRAMACION"}
  Servicios    = {"EXIT", "SLEEP", "PAGE_FAULT"}
  Auxiliares   = {"h1", "h2", "h3"}
  MaxQuantum   = 1
  MaxCompuerta = 1
  NULO         = NULO
SPECIFICATION Spec
PROPERTY PausaRespetada
CHECK_DEADLOCK FALSE
