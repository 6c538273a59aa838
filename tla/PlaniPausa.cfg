\* INICIAR_PLANIFICACION before DETENER_PLANIFICACION: the gates open twice.
CONSTANTS
  MaxProcesos  = 2
  GradoInicial = 1
  Grados       = {}
  Prioridades  = {1}
  Algoritmos   = {"FIFO"}
  Comandos     = {"DETENER_PLANIFICACION", "INICIAR_PLANIFICACION"}
  Servicios    = {"EXIT"}
  Auxiliares   = {"h1"}
  MaxQuantum   = 1
  MaxCompuerta = 2
  NULO         = NULO
SPECIFICATION Spec
PROPERTY PausaRespetada
CHECK_DEADLOCK FALSE
