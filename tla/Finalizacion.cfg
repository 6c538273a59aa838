\* FINALIZAR_PROCESO once, at any point of the life of one of two processes.
CONSTANTS
  MaxProcesos  = 2
  GradoInicial = 1
  Grados       = {}
  Prioridades  = {1}
  Algoritmos   = {"FIFO"}
  Comandos     = {}
  Servicios    = {"EXIT", "SLEEP", "PAGE_FAULT", "CONTINUA"}
  Auxiliares   = {"h1", "h2"}
  MaxQuantum   = 1
  MaxCompuerta = 1
  MaxMuertes   = 1
  NULO         = NULO
SPECIFICATION SpecF
INVARIANTS TipoFinOK AjenosIntactos GradoConMuertes
PROPERTY MuertoSale
CHECK_DEADLOCK FALSE
