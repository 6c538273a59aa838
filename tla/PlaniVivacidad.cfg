\* Every process created terminates, and the scheduler implements CicloDeVida: preemption,
\* sleep and requests that return, under the fairness of the threads.
CONSTANTS
  MaxProcesos  = 3
  GradoInicial = 2
  Grados       = {}
  Prioridades  = {1, 2}
  Algoritmos   = {"FIFO", "RR", "PRIORIDADES"}
  Comandos     = {}
  Servicios    = {"EXIT", "SLEEP", "CONTINUA"}
  Auxiliares   = {"h1"}
  MaxQuantum   = 1
  MaxCompuerta = 1
  NULO         = NULO
SPECIFICATION SpecJusta
PROPERTIES TodosTerminan CumpleCiclo
CHECK_DEADLOCK FALSE
