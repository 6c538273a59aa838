\* What the detector reports: the same system, nobody killed.
CONSTANTS
  NProcesos  = 3
  NRecursos  = 2
  MaxWaits   = 5
  MaxMuertes = 0
  Instancias <- MCInstancias
SPECIFICATION Spec
INVARIANT ReportaConRecursos
CHECK_DEADLOCK FALSE
