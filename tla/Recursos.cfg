\* Three processes, two resources.
CONSTANTS
  NProcesos  = 3
  NRecursos  = 2
  MaxWaits   = 5
  MaxMuertes = 2
  Instancias <- MCInstancias
SPECIFICATION Spec
INVARIANTS TipoOK InstanciasConservadas DeadlockReportado ColaCoherente NadieDuerme EntregaPendiente
CHECK_DEADLOCK FALSE
