\* Three processes, one file, which may come to have several entries; not symmetric, for liveness.
CONSTANTS
  Procesos = {p1, p2, p3}
  Nadie    = nadie
  Archivos = {f}
  MaxAperturas = 3
SPECIFICATION EspecificacionJusta
INVARIANTS TipoOK EscrituraExclusiva EntradaViva LectorDespierto
PROPERTY PlanificadorSigue
CHECK_DEADLOCK FALSE
