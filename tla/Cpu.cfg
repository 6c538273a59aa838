\* Two programs of three instructions, and two interruptions that may come at any time.
CONSTANTS
  Procesos = {p1, p2}
  Largo = 3
  MaxInterrupciones = 2
  NULO = NULO
SPECIFICATION EspecificacionJusta
INVARIANTS TipoOK EnOrden ComunicacionOK
PROPERTIES CumpleTurno Vuelve
CHECK_DEADLOCK FALSE
