\* A process of one page and one of two share two frames, under both algorithms, within one
\* second of the clock: safety, and the answer to every page fault.
CONSTANTS
  MaxProcesos = 2
  CantPaginas <- Tamanios
  CantMarcos = 2
  Algoritmos = {"FIFO", "LRU"}
  MaxTraducciones = 4
  MaxReloj = 0
SPECIFICATION EspecificacionJusta
INVARIANTS TipoOK MarcosCoherentes VictimaViva NadaSePierde
PROPERTY FaltaAtendida
CHECK_DEADLOCK FALSE
