\* Two files in a FAT of four blocks, and two processes in a swap of five.
CONSTANTS
  p1 = p1
  p2 = p2
  Nadie = Nadie
  Archivos = {a1, a2}
  Procesos = {p1, p2}
  Paginas <- Tamanios
  Nucleos = {"uno", "dos"}
  Escritores = {"escritor"}
  CantBloquesFat = 4
  CantBloquesSwap = 5
  Cupos <- Mezclas
  Sobras <- Ambas
SPECIFICATION EspecificacionJusta
INVARIANTS TipoOK SwapDisjunta CadenasAvanzan FcbCoherente PaginaFiel
PROPERTY PedidoAtendido
CHECK_DEADLOCK FALSE
