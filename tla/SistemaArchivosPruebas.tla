----------------------- MODULE SistemaArchivosPruebas -----------------------
(***************************************************************************)
(* Proofs about the file system, for any number of files, processes,       *)
(* requests and blocks: types; the chains of the FAT and the FCBs, as long *)
(* as every CREATE and TRUNCATE is alone; the swap blocks, and their       *)
(* contents while requests of the memory come one by one.                  *)
(***************************************************************************)
EXTENDS SistemaArchivos, Lemas

-----------------------------------------------------------------------------
(* The type invariant: types, and at which points a thread of each kind of *)
(* request may be.                                                         *)

Pcs == {"libre", "nace", "recorre", "lee_recorre", "asigna", "marca", "engancha", "enlaza",
        "ultimo", "cierra", "vuelve", "busca", "lee_busca", "encuentra", "corta", "libera",
        "lee_libera", "limpia", "borra", "desmarca", "relee_inicial", "graba_inicial",
        "relee_tamanio", "graba_tamanio", "localiza", "habla", "situa", "accede", "rebobina",
        "responde", "reserva", "ubica"}
Ops == {"NINGUNA", "OPEN", "CREATE", "TRUNCATE", "READ", "WRITE", "PROCESS_STARTED",
        "PROCESS_FINISHED", "LEER_SWAP", "ESCRIBIR_SWAP"}
Luegos == {"responde", "engancha", "libera", "reserva", "habla", "asigna", "vuelve",
           "relee_tamanio"}

Fichas ==
  [pc : Pcs, op : Ops, luego : Luegos,
   quien : Archivos \cup Procesos \cup {Nadie}, n : Nat, inicial : BloquesFat \cup {Fin},
   actuales : Nat, bloque : Nat \cup {Fin}, anterior : Nat \cup {Fin}, cursor : Nat,
   quedan : Int, copia : Fcbs, tomados : SUBSET BloquesSwap, vigente : BOOLEAN]

Tablas == [BloquesFat \cup {Fin} -> BloquesFat \cup {Fin}]

TipoArchivos ==
  /\ fcb \in [Archivos -> Fcbs] /\ fat \in Tablas /\ bloques_libres_fat \subseteq BloquesFat

TipoSwap ==
  /\ bloques_libres_swap \subseteq BloquesSwap
  /\ vivos \subseteq Procesos /\ bloques_de \in [Procesos -> SUBSET BloquesSwap]
  /\ intactos \subseteq BloquesSwap

TipoConexion ==
  /\ socket_cliente \in Hilos \cup {Nadie} /\ entrada \in {"ajena", "cerrada", "cliente"}
  /\ aislados \in BOOLEAN

TipoResto ==
  /\ posicion_fat \in Nat \cup {Fin} /\ posicion \in Nat \cup {Fin} /\ TipoConexion
  /\ cupo \in Reparto
  /\ mal_leida \in BOOLEAN /\ solos \in BOOLEAN /\ caido \in BOOLEAN

DeTruncar == {"nace", "recorre", "lee_recorre", "asigna", "marca", "engancha", "enlaza", "ultimo",
              "cierra", "vuelve", "busca", "lee_busca", "encuentra", "corta", "libera",
              "lee_libera", "limpia", "borra", "desmarca", "relee_inicial", "graba_inicial",
              "relee_tamanio", "graba_tamanio", "situa", "accede", "rebobina", "responde"}
DeLeer == {"nace", "localiza", "busca", "lee_busca", "situa", "accede", "rebobina", "habla",
           "responde"}

\* Where escribir_archivo_de_bloques and actualizar_bloque_inicial_fcb go on to.
Escribe(y) == y.pc \in {"situa", "accede", "rebobina"}
Guarda(y) == y.pc \in {"relee_inicial", "graba_inicial"}

PuntoNucleo(y) ==
  /\ \/ y.op = "NINGUNA" /\ y.pc = "libre"
     \/ y.op \in {"OPEN", "CREATE"} /\ y.pc = "nace"
     \/ /\ y.op = "TRUNCATE" /\ y.pc \in DeTruncar
        /\ Escribe(y) => y.luego \in {"engancha", "libera", "relee_tamanio"}
        /\ Guarda(y) => y.luego \in {"asigna", "vuelve", "libera", "relee_tamanio"}
     \/ /\ y.op \in {"READ", "WRITE"} /\ y.pc \in DeLeer
        /\ y.pc \in {"accede", "rebobina"} => y.luego \in {"habla", "responde"}
  /\ y.pc # "libre" => y.quien \in Archivos
  /\ y.bloque \in BloquesFat \cup {Fin} /\ y.cursor \in BloquesFat
  /\ y.pc \in {"recorre", "lee_recorre"} => y.bloque # Fin

PuntoMemoria(y) ==
  /\ \/ y.op = "NINGUNA" /\ y.pc = "libre"
     \/ /\ y.op = "PROCESS_STARTED" /\ y.luego \in {"reserva", "responde"}
        /\ y.pc \in {"nace", "reserva", "accede", "rebobina", "responde"}
     \/ y.op = "PROCESS_FINISHED" /\ y.pc \in {"nace", "responde"}
     \/ y.op = "LEER_SWAP" /\ y.pc \in {"nace", "ubica", "accede", "responde"}
  /\ y.pc # "libre" => y.quien \in Procesos
  /\ y.bloque \in BloquesSwap

PuntoEscritor(y) ==
  /\ \/ y.op = "NINGUNA" /\ y.pc = "libre"
     \/ y.op = "ESCRIBIR_SWAP" /\ y.pc \in {"nace", "ubica", "accede"}
     \/ y.op = "LEER_SWAP" /\ y.pc \in {"ubica", "accede", "responde"}
  /\ y.pc # "libre" => y.quien \in Procesos
  /\ y.bloque \in BloquesSwap

Puntos ==
  /\ hilo \in [Hilos -> Fichas]
  /\ \A h \in Nucleos : PuntoNucleo(hilo[h])
  /\ PuntoMemoria(hilo[Memoria])
  /\ \A h \in Escritores : PuntoEscritor(hilo[h])

TipoInv == TipoArchivos /\ TipoSwap /\ TipoResto /\ Puntos

-----------------------------------------------------------------------------
(* Types *)

LEMMA Constantes ==
  /\ CantBloquesFat \in Nat \ {0} /\ CantBloquesSwap \in Nat
  /\ BloquesFat \subseteq Nat /\ 0 \in BloquesFat /\ Fin \notin Nat /\ Fin \in Int
  /\ BloquesSwap \subseteq Nat /\ 0 \in BloquesSwap
  /\ Nucleos \subseteq Hilos /\ Memoria \in Hilos /\ Memoria \notin Nucleos
  /\ Nucleos \cap Escritores = {} /\ Memoria \notin Escritores
  /\ Hilos = Nucleos \cup {Memoria} \cup Escritores
  /\ Nadie \notin Archivos /\ Nadie \notin Procesos
  /\ \A p \in Procesos : Paginas[p] \in Nat
BY SistemaOK DEF SistemaOK, BloquesFat, BloquesSwap, Fin, Hilos

LEMMA FcbTipos ==
  /\ SinFcb \in Fcbs /\ [SinFcb EXCEPT !.existe = TRUE] \in Fcbs /\ Vacio \in Fcbs
  /\ \A c \in Fcbs : c.nombre => c.tamanio \in Nat /\ c.inicial \in BloquesFat \cup {Fin}
  /\ \A c \in Fcbs : c.tamanio \in Nat \cup {Falta} /\ c.inicial \in BloquesFat \cup {Fin, Falta}
  /\ \A c \in Fcbs : \A n \in Nat : [c EXCEPT !.tamanio = n] \in Fcbs
  /\ \A c \in Fcbs : \A b \in BloquesFat \cup {Fin} : [c EXCEPT !.inicial = b] \in Fcbs
<1>1. SinFcb \in Fcbs /\ [SinFcb EXCEPT !.existe = TRUE] \in Fcbs /\ Vacio \in Fcbs
  BY DEF SinFcb, Vacio, Fcbs
<1>2. \A c \in Fcbs : c.nombre => c.tamanio \in Nat /\ c.inicial \in BloquesFat \cup {Fin}
  BY DEF Fcbs
<1>3. \A c \in Fcbs : c.tamanio \in Nat \cup {Falta} /\ c.inicial \in BloquesFat \cup {Fin, Falta}
  BY DEF Fcbs
<1>4. \A c \in Fcbs : \A n \in Nat : [c EXCEPT !.tamanio = n] \in Fcbs
  BY DEF Fcbs
<1>5. \A c \in Fcbs : \A b \in BloquesFat \cup {Fin} : [c EXCEPT !.inicial = b] \in Fcbs
  BY DEF Fcbs
<1> QED
  BY <1>1, <1>2, <1>3, <1>4, <1>5

LEMMA LibreTipo ==
  /\ Libre \in Fichas /\ PuntoNucleo(Libre) /\ PuntoMemoria(Libre) /\ PuntoEscritor(Libre)
  /\ Libre.pc = "libre" /\ Libre.op = "NINGUNA" /\ Libre.quien = Nadie
<1>1. Libre \in Fichas
  BY Constantes, FcbTipos DEF Libre, Fichas, Pcs, Ops, Luegos
<1> QED
  BY <1>1, Constantes DEF Libre, PuntoNucleo, PuntoMemoria, PuntoEscritor, Escribe, Guarda

\* A ticket with a field changed.
LEMMA Campos ==
  /\ \A y \in Fichas : \A v \in Pcs : [y EXCEPT !.pc = v] \in Fichas
  /\ \A y \in Fichas : \A v \in Ops : [y EXCEPT !.op = v] \in Fichas
  /\ \A y \in Fichas : \A v \in Luegos : [y EXCEPT !.luego = v] \in Fichas
  /\ \A y \in Fichas : \A v \in Archivos \cup Procesos : [y EXCEPT !.quien = v] \in Fichas
  /\ \A y \in Fichas : \A v \in Nat : [y EXCEPT !.n = v] \in Fichas
  /\ \A y \in Fichas : \A v \in BloquesFat \cup {Fin} : [y EXCEPT !.inicial = v] \in Fichas
  /\ \A y \in Fichas : \A v \in Nat : [y EXCEPT !.actuales = v] \in Fichas
  /\ \A y \in Fichas : \A v \in Nat \cup {Fin} : [y EXCEPT !.bloque = v] \in Fichas
  /\ \A y \in Fichas : \A v \in Nat \cup {Fin} : [y EXCEPT !.anterior = v] \in Fichas
  /\ \A y \in Fichas : \A v \in Nat : [y EXCEPT !.cursor = v] \in Fichas
  /\ \A y \in Fichas : \A v \in Int : [y EXCEPT !.quedan = v] \in Fichas
  /\ \A y \in Fichas : \A v \in Fcbs : [y EXCEPT !.copia = v] \in Fichas
  /\ \A y \in Fichas : \A v \in SUBSET BloquesSwap : [y EXCEPT !.tomados = v] \in Fichas
  /\ \A y \in Fichas : \A v \in BOOLEAN : [y EXCEPT !.vigente = v] \in Fichas
BY DEF Fichas

LEMMA FichaTipo ==
  ASSUME NEW y \in Fichas
  PROVE  /\ y.pc \in Pcs /\ y.op \in Ops /\ y.luego \in Luegos
         /\ y.quien \in Archivos \cup Procesos \cup {Nadie} /\ y.n \in Nat
         /\ y.inicial \in BloquesFat \cup {Fin} /\ y.actuales \in Nat
         /\ y.bloque \in Nat \cup {Fin} /\ y.anterior \in Nat \cup {Fin} /\ y.cursor \in Nat
         /\ y.quedan \in Int /\ y.copia \in Fcbs /\ y.tomados \subseteq BloquesSwap
         /\ y.vigente \in BOOLEAN
BY DEF Fichas

\* What of a ticket a thread keeps through its request.
Sigue(y, r) == r.op = y.op /\ r.quien = y.quien /\ r.n = y.n

\* A ticket of which only the point changes.
LEMMA ConPc ==
  ASSUME NEW y \in Fichas, NEW q
  PROVE  LET z == [y EXCEPT !.pc = q]
         IN  /\ z.pc = q /\ z.op = y.op /\ z.luego = y.luego /\ z.quien = y.quien /\ z.n = y.n
             /\ z.inicial = y.inicial /\ z.bloque = y.bloque /\ z.anterior = y.anterior
             /\ z.cursor = y.cursor /\ z.quedan = y.quedan /\ z.copia = y.copia
             /\ z.tomados = y.tomados /\ z.vigente = y.vigente
BY DEF Fichas

\* One thread changes.
Solo(h, r) == hilo'[h] = r /\ \A g \in Hilos : g # h => hilo'[g] = hilo[g]

LEMMA PonerHilo ==
  ASSUME Puntos, NEW h \in Hilos, NEW r \in Fichas, hilo' = [hilo EXCEPT ![h] = r],
         h \in Nucleos => PuntoNucleo(r), h = Memoria => PuntoMemoria(r),
         h \in Escritores => PuntoEscritor(r)
  PROVE  Puntos' /\ Solo(h, r)
<1>1. /\ hilo' \in [Hilos -> Fichas] /\ hilo'[h] = r
      /\ \A g \in Hilos : g # h => hilo'[g] = hilo[g]
  BY DEF Puntos
<1>2. \A g \in Nucleos : PuntoNucleo(hilo'[g])
  BY <1>1, Constantes DEF Puntos
<1>3. PuntoMemoria(hilo'[Memoria])
  BY <1>1, Constantes DEF Puntos
<1>4. \A g \in Escritores : PuntoEscritor(hilo'[g])
  BY <1>1, Constantes DEF Puntos
<1> QED
  BY <1>1, <1>2, <1>3, <1>4 DEF Puntos, Solo

LEMMA AnotaTipo ==
  ASSUME NEW t \in Tablas, NEW e, NEW v \in BloquesFat \cup {Fin}
  PROVE  /\ Anota(t, e, v) \in Tablas
         /\ \A x \in BloquesFat \cup {Fin} : Anota(t, e, v)[x] = IF x = e THEN v ELSE t[x]
BY DEF Anota, Tablas

LEMMA CaeTipo ==
  ASSUME TipoInv, Cae PROVE TipoInv'
BY DEF Cae, TipoInv, TipoArchivos, TipoSwap, TipoResto, TipoConexion, Puntos, archivos, conexion,
       memoria

LEMMA TipoInicial ==
  Init => TipoInv
<1> SUFFICES ASSUME Init PROVE TipoInv
  OBVIOUS
<1> USE Constantes
<1>1. TipoArchivos
  <2>1. fcb \in [Archivos -> Fcbs]
    BY FcbTipos DEF Init
  <2>2. fat \in Tablas
    BY DEF Init, Tablas
  <2>3. bloques_libres_fat \subseteq BloquesFat
    BY DEF Init, BloquesFat
  <2> QED
    BY <2>1, <2>2, <2>3 DEF TipoArchivos
<1>2. TipoSwap
  BY DEF Init, TipoSwap, BloquesSwap
<1>3. TipoResto
  <2>1. cupo \in Reparto
    BY SistemaOK DEF Init, SistemaOK
  <2> QED
    BY <2>1 DEF Init, TipoResto, TipoConexion
<1>4. Puntos
  <2>1. /\ hilo \in [Hilos -> Fichas] /\ \A h \in Hilos : hilo[h] = Libre
    BY LibreTipo DEF Init
  <2> QED
    BY <2>1, LibreTipo DEF Puntos
<1> QED
  BY <1>1, <1>2, <1>3, <1>4 DEF TipoInv

\* The accept loop.
LEMMA LlegaTipo ==
  ASSUME TipoInv, NEW h \in Hilos, Llega(h)
  PROVE  TipoConexion' /\ socket_cliente' = h
BY DEF Llega, TipoInv, TipoResto, TipoConexion

LEMMA AceptaTipo ==
  ASSUME TipoInv, NEW h \in Hilos, NEW r \in Fichas, Acepta(h, r),
         h \in Nucleos => PuntoNucleo(r), h = Memoria => PuntoMemoria(r),
         h \in Escritores => PuntoEscritor(r)
  PROVE  Puntos' /\ Solo(h, r) /\ hilo[h].pc = "libre" /\ TipoConexion'
<1>1. Puntos /\ hilo' = [hilo EXCEPT ![h] = r] /\ hilo[h].pc = "libre" /\ Llega(h)
  BY DEF Acepta, TipoInv, En
<1> QED
  BY <1>1, PonerHilo, LlegaTipo

LEMMA HiloTipo ==
  ASSUME TipoInv, NEW h \in Hilos
  PROVE  /\ hilo[h] \in Fichas
         /\ h \in Nucleos => PuntoNucleo(hilo[h])
         /\ h = Memoria => PuntoMemoria(hilo[h])
         /\ h \in Escritores => PuntoEscritor(hilo[h])
BY DEF TipoInv, Puntos

LEMMA AquiTipo ==
  ASSUME TipoInv
  PROVE  aqui \in Fichas /\ PuntoMemoria(aqui) /\ hilo[Memoria] = aqui
BY Constantes DEF TipoInv, Puntos, aqui

\* A request of the kernel spends one of its kind.
LEMMA GastaClase ==
  ASSUME cupo \in Reparto, NEW k \in {"crear", "truncar", "leer", "memoria"}, cupo[k] > 0,
         cupo' = [cupo EXCEPT ![k] = @ - 1]
  PROVE  cupo' \in Reparto
<1>1. cupo[k] \in Nat
  BY DEF Reparto
<1>2. PICK m \in Nat : m = cupo[k]
  BY <1>1
<1>3. m - 1 \in Nat /\ cupo' = [cupo EXCEPT ![k] = m - 1]
  BY <1>2
<1> QED
  BY <1>3 DEF Reparto

Operaciones == {"OPEN", "CREATE", "TRUNCATE", "READ", "WRITE"}

\* The ticket of a request of the kernel.
Ficha(op, f, n) == [Libre EXCEPT !.pc = "nace", !.op = op, !.quien = f, !.n = n]

LEMMA FichaEs ==
  ASSUME NEW op \in Operaciones, NEW f \in Archivos, NEW n \in Nat
  PROVE  /\ Ficha(op, f, n) \in Fichas /\ PuntoNucleo(Ficha(op, f, n))
         /\ Ficha(op, f, n).pc = "nace" /\ Ficha(op, f, n).op = op /\ Ficha(op, f, n).quien = f
         /\ Ficha(op, f, n).n = n /\ Ficha(op, f, n).cursor = 0 /\ Ficha(op, f, n).bloque = 0
         /\ Ficha(op, f, n).anterior = Fin /\ Ficha(op, f, n).luego = "responde"
<1> DEFINE r == Ficha(op, f, n)
<1>1. r \in Fichas
  BY LibreTipo, Campos, Constantes DEF Ficha, Operaciones, Pcs, Ops
<1>2. /\ r.pc = "nace" /\ r.op = op /\ r.luego = "responde" /\ r.quien = f /\ r.n = n
      /\ r.bloque = 0 /\ r.cursor = 0 /\ r.anterior = Fin
  BY DEF Ficha, Libre
<1> HIDE DEF r
<1>3. PuntoNucleo(r)
  BY <1>2, Constantes DEF PuntoNucleo, Operaciones, DeLeer, DeTruncar, Escribe, Guarda
<1> QED
  BY <1>1, <1>2, <1>3 DEF r

LEMMA PideTipo ==
  ASSUME TipoInv, NEW h \in Nucleos, NEW op \in Operaciones, NEW f \in Archivos, NEW n \in Nat,
         Pide(h, op, f, n)
  PROVE  TipoInv' /\ Solo(h, Ficha(op, f, n)) /\ hilo[h].pc = "libre" /\ UNCHANGED archivos
<1> DEFINE r == Ficha(op, f, n)
<1>1. r \in Fichas /\ PuntoNucleo(r)
  BY FichaEs
<1>2. Acepta(h, r)
  BY DEF Pide, Ficha
<1> HIDE DEF r
<1>3. Puntos' /\ Solo(h, r) /\ hilo[h].pc = "libre" /\ TipoConexion'
  BY <1>1, <1>2, AceptaTipo, Constantes
<1>4. cupo' \in Reparto
  <2>1. Clase(op) \in {"crear", "truncar", "leer", "memoria"}
    BY DEF Clase, Operaciones
  <2>2. cupo[Clase(op)] > 0 /\ cupo' = [cupo EXCEPT ![Clase(op)] = @ - 1] /\ cupo \in Reparto
    BY DEF Pide, TipoInv, TipoResto
  <2> QED
    BY <2>1, <2>2, GastaClase
<1>5. solos' \in BOOLEAN
  BY DEF Pide, TipoInv, TipoResto
<1>6. TipoArchivos' /\ TipoSwap' /\ TipoResto' /\ UNCHANGED archivos
  BY <1>3, <1>4, <1>5 DEF Pide, TipoInv, TipoArchivos, TipoSwap, TipoResto, archivos, memoria
<1> QED
  BY <1>3, <1>6 DEF TipoInv, r

\* A step of a thread of the kernel changes its ticket, the files and the positions.
LEMMA NucleoTipo ==
  ASSUME TipoInv, Ajeno, TipoArchivos', TipoConexion', posicion_fat' \in Nat \cup {Fin},
         posicion' \in Nat \cup {Fin}, NEW h \in Nucleos, NEW r \in Fichas, PuntoNucleo(r),
         hilo' = [hilo EXCEPT ![h] = r]
  PROVE  TipoInv' /\ Solo(h, r)
<1>1. Puntos' /\ Solo(h, r)
  BY PonerHilo, Constantes DEF TipoInv
<1>2. TipoSwap' /\ TipoResto'
  BY DEF Ajeno, TipoInv, TipoSwap, TipoResto, memoria
<1> QED
  BY <1>1, <1>2 DEF TipoInv

LEMMA EnFcbTipo ==
  ASSUME TipoInv, EnFcb, fcb' \in [Archivos -> Fcbs], NEW h \in Nucleos, NEW r \in Fichas,
         PuntoNucleo(r), hilo' = [hilo EXCEPT ![h] = r]
  PROVE  TipoInv' /\ Solo(h, r)
<1>1. /\ TipoArchivos' /\ TipoConexion' /\ posicion_fat' \in Nat \cup {Fin}
      /\ posicion' \in Nat \cup {Fin} /\ Ajeno
  BY DEF EnFcb, TipoInv, TipoArchivos, TipoResto, TipoConexion, conexion
<1> QED
  BY <1>1, NucleoTipo

LEMMA EnFatTipo ==
  ASSUME TipoInv, EnFat, fat' \in Tablas, posicion_fat' \in Nat \cup {Fin}, NEW h \in Nucleos,
         NEW r \in Fichas, PuntoNucleo(r), hilo' = [hilo EXCEPT ![h] = r]
  PROVE  TipoInv' /\ Solo(h, r)
<1>1. /\ TipoArchivos' /\ TipoConexion' /\ posicion' \in Nat \cup {Fin} /\ Ajeno
  BY DEF EnFat, TipoInv, TipoArchivos, TipoResto, TipoConexion, conexion
<1> QED
  BY <1>1, NucleoTipo

LEMMA NucleoEs ==
  ASSUME TipoInv, NEW h \in Nucleos
  PROVE  /\ hilo[h] \in Fichas /\ PuntoNucleo(hilo[h]) /\ h \in Hilos
         /\ hilo[h].pc # "libre" => hilo[h].quien \in Archivos
BY Constantes, HiloTipo DEF PuntoNucleo

LEMMA LeidosTipo ==
  ASSUME TipoInv, NEW h \in Nucleos, hilo[h].pc # "libre", NEW c \in Leidos(h)
  PROVE  c \in Fcbs
<1>1. hilo[h].quien \in Archivos
  BY NucleoEs
<1>2. fcb[hilo[h].quien] \in Fcbs
  BY <1>1 DEF TipoInv, TipoArchivos
<1> QED
  BY <1>2, FcbTipos DEF Leidos

LEMMA CrearTipo ==
  ASSUME TipoInv, NEW h \in Nucleos, Crear(h)
  PROVE  /\ TipoInv' /\ Solo(h, Libre) /\ hilo[h].op = "CREATE" /\ hilo[h].quien \in Archivos
         /\ UNCHANGED <<fat, bloques_libres_fat>>
         /\ fcb' = [fcb EXCEPT ![hilo[h].quien] = [SinFcb EXCEPT !.existe = TRUE]]
<1>1. hilo[h].op = "CREATE" /\ hilo[h].quien \in Archivos
  BY NucleoEs DEF Crear, Nace, En
<1>2. /\ fcb' = [fcb EXCEPT ![hilo[h].quien] = [SinFcb EXCEPT !.existe = TRUE]]
      /\ hilo' = [hilo EXCEPT ![h] = Libre] /\ EnFcb
  BY DEF Crear
<1>3. fcb' \in [Archivos -> Fcbs]
  BY <1>1, <1>2, FcbTipos DEF TipoInv, TipoArchivos
<1> QED
  BY <1>1, <1>2, <1>3, EnFcbTipo, LibreTipo DEF EnFcb

\* A thread that ends without changing the files.
LEMMA TerminaTipo ==
  ASSUME TipoInv, NEW h \in Nucleos, UNCHANGED fcb, EnFcb, hilo' = [hilo EXCEPT ![h] = Libre]
  PROVE  TipoInv' /\ Solo(h, Libre) /\ UNCHANGED archivos
<1>1. fcb' \in [Archivos -> Fcbs] /\ UNCHANGED archivos
  BY DEF TipoInv, TipoArchivos, archivos, EnFcb
<1> QED
  BY <1>1, EnFcbTipo, LibreTipo

LEMMA AbrirTipo ==
  ASSUME TipoInv, NEW h \in Nucleos, Abrir(h)
  PROVE  /\ TipoInv' /\ hilo[h].op = "OPEN"
         /\ Cae \/ (Solo(h, Libre) /\ UNCHANGED archivos)
<1>1. /\ hilo[h].op = "OPEN"
      /\ \/ Cae
         \/ UNCHANGED fcb /\ EnFcb /\ hilo' = [hilo EXCEPT ![h] = Libre]
  BY DEF Abrir, Nace
<1> QED
  BY <1>1, CaeTipo, TerminaTipo

LEMMA ResponderTipo ==
  ASSUME TipoInv, NEW h \in Nucleos, Responder(h)
  PROVE  /\ TipoInv' /\ Solo(h, Libre) /\ UNCHANGED archivos /\ hilo[h].pc = "responde"
BY TerminaTipo DEF Responder, En

LEMMA SaltosTipo ==
  ASSUME NEW n \in Int PROVE Saltos(n) \in Int
BY Constantes DEF Saltos, Vuelta

\* The two ways of actualizar_tamanio_archivo.
PcTruncado(c, n) ==
  IF c.tamanio < n THEN IF c.inicial > 0 THEN "recorre" ELSE "asigna"
  ELSE IF Saltos(n - 1) > 0 THEN "busca" ELSE "encuentra"

LEMMA TruncarTipo ==
  ASSUME TipoInv, NEW h \in Nucleos, Truncar(h)
  PROVE  /\ TipoInv' /\ hilo[h].pc = "nace" /\ hilo[h].op = "TRUNCATE"
         /\ hilo[h].quien \in Archivos
         /\ \/ Cae
            \/ \E c \in Leidos(h) :
                 /\ UNCHANGED <<archivos, posicion_fat>> /\ c.nombre /\ c \in Fcbs
                 /\ Solo(h, hilo'[h]) /\ Sigue(hilo[h], hilo'[h])
                 /\ hilo'[h].cursor = hilo[h].cursor /\ hilo'[h].anterior = hilo[h].anterior
                 /\ hilo'[h].inicial = c.inicial /\ hilo'[h].bloque = c.inicial
                 /\ hilo'[h].pc = PcTruncado(c, hilo[h].n)
<1> DEFINE y == hilo[h]
<1>1. /\ y.pc = "nace" /\ y.op = "TRUNCATE" /\ y.quien \in Archivos /\ y \in Fichas
      /\ PuntoNucleo(y) /\ h \in Hilos
  BY NucleoEs DEF Truncar, Nace, En
<1>2. CASE Cae
  BY <1>1, <1>2, CaeTipo
<1>3. CASE ~Cae
  <2> DEFINE S(c) == Saltos(y.n - 1)
             A(c) == IF c.tamanio < y.n THEN y.n - c.tamanio ELSE Saltos(y.n - 1)
             R(c) == [y EXCEPT !.inicial = c.inicial, !.actuales = c.tamanio, !.bloque = c.inicial,
                               !.pc = PcTruncado(c, y.n), !.quedan = A(c)]
  <2>1. PICK c \in Leidos(h) : /\ c.nombre /\ UNCHANGED fcb /\ EnFcb
                               /\ hilo' = [hilo EXCEPT ![h] = R(c)]
    <3>1. PICK c \in Leidos(h) :
            /\ c.nombre /\ UNCHANGED fcb /\ EnFcb
            /\ LET z == [hilo[h] EXCEPT !.inicial = c.inicial, !.actuales = c.tamanio,
                                        !.bloque = c.inicial]
                   s == Saltos(z.n - 1)
               IN  hilo' = [hilo EXCEPT ![h] =
                     IF c.tamanio < z.n
                     THEN [z EXCEPT !.pc = IF c.inicial > 0 THEN "recorre" ELSE "asigna",
                                    !.quedan = z.n - c.tamanio]
                     ELSE [z EXCEPT !.pc = IF s > 0 THEN "busca" ELSE "encuentra", !.quedan = s]]
      BY <1>3 DEF Truncar
    <3> DEFINE z == [y EXCEPT !.inicial = c.inicial, !.actuales = c.tamanio, !.bloque = c.inicial]
    <3>2. z.n = y.n
      BY <1>1 DEF Fichas
    <3>3. CASE c.tamanio < y.n
      <4>1. hilo' = [hilo EXCEPT ![h] =
                    [z EXCEPT !.pc = IF c.inicial > 0 THEN "recorre" ELSE "asigna",
                              !.quedan = y.n - c.tamanio]]
        BY <3>1, <3>2, <3>3
      <4>2. R(c) = [z EXCEPT !.pc = IF c.inicial > 0 THEN "recorre" ELSE "asigna",
                             !.quedan = y.n - c.tamanio]
        BY <3>3 DEF PcTruncado
      <4> QED
        BY <3>1, <4>1, <4>2
    <3>4. CASE ~(c.tamanio < y.n)
      <4>1. hilo' = [hilo EXCEPT ![h] =
                    [z EXCEPT !.pc = IF Saltos(y.n - 1) > 0 THEN "busca" ELSE "encuentra",
                              !.quedan = Saltos(y.n - 1)]]
        BY <3>1, <3>2, <3>4
      <4>2. R(c) = [z EXCEPT !.pc = IF Saltos(y.n - 1) > 0 THEN "busca" ELSE "encuentra",
                             !.quedan = Saltos(y.n - 1)]
        BY <3>4 DEF PcTruncado
      <4> QED
        BY <3>1, <4>1, <4>2
    <3> QED
      BY <3>3, <3>4
  <2>2. c \in Fcbs /\ c.tamanio \in Nat /\ c.inicial \in BloquesFat \cup {Fin}
    BY <1>1, <2>1, LeidosTipo, FcbTipos
  <2> DEFINE r == R(c)
             q == PcTruncado(c, y.n)
             k == A(c)
  <2>3. q \in {"recorre", "asigna", "busca", "encuentra"}
    BY DEF PcTruncado
  <2>4. k \in Int
    <3>1. PICK n \in Nat, t \in Nat : n = y.n /\ t = c.tamanio
      BY <1>1, <2>2, FichaTipo
    <3>2. Saltos(n - 1) \in Int
      BY SaltosTipo
    <3> QED
      BY <3>1, <3>2
  <2>5. q = "recorre" => c.inicial # Fin
    BY DEF PcTruncado, Fin
  <2>6. r = [y EXCEPT !.inicial = c.inicial, !.actuales = c.tamanio, !.bloque = c.inicial, !.pc = q,
                      !.quedan = k]
    OBVIOUS
  <2>7. hilo' = [hilo EXCEPT ![h] = r]
    BY <2>1
  <2> HIDE DEF q, k, r, R, A, y
  <2>8. r \in Fichas
    BY <1>1, <2>2, <2>3, <2>4, <2>6, Campos, Constantes DEF Pcs
  <2>9. /\ r.pc = q /\ r.op = y.op /\ r.quien = y.quien /\ r.n = y.n /\ r.luego = y.luego
        /\ r.cursor = y.cursor /\ r.anterior = y.anterior /\ r.inicial = c.inicial
        /\ r.bloque = c.inicial
    BY <1>1, <2>6 DEF Fichas
  <2>10. PuntoNucleo(r)
    BY <1>1, <2>2, <2>3, <2>5, <2>9 DEF PuntoNucleo, DeTruncar, Escribe, Guarda
  <2>11. fcb' \in [Archivos -> Fcbs] /\ UNCHANGED <<archivos, posicion_fat>>
    BY <2>1 DEF TipoInv, TipoArchivos, archivos, EnFcb
  <2>12. TipoInv' /\ Solo(h, r)
    BY <2>1, <2>7, <2>8, <2>10, <2>11, EnFcbTipo
  <2>13. hilo'[h] = r
    BY <2>12 DEF Solo
  <2> QED
    BY <1>1, <2>1, <2>2, <2>9, <2>11, <2>12, <2>13 DEF Sigue, y, q
<1> QED
  BY <1>2, <1>3

\* A step of which the ticket keeps all but its point.
PasaA(h, q) ==
  /\ Solo(h, hilo'[h]) /\ Sigue(hilo[h], hilo'[h]) /\ hilo'[h].pc = q
  /\ hilo'[h].luego = hilo[h].luego /\ hilo'[h].inicial = hilo[h].inicial
  /\ hilo'[h].bloque = hilo[h].bloque /\ hilo'[h].anterior = hilo[h].anterior
  /\ hilo'[h].cursor = hilo[h].cursor /\ hilo'[h].copia = hilo[h].copia

LEMMA PasaEs ==
  ASSUME TipoInv, NEW h \in Nucleos, NEW q \in Pcs, hilo[h].pc # "libre",
         q \in DeTruncar \/ hilo[h].op # "TRUNCATE",
         q \in DeLeer \/ hilo[h].op \notin {"READ", "WRITE"},
         hilo[h].op \notin {"OPEN", "CREATE"}, q \notin {"situa", "accede", "rebobina"},
         q \notin {"relee_inicial", "graba_inicial"},
         q = "lee_recorre" => hilo[h].pc = "recorre", q # "recorre"
  PROVE  LET r == [hilo[h] EXCEPT !.pc = q]
         IN  /\ r \in Fichas /\ PuntoNucleo(r)
             /\ Pasa(h, q) => hilo' = [hilo EXCEPT ![h] = r]
             /\ Solo(h, r) => PasaA(h, q)
<1> DEFINE y == hilo[h]
           r == [y EXCEPT !.pc = q]
<1>1. y \in Fichas /\ PuntoNucleo(y) /\ h \in Hilos /\ y.pc # "libre"
  BY NucleoEs
<1>2. Pasa(h, q) => hilo' = [hilo EXCEPT ![h] = r]
  BY <1>1 DEF Pasa, TipoInv, Puntos
<1> HIDE DEF y
<1>3. r \in Fichas
  BY <1>1, Campos
<1>4. /\ r.pc = q /\ r.op = y.op /\ r.luego = y.luego /\ r.quien = y.quien /\ r.n = y.n
      /\ r.inicial = y.inicial /\ r.bloque = y.bloque /\ r.anterior = y.anterior
      /\ r.cursor = y.cursor /\ r.copia = y.copia
  BY <1>1, ConPc
<1> HIDE DEF r
<1>5. PuntoNucleo(r)
  BY <1>1, <1>4 DEF PuntoNucleo, DeTruncar, Escribe, Guarda, y
<1>6. Solo(h, r) => PasaA(h, q)
  BY <1>4 DEF Solo, PasaA, Sigue, y
<1> QED
  BY <1>2, <1>3, <1>5, <1>6 DEF r, y

LEMMA FseekTipo ==
  ASSUME TipoInv, NEW h \in Nucleos, Fseek(h)
  PROVE  /\ TipoInv' /\ PasaA(h, TrasFseek(hilo[h].pc)) /\ posicion_fat' = Destino(hilo[h])
         /\ UNCHANGED archivos
         /\ hilo[h].pc \in {"recorre", "busca", "encuentra", "libera", "limpia", "ultimo", "vuelve"}
<1> DEFINE y == hilo[h]
           q == TrasFseek(y.pc)
<1>1. /\ y.pc \in {"recorre", "busca", "encuentra", "libera", "limpia", "ultimo", "vuelve"}
      /\ posicion_fat' = Destino(y) /\ Pasa(h, q) /\ UNCHANGED archivos /\ EnFat /\ fat' = fat
  BY DEF Fseek, EnFat, archivos
<1>2. y \in Fichas /\ PuntoNucleo(y)
  BY NucleoEs
<1>3. posicion_fat' \in Nat \cup {Fin}
  BY <1>1, <1>2, FichaTipo DEF Destino
<1>4. /\ q \in {"lee_recorre", "lee_busca", "corta", "lee_libera", "borra", "cierra", "relee_tamanio"}
      /\ q = "lee_recorre" => y.pc = "recorre"
      /\ y.pc = "busca" => q = "lee_busca"
  BY <1>1 DEF TrasFseek
<1> HIDE DEF q, y
<1>5. /\ y.op \in {"READ", "WRITE"} => y.pc = "busca"
      /\ y.op \in {"TRUNCATE", "READ", "WRITE"}
  BY <1>1, <1>2 DEF PuntoNucleo, DeLeer
<1>6. /\ q \in Pcs /\ q \in DeTruncar /\ (q \in DeLeer \/ y.op \notin {"READ", "WRITE"})
      /\ y.op \notin {"OPEN", "CREATE"} /\ q \notin {"situa", "accede", "rebobina"}
      /\ q \notin {"relee_inicial", "graba_inicial"} /\ q # "recorre" /\ y.pc # "libre"
  BY <1>1, <1>4, <1>5 DEF Pcs, DeTruncar, DeLeer
<1> DEFINE r == [hilo[h] EXCEPT !.pc = q]
<1>7. /\ r \in Fichas /\ PuntoNucleo(r) /\ (Pasa(h, q) => hilo' = [hilo EXCEPT ![h] = r])
      /\ Solo(h, r) => PasaA(h, q)
  BY <1>4, <1>6, PasaEs DEF y
<1> HIDE DEF r
<1>8. TipoInv' /\ Solo(h, r)
  BY <1>1, <1>3, <1>7, EnFatTipo DEF TipoInv, TipoArchivos
<1> QED
  BY <1>1, <1>7, <1>8 DEF q, y

LEMMA AvanzadaTipo ==
  ASSUME TipoInv PROVE Avanzada \in Nat \cup {Fin}
BY DEF Avanzada, TipoInv, TipoResto

\* fread of an entry.
LEMMA LeidaTipo ==
  ASSUME TipoInv, NEW h \in Nucleos, NEW q, NEW v, Leida(h, q, v)
  PROVE  /\ v \in BloquesFat \cup {Fin} /\ hilo[h].pc = q /\ posicion_fat' = Avanzada
         /\ posicion_fat' \in Nat \cup {Fin} /\ UNCHANGED archivos /\ EnFat /\ fat' \in Tablas
         /\ posicion_fat \in BloquesFat \cup {Fin} => v = fat[posicion_fat]
<1>1. fat \in Tablas /\ DOMAIN fat = BloquesFat \cup {Fin}
  BY DEF TipoInv, TipoArchivos, Tablas
<1> QED
  BY <1>1, AvanzadaTipo DEF Leida, En, EnFat, archivos, Tablas

LEMMA RecorrerTipo ==
  ASSUME TipoInv, NEW h \in Nucleos, NEW v, Leida(h, "lee_recorre", v),
         hilo' = [hilo EXCEPT ![h].bloque = v, ![h].pc = IF v = Fin THEN "asigna" ELSE "recorre"]
  PROVE  /\ TipoInv' /\ Solo(h, hilo'[h]) /\ Sigue(hilo[h], hilo'[h])
         /\ hilo'[h].pc = (IF v = Fin THEN "asigna" ELSE "recorre")
         /\ hilo'[h].bloque = v /\ hilo'[h].inicial = hilo[h].inicial
         /\ hilo'[h].anterior = hilo[h].anterior /\ hilo'[h].cursor = hilo[h].cursor
         /\ hilo[h].op = "TRUNCATE" /\ hilo[h].bloque \in BloquesFat
<1> DEFINE y == hilo[h]
           q == IF v = Fin THEN "asigna" ELSE "recorre"
           r == [y EXCEPT !.bloque = v, !.pc = q]
<1>1. /\ v \in BloquesFat \cup {Fin} /\ y.pc = "lee_recorre" /\ EnFat /\ fat' \in Tablas
      /\ posicion_fat' \in Nat \cup {Fin}
  BY LeidaTipo
<1>2. y \in Fichas /\ PuntoNucleo(y) /\ h \in Hilos
  BY NucleoEs
<1>3. q \in {"asigna", "recorre"} /\ (q = "recorre" => v # Fin)
  OBVIOUS
<1> HIDE DEF q
<1>4. hilo' = [hilo EXCEPT ![h] = r]
  BY <1>2 DEF TipoInv, Puntos, q
<1> HIDE DEF y
<1>5. y.op = "TRUNCATE" /\ y.bloque \in BloquesFat /\ y.quien \in Archivos
  BY <1>1, <1>2 DEF PuntoNucleo, DeLeer
<1>6. r \in Fichas
  BY <1>1, <1>2, <1>3, Campos, Constantes DEF Pcs
<1>7. /\ r.pc = q /\ r.op = y.op /\ r.quien = y.quien /\ r.n = y.n /\ r.bloque = v
      /\ r.inicial = y.inicial /\ r.anterior = y.anterior /\ r.cursor = y.cursor
  BY <1>2 DEF Fichas
<1> HIDE DEF r
<1>8. PuntoNucleo(r)
  BY <1>1, <1>2, <1>3, <1>5, <1>7 DEF PuntoNucleo, DeTruncar, Escribe, Guarda
<1>9. TipoInv' /\ Solo(h, r)
  BY <1>1, <1>4, <1>6, <1>8, EnFatTipo
<1>10. hilo'[h] = r
  BY <1>9 DEF Solo
<1> QED
  BY <1>5, <1>7, <1>9, <1>10 DEF Sigue, q, y

LEMMA BuscarTipo ==
  ASSUME TipoInv, NEW h \in Nucleos, Buscar(h)
  PROVE  /\ TipoInv' /\ Solo(h, hilo'[h]) /\ Sigue(hilo[h], hilo'[h]) /\ UNCHANGED archivos
         /\ hilo[h].pc = "lee_busca"
         /\ hilo'[h].inicial = hilo[h].inicial /\ hilo'[h].anterior = hilo[h].anterior
         /\ hilo'[h].cursor = hilo[h].cursor
         /\ hilo[h].op = "TRUNCATE" => hilo'[h].pc \in {"busca", "encuentra"}
<1> DEFINE y == hilo[h]
           z(v) == [y EXCEPT !.bloque = v, !.quedan = @ - 1]
           R(v, q, k) == [y EXCEPT !.bloque = v, !.quedan = k, !.pc = q]
<1>1. /\ y.pc = "lee_busca" /\ y \in Fichas /\ PuntoNucleo(y) /\ h \in Hilos
      /\ y.op \in {"TRUNCATE", "READ", "WRITE"}
  BY NucleoEs DEF Buscar, Leida, En, PuntoNucleo
<1>2. PICK v \in BloquesFat \cup {Fin}, q \in {"busca", "encuentra", "situa"}, k \in Int :
        /\ Leida(h, "lee_busca", v) /\ hilo' = [hilo EXCEPT ![h] = R(v, q, k)]
        /\ y.op = "TRUNCATE" => q # "situa"
        /\ y.op # "TRUNCATE" => q # "encuentra"
  <2>1. PICK v \in BloquesFat \cup {Fin} :
          /\ Leida(h, "lee_busca", v)
          /\ LET s == IF z(v).op = "TRUNCATE" THEN "encuentra" ELSE "situa"
             IN  \/ hilo' = [hilo EXCEPT ![h] = [z(v) EXCEPT !.pc = "busca"]]
                 \/ hilo' = [hilo EXCEPT ![h] = [z(v) EXCEPT !.pc = s, !.quedan = 0]]
    BY DEF Buscar
  <2>2. z(v).op = y.op /\ y.quedan - 1 \in Int
    BY <1>1 DEF Fichas
  <2>3. /\ [z(v) EXCEPT !.pc = "busca"] = R(v, "busca", y.quedan - 1)
        /\ [z(v) EXCEPT !.pc = "situa", !.quedan = 0] = R(v, "situa", 0)
        /\ [z(v) EXCEPT !.pc = "encuentra", !.quedan = 0] = R(v, "encuentra", 0)
    OBVIOUS
  <2> HIDE DEF z, R, y
  <2>4. CASE hilo' = [hilo EXCEPT ![h] = [z(v) EXCEPT !.pc = "busca"]]
    <3>1. PICK k \in Int : k = y.quedan - 1
      BY <2>2
    <3>2. hilo' = [hilo EXCEPT ![h] = R(v, "busca", k)]
      BY <2>3, <2>4, <3>1
    <3>3. Leida(h, "lee_busca", v) /\ "busca" # "situa" /\ "busca" # "encuentra"
      BY <2>1
    <3> QED
      BY <3>2, <3>3
  <2>5. CASE hilo' # [hilo EXCEPT ![h] = [z(v) EXCEPT !.pc = "busca"]] /\ y.op = "TRUNCATE"
    <3>1. hilo' = [hilo EXCEPT ![h] = R(v, "encuentra", 0)]
      BY <2>1, <2>2, <2>3, <2>5
    <3>2. 0 \in Int /\ Leida(h, "lee_busca", v) /\ "encuentra" # "situa"
      BY <2>1
    <3> QED
      BY <2>5, <3>1, <3>2
  <2>6. CASE hilo' # [hilo EXCEPT ![h] = [z(v) EXCEPT !.pc = "busca"]] /\ y.op # "TRUNCATE"
    <3>1. hilo' = [hilo EXCEPT ![h] = R(v, "situa", 0)]
      BY <2>1, <2>2, <2>3, <2>6
    <3>2. 0 \in Int /\ Leida(h, "lee_busca", v) /\ "situa" # "encuentra"
      BY <2>1
    <3> QED
      BY <2>6, <3>1, <3>2
  <2> QED
    BY <2>4, <2>5, <2>6
<1> DEFINE r == R(v, q, k)
<1>3. r \in Fichas
  BY <1>1, Campos, Constantes DEF Pcs
<1>4. /\ r.pc = q /\ r.op = y.op /\ r.quien = y.quien /\ r.n = y.n /\ r.bloque = v
      /\ r.inicial = y.inicial /\ r.anterior = y.anterior /\ r.cursor = y.cursor
  BY <1>1 DEF Fichas
<1> HIDE DEF R, r, z
<1>5. PuntoNucleo(r)
  BY <1>1, <1>2, <1>4 DEF PuntoNucleo, DeTruncar, DeLeer, Escribe, Guarda
<1>6. EnFat /\ fat' \in Tablas /\ posicion_fat' \in Nat \cup {Fin} /\ UNCHANGED archivos
  BY <1>2, LeidaTipo
<1>7. TipoInv' /\ Solo(h, r)
  BY <1>2, <1>3, <1>5, <1>6, EnFatTipo DEF r
<1>8. hilo'[h] = r
  BY <1>7 DEF Solo
<1>9. y.op = "TRUNCATE" => q \in {"busca", "encuentra"}
  BY <1>2
<1> QED
  BY <1>1, <1>4, <1>6, <1>7, <1>8, <1>9 DEF Sigue

LEMMA LiberarTipo ==
  ASSUME TipoInv, NEW h \in Nucleos, NEW v, Leida(h, "lee_libera", v),
         hilo' = [hilo EXCEPT ![h].bloque = v, ![h].pc = "limpia"]
  PROVE  /\ TipoInv' /\ Solo(h, hilo'[h]) /\ Sigue(hilo[h], hilo'[h])
         /\ hilo'[h].pc = "limpia" /\ hilo'[h].bloque = v
         /\ hilo'[h].inicial = hilo[h].inicial /\ hilo'[h].anterior = hilo[h].anterior
         /\ hilo'[h].cursor = hilo[h].cursor
         /\ hilo[h].op = "TRUNCATE" /\ hilo[h].bloque \in BloquesFat \cup {Fin}
<1> DEFINE y == hilo[h]
           r == [y EXCEPT !.bloque = v, !.pc = "limpia"]
<1>1. /\ v \in BloquesFat \cup {Fin} /\ y.pc = "lee_libera" /\ EnFat /\ fat' \in Tablas
      /\ posicion_fat' \in Nat \cup {Fin}
  BY LeidaTipo
<1>2. y \in Fichas /\ PuntoNucleo(y) /\ h \in Hilos
  BY NucleoEs
<1>3. hilo' = [hilo EXCEPT ![h] = r]
  BY <1>2 DEF TipoInv, Puntos
<1> HIDE DEF y
<1>4. y.op = "TRUNCATE" /\ y.bloque \in BloquesFat \cup {Fin} /\ y.quien \in Archivos
  BY <1>1, <1>2 DEF PuntoNucleo, DeLeer
<1>5. r \in Fichas
  BY <1>1, <1>2, Campos, Constantes DEF Pcs
<1>6. /\ r.pc = "limpia" /\ r.op = y.op /\ r.quien = y.quien /\ r.n = y.n /\ r.bloque = v
      /\ r.inicial = y.inicial /\ r.anterior = y.anterior /\ r.cursor = y.cursor
  BY <1>2 DEF Fichas
<1> HIDE DEF r
<1>7. PuntoNucleo(r)
  BY <1>1, <1>2, <1>4, <1>6 DEF PuntoNucleo, DeTruncar, Escribe, Guarda
<1>8. TipoInv' /\ Solo(h, r)
  BY <1>1, <1>3, <1>5, <1>7, EnFatTipo
<1>9. hilo'[h] = r
  BY <1>8 DEF Solo
<1> QED
  BY <1>4, <1>6, <1>8, <1>9 DEF Sigue, y

LEMMA AsignarTipo ==
  ASSUME TipoInv, NEW h \in Nucleos, Asignar(h)
  PROVE  /\ TipoInv' /\ hilo[h].op = "TRUNCATE" /\ hilo[h].pc = "asigna"
         /\ \/ Cae
            \/ /\ UNCHANGED <<archivos, posicion_fat>>
               /\ Solo(h, hilo'[h]) /\ Sigue(hilo[h], hilo'[h])
               /\ hilo'[h].inicial = hilo[h].inicial /\ hilo'[h].anterior = hilo[h].anterior
               /\ hilo'[h].cursor = hilo[h].cursor + 1 /\ hilo'[h].cursor \in BloquesFat
               /\ hilo'[h].pc = (IF hilo[h].cursor + 1 \in bloques_libres_fat THEN "asigna"
                                 ELSE "marca")
<1> DEFINE y == hilo[h]
           b == y.cursor + 1
           q == IF b \in bloques_libres_fat THEN "asigna" ELSE "marca"
           r == [y EXCEPT !.cursor = b, !.pc = q]
<1>1. /\ y.pc = "asigna" /\ y \in Fichas /\ PuntoNucleo(y) /\ h \in Hilos
      /\ y.op = "TRUNCATE" /\ y.quien \in Archivos
  BY NucleoEs DEF Asignar, En, PuntoNucleo, DeLeer
<1>2. CASE Cae
  BY <1>1, <1>2, CaeTipo
<1>3. CASE ~Cae
  <2>1. /\ ~SinBloques(y) /\ UNCHANGED <<fat, posicion_fat>> /\ EnFat
        /\ hilo' = [hilo EXCEPT ![h] = r]
    BY <1>1, <1>3 DEF Asignar, TipoInv, Puntos
  <2>2. b \in BloquesFat
    <3>1. PICK c \in BloquesFat : c = y.cursor
      BY <1>1 DEF PuntoNucleo
    <3>2. c < CantBloquesFat
      BY <2>1, <3>1, Constantes DEF SinBloques, BloquesFat
    <3> QED
      BY <3>1, <3>2, Constantes DEF BloquesFat
  <2>3. q \in {"asigna", "marca"}
    OBVIOUS
  <2> HIDE DEF q, y, b
  <2>4. r \in Fichas
    BY <1>1, <2>2, <2>3, Campos, Constantes DEF Pcs
  <2>5. /\ r.pc = q /\ r.op = y.op /\ r.quien = y.quien /\ r.n = y.n /\ r.bloque = y.bloque
        /\ r.inicial = y.inicial /\ r.anterior = y.anterior /\ r.cursor = b
    BY <1>1 DEF Fichas
  <2> HIDE DEF r
  <2>6. PuntoNucleo(r)
    BY <1>1, <2>2, <2>3, <2>5 DEF PuntoNucleo, DeTruncar, Escribe, Guarda
  <2>7. TipoInv' /\ Solo(h, r)
    BY <2>1, <2>4, <2>6, EnFatTipo DEF TipoInv, TipoArchivos, TipoResto
  <2>8. hilo'[h] = r /\ UNCHANGED archivos
    BY <2>1, <2>7 DEF Solo, EnFat, archivos
  <2> QED
    BY <1>1, <2>1, <2>2, <2>5, <2>7, <2>8 DEF Sigue, q, y, b
<1> QED
  BY <1>2, <1>3

\* The ticket after the bit.
LEMMA TrasBitEs ==
  ASSUME TipoInv, NEW h \in Nucleos, CambiaBit(h)
  PROVE  /\ TrasBit(hilo[h]) \in Fichas /\ PuntoNucleo(TrasBit(hilo[h]))
         /\ Sigue(hilo[h], TrasBit(hilo[h])) /\ TrasBit(hilo[h]).pc = "situa"
         /\ TrasBit(hilo[h]).inicial = hilo[h].inicial
         /\ TrasBit(hilo[h]).anterior = hilo[h].anterior
         /\ TrasBit(hilo[h]).cursor = hilo[h].cursor
         /\ hilo[h].op = "TRUNCATE" /\ hilo[h].bloque \in BloquesFat \cup {Fin}
         /\ hilo[h].cursor \in BloquesFat
         /\ hilo[h].pc = "marca" => TrasBit(hilo[h]).luego = "engancha"
         /\ hilo[h].pc = "desmarca" => /\ TrasBit(hilo[h]).luego \in {"relee_tamanio", "libera"}
                                       /\ TrasBit(hilo[h]).bloque = hilo[h].bloque
         /\ Bits(h) \subseteq BloquesFat
<1> DEFINE y == hilo[h]
           r == TrasBit(y)
<1>1. /\ y \in Fichas /\ PuntoNucleo(y) /\ h \in Hilos /\ y.pc \in {"marca", "desmarca"}
      /\ y.op = "TRUNCATE" /\ y.quien \in Archivos
      /\ y.bloque \in BloquesFat \cup {Fin} /\ y.cursor \in BloquesFat
  BY NucleoEs DEF CambiaBit, PuntoNucleo, DeLeer
<1>2. bloques_libres_fat \subseteq BloquesFat
  BY DEF TipoInv, TipoArchivos
<1>3. Bits(h) \subseteq BloquesFat
  BY <1>1, <1>2 DEF Bits
<1>4. CASE y.pc = "marca"
  <2>1. r = [y EXCEPT !.pc = "situa", !.luego = "engancha", !.bloque = y.cursor]
    BY <1>4 DEF TrasBit
  <2> HIDE DEF r, y
  <2>2. r \in Fichas
    BY <1>1, <2>1, Campos, Constantes DEF Pcs, Luegos
  <2>3. /\ r.pc = "situa" /\ r.op = y.op /\ r.quien = y.quien /\ r.n = y.n /\ r.bloque = y.cursor
        /\ r.inicial = y.inicial /\ r.anterior = y.anterior /\ r.cursor = y.cursor
        /\ r.luego = "engancha"
    BY <1>1, <2>1 DEF Fichas
  <2>4. PuntoNucleo(r)
    BY <1>1, <2>3 DEF PuntoNucleo, DeTruncar, Escribe, Guarda
  <2> QED
    BY <1>1, <1>3, <1>4, <2>2, <2>3, <2>4 DEF Sigue, r, y
<1>5. CASE y.pc = "desmarca"
  <2> DEFINE k == y.quedan - 1
             l == IF y.quedan = 1 THEN "relee_tamanio" ELSE "libera"
  <2>1. r = [y EXCEPT !.pc = "situa", !.quedan = k, !.luego = l]
    BY <1>5 DEF TrasBit
  <2>2. k \in Int /\ l \in {"relee_tamanio", "libera"}
    BY <1>1, FichaTipo
  <2> HIDE DEF r, y, k, l
  <2>3. r \in Fichas
    BY <1>1, <2>1, <2>2, Campos, Constantes DEF Pcs, Luegos
  <2>4. /\ r.pc = "situa" /\ r.op = y.op /\ r.quien = y.quien /\ r.n = y.n /\ r.bloque = y.bloque
        /\ r.inicial = y.inicial /\ r.anterior = y.anterior /\ r.cursor = y.cursor
        /\ r.luego = l
    BY <1>1, <2>1 DEF Fichas
  <2>5. PuntoNucleo(r)
    BY <1>1, <2>2, <2>4 DEF PuntoNucleo, DeTruncar, Escribe, Guarda
  <2> QED
    BY <1>1, <1>3, <1>5, <2>2, <2>3, <2>4, <2>5 DEF Sigue, r, y
<1> QED
  BY <1>1, <1>4, <1>5

LEMMA MarcarTipo ==
  ASSUME TipoInv, NEW h \in Nucleos, Marcar(h)
  PROVE  /\ TipoInv' /\ CambiaBit(h) /\ hilo[h].op = "TRUNCATE"
         /\ \/ Cae
            \/ /\ Solo(h, TrasBit(hilo[h])) /\ bloques_libres_fat' = Bits(h)
               /\ UNCHANGED <<fcb, fat, posicion_fat>>
<1>1. CambiaBit(h)
  BY DEF Marcar
<1>2. CASE Cae
  BY <1>1, <1>2, CaeTipo, TrasBitEs
<1>3. CASE ~Cae
  <2>1. /\ bloques_libres_fat' = Bits(h) /\ hilo' = [hilo EXCEPT ![h] = TrasBit(hilo[h])]
        /\ UNCHANGED <<fcb, fat, posicion_fat, posicion, conexion>> /\ Ajeno
    BY <1>3, Constantes DEF Marcar, TipoInv, Puntos
  <2>2. /\ TipoArchivos' /\ TipoConexion' /\ posicion_fat' \in Nat \cup {Fin}
        /\ posicion' \in Nat \cup {Fin}
    BY <1>1, <2>1, TrasBitEs DEF TipoInv, TipoArchivos, TipoResto, TipoConexion, conexion
  <2> QED
    BY <1>1, <2>1, <2>2, TrasBitEs, NucleoTipo
<1> QED
  BY <1>2, <1>3

LEMMA MarcarJuntosTipo ==
  ASSUME TipoInv, NEW h \in Nucleos, NEW g \in Nucleos, MarcarJuntos(h, g)
  PROVE  /\ TipoInv' /\ h # g /\ hilo[h].op = "TRUNCATE" /\ hilo[g].op = "TRUNCATE"
         /\ Sigue(hilo[h], hilo'[h]) /\ Sigue(hilo[g], hilo'[g])
         /\ hilo'[h].pc = "situa" /\ hilo'[g].pc = "situa"
         /\ \A x \in Hilos : x \notin {g, h} => hilo'[x] = hilo[x]
<1>1. /\ h # g /\ CambiaBit(h) /\ CambiaBit(g) /\ bloques_libres_fat' = Bits(h)
      /\ hilo' = [hilo EXCEPT ![h] = TrasBit(@), ![g] = TrasBit(@)]
      /\ UNCHANGED <<fcb, fat, posicion_fat, posicion, conexion>> /\ Ajeno
  BY DEF MarcarJuntos
<1>2. h \in Hilos /\ g \in Hilos /\ hilo \in [Hilos -> Fichas] /\ Puntos
  BY Constantes DEF TipoInv, Puntos
<1>3. /\ hilo' \in [Hilos -> Fichas] /\ hilo'[h] = TrasBit(hilo[h]) /\ hilo'[g] = TrasBit(hilo[g])
      /\ \A x \in Hilos : x \notin {g, h} => hilo'[x] = hilo[x]
  <2>1. hilo' = [x \in Hilos |-> IF x \in {g, h} THEN TrasBit(hilo[x]) ELSE hilo[x]]
    BY <1>1, <1>2
  <2>2. TrasBit(hilo[h]) \in Fichas /\ TrasBit(hilo[g]) \in Fichas
    BY <1>1, TrasBitEs
  <2> QED
    BY <1>2, <2>1, <2>2
<1>4. Puntos'
  <2>1. \A x \in Nucleos : PuntoNucleo(hilo'[x])
    BY <1>1, <1>2, <1>3, TrasBitEs, Constantes DEF Puntos
  <2>2. PuntoMemoria(hilo'[Memoria]) /\ \A x \in Escritores : PuntoEscritor(hilo'[x])
    BY <1>2, <1>3, Constantes DEF Puntos
  <2> QED
    BY <1>3, <2>1, <2>2 DEF Puntos
<1>5. TipoArchivos' /\ TipoSwap' /\ TipoResto'
  BY <1>1, TrasBitEs DEF TipoInv, TipoArchivos, TipoResto, TipoConexion, conexion, Ajeno, TipoSwap,
     memoria
<1> QED
  BY <1>1, <1>3, <1>4, <1>5, TrasBitEs DEF TipoInv

\* An fwrite of an entry.
LEMMA EscritaTipo ==
  ASSUME TipoInv, NEW v \in BloquesFat \cup {Fin}, Escrita(v)
  PROVE  /\ fat' = Anota(fat, posicion_fat, v) /\ fat' \in Tablas /\ posicion_fat' = Avanzada
         /\ posicion_fat' \in Nat \cup {Fin} /\ EnFat /\ UNCHANGED <<fcb, bloques_libres_fat>>
BY AnotaTipo, AvanzadaTipo DEF Escrita, TipoInv, TipoArchivos, EnFat

LEMMA EnganchadaEs ==
  ASSUME NEW y \in Fichas
  PROVE  LET z == Enganchada(y)
         IN  /\ z \in Fichas /\ z.op = y.op /\ z.quien = y.quien /\ z.n = y.n /\ z.luego = y.luego
             /\ z.inicial = y.inicial /\ z.bloque = y.bloque /\ z.cursor = y.cursor
             /\ z.anterior = y.cursor /\ z.pc \in {"vuelve", "asigna"} /\ z.copia = y.copia
             /\ z.pc = (IF y.quedan = 1 THEN "vuelve" ELSE "asigna")
<1> DEFINE q == IF y.quedan = 1 THEN "vuelve" ELSE "asigna"
           k == y.quedan - 1
           z == [y EXCEPT !.pc = q, !.anterior = y.cursor, !.quedan = k]
<1>1. q \in Pcs /\ k \in Int /\ y.cursor \in Nat /\ q \in {"vuelve", "asigna"}
  BY FichaTipo DEF Pcs
<1>2. Enganchada(y) = z
  BY DEF Enganchada
<1> HIDE DEF q, k
<1>3. z \in Fichas
  BY <1>1, Campos
<1>4. /\ z.pc = q /\ z.op = y.op /\ z.luego = y.luego /\ z.quien = y.quien /\ z.n = y.n
      /\ z.inicial = y.inicial /\ z.bloque = y.bloque /\ z.anterior = y.cursor
      /\ z.cursor = y.cursor /\ z.copia = y.copia
  BY DEF Fichas
<1> QED
  BY <1>1, <1>2, <1>3, <1>4 DEF q

LEMMA EngancharTipo ==
  ASSUME TipoInv, NEW h \in Nucleos, Enganchar(h)
  PROVE  /\ TipoInv' /\ Solo(h, hilo'[h]) /\ Sigue(hilo[h], hilo'[h]) /\ UNCHANGED archivos
         /\ hilo[h].op = "TRUNCATE" /\ hilo[h].pc = "engancha"
         /\ hilo'[h].bloque = hilo[h].bloque /\ hilo'[h].cursor = hilo[h].cursor
         /\ hilo[h].inicial = Fin =>
              /\ hilo'[h].pc = "relee_inicial" /\ hilo'[h].luego \in {"vuelve", "asigna"}
              /\ hilo'[h].inicial = hilo[h].cursor /\ hilo'[h].anterior = hilo[h].cursor
              /\ posicion_fat' = posicion_fat
         /\ hilo[h].inicial # Fin =>
              /\ PasaA(h, "enlaza")
              /\ posicion_fat' = (IF hilo[h].anterior = Fin THEN posicion_fat
                                  ELSE hilo[h].anterior)
<1> DEFINE y == hilo[h]
           z == Enganchada(y)
<1>1. /\ y.pc = "engancha" /\ y \in Fichas /\ PuntoNucleo(y) /\ h \in Hilos
      /\ y.op = "TRUNCATE" /\ y.quien \in Archivos
  BY NucleoEs DEF Enganchar, En, PuntoNucleo, DeLeer
<1>2. EnFat /\ fat' = fat /\ UNCHANGED archivos /\ fat' \in Tablas
  BY DEF Enganchar, EnFat, archivos, TipoInv, TipoArchivos
<1>3. CASE y.inicial = Fin
  <2> DEFINE r == [z EXCEPT !.pc = "relee_inicial", !.luego = z.pc, !.inicial = y.cursor]
  <2>1. hilo' = [hilo EXCEPT ![h] = r] /\ posicion_fat' = posicion_fat
    BY <1>3 DEF Enganchar
  <2>2. /\ z \in Fichas /\ z.op = y.op /\ z.quien = y.quien /\ z.n = y.n
        /\ z.bloque = y.bloque /\ z.cursor = y.cursor
        /\ z.anterior = y.cursor /\ z.pc \in {"vuelve", "asigna"}
    BY <1>1, EnganchadaEs
  <2>3. y.cursor \in BloquesFat
    BY <1>1 DEF PuntoNucleo
  <2> HIDE DEF z, y
  <2>4. r \in Fichas
    BY <2>2, <2>3, Campos DEF Pcs, Luegos
  <2>5. /\ r.pc = "relee_inicial" /\ r.op = y.op /\ r.quien = y.quien /\ r.n = y.n
        /\ r.bloque = y.bloque /\ r.cursor = y.cursor /\ r.anterior = y.cursor
        /\ r.luego = z.pc /\ r.inicial = y.cursor
    BY <2>2 DEF Fichas
  <2> HIDE DEF r
  <2>6. PuntoNucleo(r)
    BY <1>1, <2>2, <2>3, <2>5 DEF PuntoNucleo, DeTruncar, Escribe, Guarda
  <2>7. posicion_fat' \in Nat \cup {Fin}
    BY <2>1 DEF TipoInv, TipoResto
  <2>8. TipoInv' /\ Solo(h, r)
    BY <1>2, <2>1, <2>4, <2>6, <2>7, EnFatTipo
  <2>9. hilo'[h] = r
    BY <2>8 DEF Solo
  <2> QED
    BY <1>1, <1>2, <1>3, <2>1, <2>2, <2>5, <2>8, <2>9 DEF Sigue, y
<1>4. CASE y.inicial # Fin
  <2> DEFINE r == [hilo[h] EXCEPT !.pc = "enlaza"]
  <2>1. Pasa(h, "enlaza") /\ posicion_fat' = IF y.anterior = Fin THEN posicion_fat ELSE y.anterior
    BY <1>4 DEF Enganchar
  <2>2. /\ r \in Fichas /\ PuntoNucleo(r) /\ (Pasa(h, "enlaza") => hilo' = [hilo EXCEPT ![h] = r])
        /\ Solo(h, r) => PasaA(h, "enlaza")
    BY <1>1, PasaEs DEF Pcs, DeTruncar
  <2>3. posicion_fat' \in Nat \cup {Fin}
    BY <1>1, <2>1, FichaTipo DEF TipoInv, TipoResto
  <2> HIDE DEF r
  <2>4. TipoInv' /\ Solo(h, r)
    BY <1>2, <2>1, <2>2, <2>3, EnFatTipo
  <2> QED
    BY <1>1, <1>2, <1>4, <2>1, <2>2, <2>4 DEF PasaA
<1> QED
  BY <1>3, <1>4

LEMMA EnlazarTipo ==
  ASSUME TipoInv, NEW h \in Nucleos, Enlazar(h)
  PROVE  /\ TipoInv' /\ Solo(h, hilo'[h]) /\ Sigue(hilo[h], hilo'[h])
         /\ UNCHANGED <<fcb, bloques_libres_fat>> /\ posicion_fat' = Avanzada
         /\ hilo[h].op = "TRUNCATE" /\ hilo[h].pc = "enlaza"
         /\ fat' = Anota(fat, posicion_fat, hilo[h].cursor)
         /\ hilo'[h].bloque = hilo[h].bloque /\ hilo'[h].cursor = hilo[h].cursor
         /\ hilo'[h].inicial = hilo[h].inicial
         /\ hilo'[h].pc \in {"ultimo", "asigna"}
         /\ hilo'[h].pc = "asigna" => hilo'[h].anterior = hilo[h].cursor
<1> DEFINE y == hilo[h]
           r == IF y.quedan = 1 THEN [y EXCEPT !.pc = "ultimo"] ELSE Enganchada(y)
<1>1. /\ y.pc = "enlaza" /\ y \in Fichas /\ PuntoNucleo(y) /\ h \in Hilos
      /\ y.op = "TRUNCATE" /\ y.quien \in Archivos /\ y.cursor \in BloquesFat
  BY NucleoEs DEF Enlazar, En, PuntoNucleo, DeLeer
<1>2. hilo' = [hilo EXCEPT ![h] = r]
  BY <1>1 DEF Enlazar, TipoInv, Puntos
<1>3. /\ fat' = Anota(fat, posicion_fat, y.cursor) /\ fat' \in Tablas /\ posicion_fat' = Avanzada
      /\ posicion_fat' \in Nat \cup {Fin} /\ EnFat /\ UNCHANGED <<fcb, bloques_libres_fat>>
  BY <1>1, EscritaTipo DEF Enlazar, NumeroEnlazado
<1>4. /\ r \in Fichas /\ r.op = y.op /\ r.quien = y.quien /\ r.n = y.n
      /\ r.bloque = y.bloque /\ r.cursor = y.cursor /\ r.inicial = y.inicial
      /\ r.pc \in {"ultimo", "asigna"} /\ (r.pc = "asigna" => r.anterior = y.cursor)
  <2>1. CASE y.quedan = 1
    <3>1. r = [y EXCEPT !.pc = "ultimo"]
      BY <2>1
    <3> HIDE DEF r, y
    <3>2. r \in Fichas
      BY <1>1, <3>1, Campos DEF Pcs
    <3> QED
      BY <1>1, <3>1, <3>2, ConPc
  <2>2. CASE y.quedan # 1
    BY <1>1, <2>2, EnganchadaEs
  <2> QED
    BY <2>1, <2>2
<1> HIDE DEF r, y
<1>5. PuntoNucleo(r)
  BY <1>1, <1>4 DEF PuntoNucleo, DeTruncar, Escribe, Guarda
<1>6. TipoInv' /\ Solo(h, r)
  BY <1>2, <1>3, <1>4, <1>5, EnFatTipo
<1>7. hilo'[h] = r
  BY <1>6 DEF Solo
<1> QED
  BY <1>1, <1>3, <1>4, <1>6, <1>7 DEF Sigue, y

\* An fwrite after which only the point changes.
LEMMA EscribePasa ==
  ASSUME TipoInv, NEW h \in Nucleos, NEW v \in BloquesFat \cup {Fin}, NEW q \in Pcs, Escrita(v),
         Pasa(h, q), hilo[h].op = "TRUNCATE", hilo[h].pc # "libre", q \in {"vuelve", "desmarca"}
  PROVE  /\ TipoInv' /\ PasaA(h, q) /\ fat' = Anota(fat, posicion_fat, v)
         /\ posicion_fat' = Avanzada /\ UNCHANGED <<fcb, bloques_libres_fat>>
<1> DEFINE r == [hilo[h] EXCEPT !.pc = q]
<1>1. /\ r \in Fichas /\ PuntoNucleo(r) /\ hilo' = [hilo EXCEPT ![h] = r]
      /\ Solo(h, r) => PasaA(h, q)
  BY PasaEs DEF DeTruncar
<1>2. /\ fat' = Anota(fat, posicion_fat, v) /\ fat' \in Tablas /\ posicion_fat' = Avanzada
      /\ posicion_fat' \in Nat \cup {Fin} /\ EnFat /\ UNCHANGED <<fcb, bloques_libres_fat>>
  BY EscritaTipo
<1> HIDE DEF r
<1>3. TipoInv' /\ Solo(h, r)
  BY <1>1, <1>2, EnFatTipo
<1> QED
  BY <1>1, <1>2, <1>3

LEMMA CerrarTipo ==
  ASSUME TipoInv, NEW h \in Nucleos, Cerrar(h)
  PROVE  /\ TipoInv' /\ PasaA(h, "vuelve") /\ fat' = Anota(fat, posicion_fat, Fin)
         /\ posicion_fat' = Avanzada /\ UNCHANGED <<fcb, bloques_libres_fat>>
         /\ hilo[h].op = "TRUNCATE" /\ hilo[h].pc = "cierra"
<1>1. /\ hilo[h].pc = "cierra" /\ hilo[h].op = "TRUNCATE"
      /\ Escrita(Fin) /\ Pasa(h, "vuelve")
  BY NucleoEs DEF Cerrar, En, PuntoNucleo, DeLeer
<1> QED
  BY <1>1, EscribePasa DEF Pcs

LEMMA BorrarTipo ==
  ASSUME TipoInv, NEW h \in Nucleos, Borrar(h)
  PROVE  /\ TipoInv' /\ PasaA(h, "desmarca") /\ fat' = Anota(fat, posicion_fat, 0)
         /\ posicion_fat' = Avanzada /\ UNCHANGED <<fcb, bloques_libres_fat>>
         /\ hilo[h].op = "TRUNCATE" /\ hilo[h].pc = "borra"
<1>1. /\ hilo[h].pc = "borra" /\ hilo[h].op = "TRUNCATE"
      /\ Escrita(0) /\ Pasa(h, "desmarca")
  BY NucleoEs DEF Borrar, En, PuntoNucleo, DeLeer
<1> QED
  BY <1>1, EscribePasa, Constantes DEF Pcs

LEMMA CortarTipo ==
  ASSUME TipoInv, NEW h \in Nucleos, Cortar(h)
  PROVE  /\ TipoInv' /\ Solo(h, hilo'[h]) /\ Sigue(hilo[h], hilo'[h])
         /\ UNCHANGED <<fcb, bloques_libres_fat>> /\ posicion_fat' = Avanzada
         /\ hilo[h].op = "TRUNCATE" /\ hilo[h].pc = "corta"
         /\ fat' = Anota(fat, posicion_fat, IF hilo[h].n = 0 THEN 0 ELSE Fin)
         /\ hilo'[h].bloque = hilo[h].bloque /\ hilo'[h].cursor = hilo[h].cursor
         /\ hilo'[h].anterior = hilo[h].anterior
         /\ hilo[h].n = 0 => /\ hilo'[h].pc = "relee_inicial" /\ hilo'[h].inicial = Fin
                             /\ hilo'[h].luego \in {"libera", "relee_tamanio"}
         /\ hilo[h].n # 0 => /\ hilo'[h].pc \in {"libera", "relee_tamanio"}
                             /\ hilo'[h].inicial = hilo[h].inicial
<1> DEFINE y == hilo[h]
           k == y.actuales - y.n - 1
           q == IF k > 0 THEN "libera" ELSE "relee_tamanio"
           r == IF y.n = 0 THEN [y EXCEPT !.pc = "relee_inicial", !.luego = q, !.inicial = Fin,
                                          !.quedan = k]
                           ELSE [y EXCEPT !.pc = q, !.quedan = k]
<1>1. /\ y.pc = "corta" /\ y \in Fichas /\ PuntoNucleo(y) /\ h \in Hilos
      /\ y.op = "TRUNCATE" /\ y.quien \in Archivos
  BY NucleoEs DEF Cortar, En, PuntoNucleo, DeLeer
<1>2. hilo' = [hilo EXCEPT ![h] = r]
  BY <1>1 DEF Cortar
<1>3. k \in Int /\ q \in {"libera", "relee_tamanio"}
  <2>1. PICK a \in Nat, n \in Nat : a = y.actuales /\ n = y.n
    BY <1>1, FichaTipo
  <2> QED
    BY <2>1
<1>4. /\ fat' = Anota(fat, posicion_fat, IF y.n = 0 THEN 0 ELSE Fin) /\ fat' \in Tablas
      /\ posicion_fat' = Avanzada
      /\ posicion_fat' \in Nat \cup {Fin} /\ EnFat /\ UNCHANGED <<fcb, bloques_libres_fat>>
  BY EscritaTipo, Constantes DEF Cortar
<1>5. /\ r \in Fichas /\ r.op = y.op /\ r.quien = y.quien /\ r.n = y.n
      /\ r.bloque = y.bloque /\ r.cursor = y.cursor /\ r.anterior = y.anterior
      /\ y.n = 0 => r.pc = "relee_inicial" /\ r.inicial = Fin /\ r.luego = q
      /\ y.n # 0 => r.pc = q /\ r.inicial = y.inicial /\ r.luego = y.luego
  <2> HIDE DEF y, k, q
  <2>1. CASE y.n = 0
    <3>1. r = [y EXCEPT !.pc = "relee_inicial", !.luego = q, !.inicial = Fin, !.quedan = k]
      BY <2>1
    <3> HIDE DEF r
    <3>2. r \in Fichas
      BY <1>1, <1>3, <3>1, Campos DEF Pcs, Luegos
    <3> QED
      BY <1>1, <2>1, <3>1, <3>2 DEF Fichas
  <2>2. CASE y.n # 0
    <3>1. r = [y EXCEPT !.pc = q, !.quedan = k]
      BY <2>2
    <3> HIDE DEF r
    <3>2. r \in Fichas
      BY <1>1, <1>3, <3>1, Campos DEF Pcs
    <3> QED
      BY <1>1, <2>2, <3>1, <3>2 DEF Fichas
  <2> QED
    BY <2>1, <2>2
<1> HIDE DEF r, y, k, q
<1>6. PuntoNucleo(r)
  BY <1>1, <1>3, <1>5 DEF PuntoNucleo, DeTruncar, Escribe, Guarda
<1>7. TipoInv' /\ Solo(h, r)
  BY <1>2, <1>4, <1>5, <1>6, EnFatTipo
<1>8. hilo'[h] = r
  BY <1>7 DEF Solo
<1> QED
  BY <1>1, <1>3, <1>4, <1>5, <1>7, <1>8 DEF Sigue, y

\* The FCB read again.
LEMMA ReleerTipo ==
  ASSUME TipoInv, NEW h \in Nucleos, Releer(h)
  PROVE  /\ TipoInv' /\ Solo(h, hilo'[h]) /\ Sigue(hilo[h], hilo'[h]) /\ UNCHANGED archivos
         /\ posicion_fat' = posicion_fat
         /\ hilo[h].op = "TRUNCATE" /\ hilo[h].pc \in {"relee_inicial", "relee_tamanio"}
         /\ hilo'[h].copia \in Leidos(h) /\ hilo'[h].luego = hilo[h].luego
         /\ hilo'[h].pc = (IF hilo[h].pc = "relee_inicial" THEN "graba_inicial"
                           ELSE "graba_tamanio")
         /\ hilo'[h].inicial = hilo[h].inicial /\ hilo'[h].bloque = hilo[h].bloque
         /\ hilo'[h].anterior = hilo[h].anterior /\ hilo'[h].cursor = hilo[h].cursor
<1> DEFINE y == hilo[h]
           q == IF y.pc = "relee_inicial" THEN "graba_inicial" ELSE "graba_tamanio"
<1>1. /\ y.pc \in {"relee_inicial", "relee_tamanio"} /\ y \in Fichas /\ PuntoNucleo(y)
      /\ h \in Hilos /\ y.op = "TRUNCATE" /\ y.quien \in Archivos /\ y.pc # "libre"
  BY NucleoEs DEF Releer, PuntoNucleo, DeLeer
<1>2. PICK c \in Leidos(h) :
        hilo' = [hilo EXCEPT ![h].copia = c,
          ![h].pc = IF @ = "relee_inicial" THEN "graba_inicial" ELSE "graba_tamanio"]
  BY DEF Releer
<1>3. c \in Fcbs
  BY <1>1, LeidosTipo
<1>4. fcb' = fcb /\ EnFcb
  BY DEF Releer
<1> DEFINE r == [y EXCEPT !.copia = c, !.pc = q]
<1>5. hilo' = [hilo EXCEPT ![h] = r]
  BY <1>1, <1>2 DEF TipoInv, Puntos
<1>6. q \in {"graba_inicial", "graba_tamanio"} /\ (q = "graba_inicial" => y.pc = "relee_inicial")
  OBVIOUS
<1> HIDE DEF y, q
<1>7. r \in Fichas
  BY <1>1, <1>3, <1>6, Campos DEF Pcs
<1>8. /\ r.pc = q /\ r.op = y.op /\ r.luego = y.luego /\ r.quien = y.quien /\ r.n = y.n
      /\ r.inicial = y.inicial /\ r.bloque = y.bloque /\ r.anterior = y.anterior
      /\ r.cursor = y.cursor /\ r.copia = c
  BY <1>1 DEF Fichas
<1> HIDE DEF r
<1>9. PuntoNucleo(r)
  BY <1>1, <1>6, <1>8 DEF PuntoNucleo, DeTruncar, Escribe, Guarda
<1>10. TipoInv' /\ Solo(h, r)
  BY <1>4, <1>5, <1>7, <1>9, EnFcbTipo DEF TipoInv, TipoArchivos
<1>11. hilo'[h] = r /\ UNCHANGED <<archivos, posicion_fat>>
  BY <1>4, <1>10 DEF Solo, EnFcb, archivos
<1> QED
  BY <1>1, <1>2, <1>8, <1>10, <1>11 DEF Sigue, y, q

\* The FCB saved: initial block or size.
LEMMA GrabarTipo ==
  ASSUME TipoInv, NEW h \in Nucleos, NEW c \in Fcbs,
         NEW q \in {"asigna", "vuelve", "libera", "relee_tamanio", "responde"},
         hilo[h].op = "TRUNCATE", hilo[h].quien \in Archivos, EnFcb,
         fcb' = [fcb EXCEPT ![hilo[h].quien] = c],
         hilo' = [hilo EXCEPT ![h].pc = q, ![h].copia = SinFcb]
  PROVE  /\ TipoInv' /\ Solo(h, hilo'[h]) /\ Sigue(hilo[h], hilo'[h])
         /\ UNCHANGED <<fat, bloques_libres_fat, posicion_fat>>
         /\ hilo'[h].pc = q /\ hilo'[h].luego = hilo[h].luego
         /\ hilo'[h].inicial = hilo[h].inicial /\ hilo'[h].bloque = hilo[h].bloque
         /\ hilo'[h].anterior = hilo[h].anterior /\ hilo'[h].cursor = hilo[h].cursor
<1> DEFINE y == hilo[h]
           r == [y EXCEPT !.pc = q, !.copia = SinFcb]
<1>1. /\ y \in Fichas /\ PuntoNucleo(y) /\ h \in Hilos /\ y.op = "TRUNCATE"
      /\ y.quien \in Archivos
  BY NucleoEs
<1>2. hilo' = [hilo EXCEPT ![h] = r]
  BY <1>1 DEF TipoInv, Puntos
<1> HIDE DEF y
<1>4. r \in Fichas
  BY <1>1, Campos, FcbTipos DEF Pcs
<1>5. /\ r.pc = q /\ r.op = y.op /\ r.luego = y.luego /\ r.quien = y.quien /\ r.n = y.n
      /\ r.inicial = y.inicial /\ r.bloque = y.bloque /\ r.anterior = y.anterior
      /\ r.cursor = y.cursor
  BY <1>1 DEF Fichas
<1> HIDE DEF r
<1>6. PuntoNucleo(r)
  BY <1>1, <1>5 DEF PuntoNucleo, DeTruncar, Escribe, Guarda
<1>7. fcb' \in [Archivos -> Fcbs]
  BY DEF TipoInv, TipoArchivos
<1>8. TipoInv' /\ Solo(h, r)
  BY <1>2, <1>4, <1>6, <1>7, EnFcbTipo
<1>9. hilo'[h] = r /\ UNCHANGED <<fat, bloques_libres_fat, posicion_fat>>
  BY <1>8 DEF Solo, EnFcb
<1> QED
  BY <1>1, <1>5, <1>8, <1>9 DEF Sigue, y

\* The FCB a thread saves.
Grabado(y) ==
  IF y.pc = "graba_inicial" THEN [y.copia EXCEPT !.inicial = y.inicial]
  ELSE [y.copia EXCEPT !.tamanio = y.n]

LEMMA GrabarInicialTipo ==
  ASSUME TipoInv, NEW h \in Nucleos, GrabarInicial(h)
  PROVE  /\ TipoInv' /\ Solo(h, hilo'[h]) /\ Sigue(hilo[h], hilo'[h])
         /\ UNCHANGED <<fat, bloques_libres_fat, posicion_fat>>
         /\ fcb' = [fcb EXCEPT ![hilo[h].quien] = Grabado(hilo[h])]
         /\ hilo[h].op = "TRUNCATE" /\ hilo[h].quien \in Archivos /\ hilo[h].pc = "graba_inicial"
         /\ hilo'[h].pc = hilo[h].luego /\ hilo'[h].luego = hilo[h].luego
         /\ hilo'[h].inicial = hilo[h].inicial /\ hilo'[h].bloque = hilo[h].bloque
         /\ hilo'[h].anterior = hilo[h].anterior /\ hilo'[h].cursor = hilo[h].cursor
<1>0. PICK q \in {"asigna", "vuelve", "libera", "relee_tamanio", "responde"} : q = hilo[h].luego
  BY NucleoEs DEF GrabarInicial, En, PuntoNucleo, Guarda, DeLeer
<1>1. /\ hilo[h].pc = "graba_inicial" /\ EnFcb
      /\ fcb' = [fcb EXCEPT ![hilo[h].quien] = Grabado(hilo[h])]
      /\ hilo' = [hilo EXCEPT ![h].pc = q, ![h].copia = SinFcb]
  BY <1>0 DEF GrabarInicial, En, Grabado
<1>2. PICK c \in Fcbs : c = Grabado(hilo[h])
  BY <1>1, NucleoEs, FichaTipo, FcbTipos DEF Grabado
<1>3. hilo[h].op = "TRUNCATE" /\ hilo[h].quien \in Archivos
  BY <1>1, NucleoEs DEF PuntoNucleo, DeLeer
<1>4. fcb' = [fcb EXCEPT ![hilo[h].quien] = c]
  BY <1>1, <1>2
<1>5. /\ TipoInv' /\ Solo(h, hilo'[h]) /\ Sigue(hilo[h], hilo'[h])
      /\ UNCHANGED <<fat, bloques_libres_fat, posicion_fat>>
      /\ hilo'[h].pc = q /\ hilo'[h].luego = hilo[h].luego
      /\ hilo'[h].inicial = hilo[h].inicial /\ hilo'[h].bloque = hilo[h].bloque
      /\ hilo'[h].anterior = hilo[h].anterior /\ hilo'[h].cursor = hilo[h].cursor
  BY <1>1, <1>3, <1>4, GrabarTipo
<1> QED
  BY <1>0, <1>1, <1>3, <1>5

LEMMA GrabarTamanioTipo ==
  ASSUME TipoInv, NEW h \in Nucleos, GrabarTamanio(h)
  PROVE  /\ TipoInv' /\ Solo(h, hilo'[h]) /\ Sigue(hilo[h], hilo'[h])
         /\ UNCHANGED <<fat, bloques_libres_fat, posicion_fat>>
         /\ fcb' = [fcb EXCEPT ![hilo[h].quien] = Grabado(hilo[h])]
         /\ hilo[h].op = "TRUNCATE" /\ hilo[h].quien \in Archivos /\ hilo[h].pc = "graba_tamanio"
         /\ hilo'[h].pc = "responde" /\ hilo'[h].cursor = hilo[h].cursor
<1>0. PICK q \in {"asigna", "vuelve", "libera", "relee_tamanio", "responde"} : q = "responde"
  OBVIOUS
<1>1. /\ hilo[h].pc = "graba_tamanio" /\ EnFcb
      /\ fcb' = [fcb EXCEPT ![hilo[h].quien] = Grabado(hilo[h])]
      /\ hilo' = [hilo EXCEPT ![h].pc = q, ![h].copia = SinFcb]
  BY <1>0 DEF GrabarTamanio, En, Grabado
<1>2. PICK c \in Fcbs : c = Grabado(hilo[h])
  BY <1>1, NucleoEs, FichaTipo, FcbTipos DEF Grabado
<1>3. hilo[h].op = "TRUNCATE" /\ hilo[h].quien \in Archivos
  BY <1>1, NucleoEs DEF PuntoNucleo, DeLeer
<1>4. fcb' = [fcb EXCEPT ![hilo[h].quien] = c]
  BY <1>1, <1>2
<1>5. /\ TipoInv' /\ Solo(h, hilo'[h]) /\ Sigue(hilo[h], hilo'[h])
      /\ UNCHANGED <<fat, bloques_libres_fat, posicion_fat>>
      /\ hilo'[h].pc = q /\ hilo'[h].luego = hilo[h].luego
      /\ hilo'[h].inicial = hilo[h].inicial /\ hilo'[h].bloque = hilo[h].bloque
      /\ hilo'[h].anterior = hilo[h].anterior /\ hilo'[h].cursor = hilo[h].cursor
  BY <1>1, <1>3, <1>4, GrabarTipo
<1> QED
  BY <1>0, <1>1, <1>3, <1>5

LEMMA LeerOEscribirTipo ==
  ASSUME TipoInv, NEW h \in Nucleos, LeerOEscribir(h)
  PROVE  /\ TipoInv' /\ Solo(h, hilo'[h]) /\ Sigue(hilo[h], hilo'[h]) /\ UNCHANGED archivos
         /\ hilo[h].op \in {"READ", "WRITE"}
<1> DEFINE q == IF hilo[h].op = "WRITE" THEN "habla" ELSE "localiza"
           r == [hilo[h] EXCEPT !.pc = q]
<1>1. /\ hilo[h].pc = "nace" /\ hilo[h].op \in {"READ", "WRITE"} /\ Pasa(h, q) /\ fcb' = fcb
      /\ EnFcb
  BY DEF LeerOEscribir, Nace, En
<1>2. q \in Pcs /\ q \in DeLeer /\ q \in {"habla", "localiza"}
  BY DEF Pcs, DeLeer
<1> HIDE DEF q
<1>3. /\ r \in Fichas /\ PuntoNucleo(r) /\ hilo' = [hilo EXCEPT ![h] = r]
      /\ Solo(h, r) => PasaA(h, q)
  BY <1>1, <1>2, PasaEs
<1> HIDE DEF r
<1>4. TipoInv' /\ Solo(h, r) /\ UNCHANGED archivos
  BY <1>1, <1>3, EnFcbTipo DEF TipoInv, TipoArchivos, EnFcb, archivos
<1> QED
  BY <1>1, <1>3, <1>4 DEF PasaA

LEMMA LocalizarTipo ==
  ASSUME TipoInv, NEW h \in Nucleos, Localizar(h)
  PROVE  /\ TipoInv' /\ hilo[h].op \in {"READ", "WRITE"}
         /\ \/ Cae
            \/ /\ Solo(h, hilo'[h]) /\ Sigue(hilo[h], hilo'[h]) /\ UNCHANGED archivos
<1> DEFINE y == hilo[h]
<1>1. /\ y.pc = "localiza" /\ y \in Fichas /\ PuntoNucleo(y) /\ h \in Hilos
      /\ y.op \in {"READ", "WRITE"} /\ y.quien \in Archivos /\ y.pc # "libre"
  BY NucleoEs DEF Localizar, En, PuntoNucleo, DeTruncar
<1>2. CASE Cae
  BY <1>1, <1>2, CaeTipo
<1>3. CASE ~Cae
  <2> DEFINE s == IF y.n = 0 THEN 0 ELSE Saltos(y.n - 1)
             q == IF s > 0 THEN "busca" ELSE "situa"
             B(c) == IF y.n = 0 THEN 0 ELSE c.inicial
  <2>1. PICK c \in Leidos(h) :
          /\ y.n = 0 \/ c.inicial # Falta
          /\ hilo' = [hilo EXCEPT ![h].pc = q, ![h].bloque = B(c), ![h].quedan = s]
          /\ UNCHANGED fcb /\ EnFcb
    BY <1>3 DEF Localizar
  <2> DEFINE b == B(c)
             r == [y EXCEPT !.pc = q, !.bloque = b, !.quedan = s]
  <2>2. hilo' = [hilo EXCEPT ![h] = r]
    BY <1>1, <2>1 DEF TipoInv, Puntos
  <2>3. s \in Int
    <3>1. PICK n \in Nat : n = y.n
      BY <1>1, FichaTipo
    <3> QED
      BY <3>1, SaltosTipo
  <2>4. b \in BloquesFat \cup {Fin}
    BY <1>1, <2>1, LeidosTipo, FcbTipos, Constantes
  <2>5. q \in {"busca", "situa"}
    OBVIOUS
  <2> HIDE DEF s, q, b, B, y
  <2>6. r \in Fichas
    BY <1>1, <2>3, <2>4, <2>5, Campos, Constantes DEF Pcs
  <2>7. r.pc = q /\ r.op = y.op /\ r.quien = y.quien /\ r.n = y.n /\ r.bloque = b
        /\ r.cursor = y.cursor /\ r.luego = y.luego
    BY <1>1 DEF Fichas
  <2> HIDE DEF r
  <2>8. PuntoNucleo(r)
    BY <1>1, <2>4, <2>5, <2>7 DEF PuntoNucleo, DeLeer
  <2>9. TipoInv' /\ Solo(h, r) /\ UNCHANGED archivos
    BY <2>1, <2>2, <2>6, <2>8, EnFcbTipo DEF TipoInv, TipoArchivos, EnFcb, archivos
  <2>10. hilo'[h] = r
    BY <2>9 DEF Solo
  <2> QED
    BY <1>1, <2>7, <2>9, <2>10 DEF Sigue, y
<1> QED
  BY <1>2, <1>3

\* READ and WRITE, with or without a client on descriptor 0.
LEMMA HablaTipo ==
  ASSUME TipoInv, NEW h \in Nucleos, hilo[h].pc = "habla",
         Pasa(h, IF hilo[h].op = "READ" THEN "responde" ELSE "localiza"),
         entrada' \in {"ajena", "cerrada", "cliente"}, Ajeno,
         UNCHANGED <<archivos, posicion_fat, posicion, socket_cliente, aislados>>
  PROVE  /\ TipoInv' /\ Solo(h, hilo'[h]) /\ Sigue(hilo[h], hilo'[h])
         /\ hilo[h].op \in {"READ", "WRITE"}
<1> DEFINE q == IF hilo[h].op = "READ" THEN "responde" ELSE "localiza"
           r == [hilo[h] EXCEPT !.pc = q]
<1>1. hilo[h].op \in {"READ", "WRITE"}
  BY NucleoEs DEF PuntoNucleo, DeTruncar
<1>2. q \in Pcs /\ q \in DeLeer /\ q \in {"responde", "localiza"} /\ Pasa(h, q)
  BY DEF Pcs, DeLeer
<1> HIDE DEF q
<1>3. /\ r \in Fichas /\ PuntoNucleo(r) /\ hilo' = [hilo EXCEPT ![h] = r]
      /\ Solo(h, r) => PasaA(h, q)
  BY <1>1, <1>2, PasaEs
<1> HIDE DEF r
<1>4. /\ TipoArchivos' /\ TipoConexion' /\ posicion_fat' \in Nat \cup {Fin}
      /\ posicion' \in Nat \cup {Fin}
  BY DEF TipoInv, TipoArchivos, TipoResto, TipoConexion, archivos
<1>5. TipoInv' /\ Solo(h, r)
  BY <1>3, <1>4, NucleoTipo
<1> QED
  BY <1>1, <1>3, <1>5 DEF PasaA

LEMMA HablarTipo ==
  ASSUME TipoInv, NEW h \in Nucleos, Hablar(h)
  PROVE  /\ TipoInv' /\ Solo(h, hilo'[h]) /\ Sigue(hilo[h], hilo'[h]) /\ UNCHANGED archivos
         /\ hilo[h].op \in {"READ", "WRITE"}
<1>1. entrada \in {"ajena", "cerrada", "cliente"}
  BY DEF TipoInv, TipoResto, TipoConexion
<1>2. /\ hilo[h].pc = "habla" /\ entrada' \in {"ajena", "cerrada", "cliente"} /\ Ajeno
      /\ Pasa(h, IF hilo[h].op = "READ" THEN "responde" ELSE "localiza")
      /\ UNCHANGED <<archivos, posicion_fat, posicion, socket_cliente, aislados>>
  BY <1>1 DEF Hablar, En
<1> QED
  BY <1>2, HablaTipo

LEMMA HablarConClienteTipo ==
  ASSUME TipoInv, NEW h \in Nucleos, HablarConCliente(h)
  PROVE  /\ TipoInv' /\ hilo[h].op \in {"READ", "WRITE"}
         /\ \/ Cae
            \/ Solo(h, hilo'[h]) /\ Sigue(hilo[h], hilo'[h]) /\ UNCHANGED archivos
<1>1. /\ hilo[h].pc = "habla" /\ entrada \in {"ajena", "cerrada", "cliente"}
      /\ hilo[h].op \in {"READ", "WRITE"}
  BY NucleoEs DEF HablarConCliente, En, TipoInv, TipoResto, TipoConexion, PuntoNucleo, DeTruncar
<1>2. CASE Cae
  BY <1>1, <1>2, CaeTipo
<1>3. CASE ~Cae
  <2>1. /\ entrada' \in {"ajena", "cerrada", "cliente"} /\ Ajeno
        /\ Pasa(h, IF hilo[h].op = "READ" THEN "responde" ELSE "localiza")
        /\ UNCHANGED <<archivos, posicion_fat, posicion, socket_cliente, aislados>>
    BY <1>1, <1>3 DEF HablarConCliente
  <2> QED
    BY <1>1, <2>1, HablaTipo
<1> QED
  BY <1>2, <1>3

LEMMA SituarTipo ==
  ASSUME TipoInv, NEW h \in Nucleos, Situar(h)
  PROVE  /\ TipoInv' /\ Solo(h, hilo'[h]) /\ Sigue(hilo[h], hilo'[h]) /\ UNCHANGED archivos
         /\ posicion_fat' = posicion_fat
         /\ hilo[h].pc = "situa" /\ hilo'[h].pc = "accede"
         /\ hilo[h].op = "TRUNCATE" =>
              /\ hilo'[h].luego = hilo[h].luego
              /\ hilo'[h].inicial = hilo[h].inicial /\ hilo'[h].bloque = hilo[h].bloque
              /\ hilo'[h].anterior = hilo[h].anterior /\ hilo'[h].cursor = hilo[h].cursor
<1> DEFINE y == hilo[h]
           l == CASE y.op = "READ"  -> "habla" [] y.op = "WRITE" -> "responde" [] OTHER -> y.luego
           r == [y EXCEPT !.pc = "accede", !.luego = l]
<1>1. /\ y.pc = "situa" /\ y \in Fichas /\ PuntoNucleo(y) /\ h \in Hilos
      /\ y.op \in {"TRUNCATE", "READ", "WRITE"} /\ y.quien \in Archivos
  BY NucleoEs DEF Situar, En, PuntoNucleo
<1>2. /\ hilo' = [hilo EXCEPT ![h] = r] /\ posicion' = y.bloque
      /\ UNCHANGED <<archivos, posicion_fat, conexion>> /\ Ajeno
  BY <1>1 DEF Situar, TipoInv, Puntos
<1>3. /\ y.op = "READ" => l = "habla"
      /\ y.op = "WRITE" => l = "responde"
      /\ y.op = "TRUNCATE" => l = y.luego
  OBVIOUS
<1> HIDE DEF y, l
<1>4. l \in Luegos
  BY <1>1, <1>3, FichaTipo DEF Luegos
<1>5. r \in Fichas
  BY <1>1, <1>4, Campos DEF Pcs
<1>6. /\ r.pc = "accede" /\ r.op = y.op /\ r.luego = l /\ r.quien = y.quien /\ r.n = y.n
      /\ r.inicial = y.inicial /\ r.bloque = y.bloque /\ r.anterior = y.anterior
      /\ r.cursor = y.cursor
  BY <1>1 DEF Fichas
<1> HIDE DEF r
<1>7. PuntoNucleo(r)
  BY <1>1, <1>3, <1>6 DEF PuntoNucleo, DeTruncar, DeLeer, Escribe, Guarda
<1>8. /\ TipoArchivos' /\ TipoConexion' /\ posicion_fat' \in Nat \cup {Fin}
      /\ posicion' \in Nat \cup {Fin}
  BY <1>1, <1>2, FichaTipo DEF TipoInv, TipoArchivos, TipoResto, TipoConexion, archivos, conexion
<1>9. TipoInv' /\ Solo(h, r)
  BY <1>2, <1>5, <1>7, <1>8, NucleoTipo
<1>10. hilo'[h] = r
  BY <1>9 DEF Solo
<1> QED
  BY <1>1, <1>2, <1>3, <1>6, <1>9, <1>10 DEF Sigue, y

\* A thread that has read or written its block.
Accedido(y) ==
  CASE y.op = "ESCRIBIR_SWAP" -> [y EXCEPT !.pc = "ubica", !.op = "LEER_SWAP"]
    [] y.op = "LEER_SWAP" -> [y EXCEPT !.pc = "responde"]
    [] OTHER -> [y EXCEPT !.pc = "rebobina"]

LEMMA AccedidoEs ==
  ASSUME NEW y \in Fichas
  PROVE  /\ y.op = "ESCRIBIR_SWAP" => Accedido(y) = [y EXCEPT !.pc = "ubica", !.op = "LEER_SWAP"]
         /\ y.op = "LEER_SWAP" => Accedido(y) = [y EXCEPT !.pc = "responde"]
         /\ y.op \notin {"ESCRIBIR_SWAP", "LEER_SWAP"} => Accedido(y) = [y EXCEPT !.pc = "rebobina"]
         /\ Accedido(y) \in Fichas
         /\ Accedido(y).pc = CASE y.op = "ESCRIBIR_SWAP" -> "ubica"
                               [] y.op = "LEER_SWAP" -> "responde" [] OTHER -> "rebobina"
         /\ Accedido(y).op = IF y.op = "ESCRIBIR_SWAP" THEN "LEER_SWAP" ELSE y.op
         /\ Accedido(y).luego = y.luego /\ Accedido(y).quien = y.quien
         /\ Accedido(y).bloque = y.bloque /\ Accedido(y).cursor = y.cursor
         /\ Accedido(y).tomados = y.tomados /\ Accedido(y).n = y.n
         /\ Accedido(y).quedan = y.quedan /\ Accedido(y).vigente = y.vigente
         /\ Accedido(y).inicial = y.inicial /\ Accedido(y).anterior = y.anterior
         /\ Accedido(y).copia = y.copia
<1>1. CASE y.op = "ESCRIBIR_SWAP"
  <2>1. Accedido(y) = [y EXCEPT !.pc = "ubica", !.op = "LEER_SWAP"]
    BY <1>1 DEF Accedido
  <2>2. [y EXCEPT !.pc = "ubica", !.op = "LEER_SWAP"] \in Fichas
    BY Campos DEF Pcs, Ops
  <2> QED
    BY <1>1, <2>1, <2>2 DEF Fichas
<1>2. CASE y.op = "LEER_SWAP"
  <2>1. Accedido(y) = [y EXCEPT !.pc = "responde"]
    BY <1>2 DEF Accedido
  <2>2. [y EXCEPT !.pc = "responde"] \in Fichas
    BY Campos DEF Pcs
  <2> QED
    BY <1>2, <2>1, <2>2 DEF Fichas
<1>3. CASE y.op \notin {"ESCRIBIR_SWAP", "LEER_SWAP"}
  <2>1. Accedido(y) = [y EXCEPT !.pc = "rebobina"]
    BY <1>3 DEF Accedido
  <2>2. [y EXCEPT !.pc = "rebobina"] \in Fichas
    BY Campos DEF Pcs
  <2> QED
    BY <1>3, <2>1, <2>2 DEF Fichas
<1> QED
  BY <1>1, <1>2, <1>3

LEMMA AccederTipo ==
  ASSUME TipoInv, NEW h \in Hilos, Acceder(h)
  PROVE  /\ TipoInv' /\ Solo(h, Accedido(hilo[h])) /\ hilo[h].pc = "accede"
         /\ UNCHANGED <<archivos, posicion_fat>>
<1> DEFINE y == hilo[h]
           r == Accedido(y)
<1>1. y \in Fichas /\ y.pc = "accede"
  BY HiloTipo DEF Acceder, En
<1>2. hilo' = [hilo EXCEPT ![h] = r]
  BY DEF Acceder, Accedido, TipoInv, Puntos
<1>3. /\ UNCHANGED <<archivos, bloques_libres_swap, posicion_fat, conexion, memoria, cupo, solos,
                      caido>>
      /\ intactos' = Contenido(h) /\ mal_leida' \in BOOLEAN
      /\ posicion' = IF posicion = Fin THEN Fin ELSE posicion + 1
  BY DEF Acceder, TipoInv, TipoResto, conexion
<1> HIDE DEF y
<1>4. /\ r \in Fichas /\ r.luego = y.luego /\ r.quien = y.quien /\ r.bloque = y.bloque
      /\ r.cursor = y.cursor
      /\ r.pc = CASE y.op = "ESCRIBIR_SWAP" -> "ubica"
                  [] y.op = "LEER_SWAP" -> "responde" [] OTHER -> "rebobina"
      /\ r.op = IF y.op = "ESCRIBIR_SWAP" THEN "LEER_SWAP" ELSE y.op
  BY <1>1, AccedidoEs
<1> HIDE DEF r
<1>5. h \in Nucleos => PuntoNucleo(r)
  <2> SUFFICES ASSUME h \in Nucleos PROVE PuntoNucleo(r)
    OBVIOUS
  <2>1. PuntoNucleo(y)
    BY HiloTipo DEF y
  <2>2. y.op \notin {"ESCRIBIR_SWAP", "LEER_SWAP"}
    BY <2>1 DEF PuntoNucleo
  <2>3. r.pc = "rebobina" /\ r.op = y.op
    BY <1>4, <2>2
  <2> QED
    BY <1>1, <1>4, <2>1, <2>3 DEF PuntoNucleo, DeTruncar, DeLeer, Escribe, Guarda
<1>6. h = Memoria => PuntoMemoria(r)
  <2> SUFFICES ASSUME h = Memoria PROVE PuntoMemoria(r)
    OBVIOUS
  <2>1. PuntoMemoria(y)
    BY HiloTipo DEF y
  <2>2. /\ y.op = "PROCESS_STARTED" => r.pc = "rebobina"
        /\ y.op = "LEER_SWAP" => r.pc = "responde"
        /\ y.op \in {"PROCESS_STARTED", "LEER_SWAP"} /\ r.op = y.op
    BY <1>1, <1>4, <2>1 DEF PuntoMemoria
  <2> QED
    BY <1>1, <1>4, <2>1, <2>2 DEF PuntoMemoria
<1>7. h \in Escritores => PuntoEscritor(r)
  <2> SUFFICES ASSUME h \in Escritores PROVE PuntoEscritor(r)
    OBVIOUS
  <2>1. PuntoEscritor(y)
    BY HiloTipo DEF y
  <2>2. /\ r.op = "LEER_SWAP" /\ r.pc \in {"ubica", "responde"}
    BY <1>1, <1>4, <2>1 DEF PuntoEscritor
  <2> QED
    BY <1>1, <1>4, <2>1, <2>2 DEF PuntoEscritor
<1>8. Puntos' /\ Solo(h, r)
  BY <1>2, <1>4, <1>5, <1>6, <1>7, PonerHilo DEF TipoInv
<1>9. TipoResto' /\ TipoArchivos'
  <2>1. posicion' \in Nat \cup {Fin}
    BY <1>3 DEF TipoInv, TipoResto
  <2> QED
    BY <1>3, <2>1 DEF TipoInv, TipoArchivos, TipoResto, TipoConexion, archivos, conexion
<1>10. intactos' \subseteq BloquesSwap
  <2>1. hilo[h].op = "ESCRIBIR_SWAP" => hilo[h].bloque \in BloquesSwap
    BY HiloTipo, Constantes DEF PuntoNucleo, PuntoMemoria, PuntoEscritor
  <2> QED
    BY <1>3, <2>1 DEF Contenido, TipoInv, TipoSwap
<1>11. TipoSwap'
  BY <1>3, <1>10 DEF TipoInv, TipoSwap, memoria
<1> QED
  BY <1>1, <1>3, <1>8, <1>9, <1>11 DEF TipoInv, y, r

LEMMA RebobinarTipo ==
  ASSUME TipoInv, NEW h \in Nucleos \cup {Memoria}, Rebobinar(h)
  PROVE  /\ TipoInv' /\ Solo(h, [hilo[h] EXCEPT !.pc = hilo[h].luego]) /\ hilo[h].pc = "rebobina"
         /\ UNCHANGED <<archivos, posicion_fat>>
<1> DEFINE y == hilo[h]
           r == [y EXCEPT !.pc = y.luego]
<1>1. h \in Hilos /\ y \in Fichas /\ y.pc = "rebobina"
  BY HiloTipo, Constantes DEF Rebobinar, En
<1>2. hilo' = [hilo EXCEPT ![h] = r]
  BY <1>1 DEF Rebobinar, TipoInv, Puntos
<1>3. UNCHANGED <<archivos, posicion_fat, conexion>> /\ Ajeno /\ posicion' = 0
  BY DEF Rebobinar
<1> HIDE DEF y
<1>4. r \in Fichas
  <2>1. y.luego \in Pcs
    BY <1>1, FichaTipo DEF Pcs, Luegos
  <2> QED
    BY <1>1, <2>1, Campos
<1>5. /\ r.pc = y.luego /\ r.op = y.op /\ r.luego = y.luego /\ r.quien = y.quien
      /\ r.bloque = y.bloque /\ r.cursor = y.cursor
  BY <1>1 DEF Fichas
<1> HIDE DEF r
<1>6. h \in Nucleos => PuntoNucleo(r)
  <2> SUFFICES ASSUME h \in Nucleos PROVE PuntoNucleo(r)
    OBVIOUS
  <2>1. PuntoNucleo(y)
    BY <1>1, HiloTipo DEF y
  <2> QED
    BY <1>1, <1>5, <2>1 DEF PuntoNucleo, DeTruncar, DeLeer, Escribe, Guarda
<1>7. h = Memoria => PuntoMemoria(r)
  <2> SUFFICES ASSUME h = Memoria PROVE PuntoMemoria(r)
    OBVIOUS
  <2>1. PuntoMemoria(y)
    BY <1>1, HiloTipo DEF y
  <2> QED
    BY <1>1, <1>5, <2>1 DEF PuntoMemoria
<1>8. Puntos' /\ Solo(h, r)
  BY <1>1, <1>2, <1>4, <1>6, <1>7, PonerHilo, Constantes DEF TipoInv
<1>9. TipoArchivos' /\ TipoSwap' /\ TipoResto'
  BY <1>3 DEF TipoInv, TipoArchivos, TipoSwap, TipoResto, TipoConexion, archivos, conexion, Ajeno,
     memoria
<1> QED
  BY <1>1, <1>3, <1>8, <1>9 DEF TipoInv, y, r

\* The others keep their tickets, except that the page they write may be nobody's now.
Parecida(y, z) ==
  /\ z.pc = y.pc /\ z.op = y.op /\ z.luego = y.luego /\ z.quien = y.quien /\ z.n = y.n
  /\ z.inicial = y.inicial /\ z.bloque = y.bloque /\ z.anterior = y.anterior
  /\ z.cursor = y.cursor /\ z.quedan = y.quedan /\ z.tomados = y.tomados /\ z.copia = y.copia
Casi(h, r) == hilo'[h] = r /\ \A g \in Hilos : g # h => Parecida(hilo[g], hilo'[g])

LEMMA CambiaVigente ==
  ASSUME NEW y \in Fichas, NEW v \in BOOLEAN
  PROVE  [y EXCEPT !.vigente = v] \in Fichas /\ Parecida(y, [y EXCEPT !.vigente = v])
<1>1. [y EXCEPT !.vigente = v] \in Fichas
  BY Campos
<1>2. Parecida(y, [y EXCEPT !.vigente = v])
  BY DEF Fichas, Parecida
<1> QED
  BY <1>1, <1>2

LEMMA PonerCasi ==
  ASSUME Puntos, NEW h \in Hilos, NEW r \in Fichas, NEW v \in [Hilos -> BOOLEAN],
         hilo' = [g \in Hilos |-> IF g = h THEN r ELSE [hilo[g] EXCEPT !.vigente = v[g]]],
         h \in Nucleos => PuntoNucleo(r), h = Memoria => PuntoMemoria(r),
         h \in Escritores => PuntoEscritor(r)
  PROVE  Puntos' /\ Casi(h, r)
<1>1. hilo'[h] = r
  OBVIOUS
<1>2. ASSUME NEW g \in Hilos, g # h
      PROVE  hilo'[g] \in Fichas /\ Parecida(hilo[g], hilo'[g])
  <2>1. hilo'[g] = [hilo[g] EXCEPT !.vigente = v[g]]
    BY <1>2
  <2>2. hilo[g] \in Fichas /\ v[g] \in BOOLEAN
    BY DEF Puntos
  <2> QED
    BY <2>1, <2>2, CambiaVigente
<1>3. hilo' \in [Hilos -> Fichas]
  <2>1. ASSUME NEW g \in Hilos PROVE hilo'[g] \in Fichas
    BY <1>1, <1>2
  <2> QED
    BY <2>1
<1>4. ASSUME NEW g \in Nucleos PROVE PuntoNucleo(hilo'[g])
  <2>1. g \in Hilos /\ PuntoNucleo(hilo[g])
    BY Constantes DEF Puntos
  <2> QED
    BY <1>1, <1>2, <2>1 DEF Parecida, PuntoNucleo, Escribe, Guarda
<1>5. PuntoMemoria(hilo'[Memoria])
  BY <1>1, <1>2, Constantes DEF Puntos, Parecida, PuntoMemoria
<1>6. ASSUME NEW g \in Escritores PROVE PuntoEscritor(hilo'[g])
  <2>1. g \in Hilos /\ PuntoEscritor(hilo[g])
    BY Constantes DEF Puntos
  <2> QED
    BY <1>1, <1>2, <2>1 DEF Parecida, PuntoEscritor
<1> QED
  BY <1>1, <1>2, <1>3, <1>4, <1>5, <1>6 DEF Puntos, Casi

\* A thread that changes alone leaves the others' tickets as they are.
LEMMA SoloCasi ==
  ASSUME NEW h, NEW r, Solo(h, r) PROVE Casi(h, r)
BY DEF Solo, Casi, Parecida

\* A request of the memory changes neither the files nor the bits nor what the memory has.
EnPedido ==
  UNCHANGED <<archivos, bloques_libres_swap, posicion_fat, posicion, memoria, mal_leida, solos,
              caido>>

LEMMA PedidoTipo ==
  ASSUME TipoInv, EnPedido, intactos' \subseteq BloquesSwap, Puntos',
         TipoConexion', cupo' \in Reparto
  PROVE  TipoInv'
<1>1. TipoArchivos' /\ TipoSwap' /\ TipoResto'
  BY DEF EnPedido, TipoInv, TipoArchivos, TipoSwap, TipoResto, archivos, memoria
<1> QED
  BY <1>1 DEF TipoInv

LEMMA GastaCupo ==
  ASSUME TipoInv, cupo.memoria > 0, cupo' = [cupo EXCEPT !.memoria = @ - 1]
  PROVE  cupo' \in Reparto
BY GastaClase DEF TipoInv, TipoResto

Pedido(op, p) == [Libre EXCEPT !.pc = "nace", !.op = op, !.quien = p]

LEMMA PedidoEs ==
  ASSUME NEW op \in {"PROCESS_STARTED", "PROCESS_FINISHED", "LEER_SWAP", "ESCRIBIR_SWAP"},
         NEW p \in Procesos
  PROVE  /\ Pedido(op, p) \in Fichas /\ Pedido(op, p).pc = "nace" /\ Pedido(op, p).op = op
         /\ Pedido(op, p).quien = p /\ Pedido(op, p).bloque = 0
         /\ Pedido(op, p).luego = "responde" /\ Pedido(op, p).tomados = {}
         /\ Pedido(op, p).vigente = TRUE
<1>1. Pedido(op, p) \in Fichas
  BY LibreTipo, Campos DEF Pedido, Pcs, Ops
<1> QED
  BY <1>1 DEF Pedido, Libre

Arrancado(p) == [Pedido("PROCESS_STARTED", p) EXCEPT !.n = Paginas[p], !.quedan = Paginas[p]]

LEMMA ArrancarTipo ==
  ASSUME TipoInv, NEW p \in Procesos, Arrancar(p)
  PROVE  /\ TipoInv' /\ Solo(Memoria, Arrancado(p)) /\ EnPedido /\ UNCHANGED intactos
         /\ p \notin vivos /\ aqui.pc = "libre" /\ Llega(Memoria)
<1> DEFINE y == Pedido("PROCESS_STARTED", p)
           r == [y EXCEPT !.n = Paginas[p], !.quedan = Paginas[p]]
<1>1. Acepta(Memoria, r) /\ r = Arrancado(p)
  BY DEF Arrancar, Arrancado, Pedido
<1>2. y \in Fichas /\ y.pc = "nace" /\ y.op = "PROCESS_STARTED" /\ y.quien = p /\ y.bloque = 0
      /\ y.luego = "responde"
  BY PedidoEs
<1> HIDE DEF y
<1>3. r \in Fichas
  <2>1. PICK k \in Nat : k = Paginas[p]
    BY Constantes
  <2>2. [y EXCEPT !.n = k] \in Fichas
    BY <1>2, Campos
  <2> DEFINE z == [y EXCEPT !.n = k]
  <2> HIDE DEF z
  <2>3. [z EXCEPT !.quedan = k] \in Fichas
    <3>1. z \in Fichas /\ k \in Int
      BY <2>2 DEF z
    <3> QED
      BY <3>1, Campos
  <2> QED
    BY <2>1, <2>3 DEF z
<1>4. r.pc = "nace" /\ r.op = "PROCESS_STARTED" /\ r.quien = p /\ r.bloque = 0
      /\ r.luego = "responde"
  BY <1>2 DEF Fichas
<1> HIDE DEF r
<1>5. PuntoMemoria(r)
  BY <1>4, Constantes DEF PuntoMemoria
<1>6. /\ Puntos' /\ Solo(Memoria, r) /\ hilo[Memoria].pc = "libre"
      /\ TipoConexion'
  BY <1>1, <1>3, <1>5, AceptaTipo, Constantes
<1>7. EnPedido /\ UNCHANGED intactos /\ p \notin vivos /\ cupo' \in Reparto
  BY GastaCupo DEF Arrancar, EnPedido
<1>8. TipoInv'
  BY <1>6, <1>7, PedidoTipo DEF TipoInv, TipoSwap
<1> QED
  BY <1>1, <1>6, <1>7, <1>8 DEF aqui, Acepta

LEMMA LiberadosTipo ==
  ASSUME NEW B \in SUBSET BloquesSwap, NEW s \in Liberados(B)
  PROVE  s \subseteq BloquesSwap
BY DEF Liberados

Terminado(p, s) == [Pedido("PROCESS_FINISHED", p) EXCEPT !.tomados = s]

LEMMA TerminarTipo ==
  ASSUME TipoInv, NEW p \in Procesos, Terminar(p)
  PROVE  /\ TipoInv' /\ EnPedido /\ UNCHANGED intactos /\ p \in vivos /\ aqui.pc = "libre"
         /\ \E s \in Liberados(bloques_de[p]) : Casi(Memoria, Terminado(p, s))
         /\ Llega(Memoria)
<1>1. PICK s \in Liberados(bloques_de[p]) :
        /\ hilo[Memoria].pc = "libre" /\ Llega(Memoria)
        /\ hilo' = [h \in Hilos |->
             IF h = Memoria THEN Terminado(p, s)
             ELSE [hilo[h] EXCEPT !.vigente = @ /\ hilo[h].quien # p]]
  BY DEF Terminar, Terminado, Pedido, En
<1>2. s \subseteq BloquesSwap
  BY LiberadosTipo DEF TipoInv, TipoSwap
<1> DEFINE r == Terminado(p, s)
           y == Pedido("PROCESS_FINISHED", p)
           v == [h \in Hilos |-> hilo[h].vigente /\ hilo[h].quien # p]
<1>3. y \in Fichas /\ y.pc = "nace" /\ y.op = "PROCESS_FINISHED" /\ y.quien = p /\ y.bloque = 0
  BY PedidoEs
<1>4. r = [y EXCEPT !.tomados = s]
  BY DEF Terminado
<1> HIDE DEF y
<1>5. r \in Fichas /\ r.pc = "nace" /\ r.op = "PROCESS_FINISHED" /\ r.quien = p /\ r.bloque = 0
  <2>1. [y EXCEPT !.tomados = s] \in Fichas
    BY <1>2, <1>3, Campos
  <2> QED
    BY <1>3, <1>4, <2>1 DEF Fichas
<1> HIDE DEF r
<1>6. PuntoMemoria(r)
  BY <1>5, Constantes DEF PuntoMemoria
<1>7. v \in [Hilos -> BOOLEAN] /\ \A h \in Hilos : v[h] = (hilo[h].vigente /\ hilo[h].quien # p)
  OBVIOUS
<1>8. hilo' = [g \in Hilos |-> IF g = Memoria THEN r ELSE [hilo[g] EXCEPT !.vigente = v[g]]]
  <2>1. hilo' = [h \in Hilos |->
             IF h = Memoria THEN r ELSE [hilo[h] EXCEPT !.vigente = hilo[h].vigente /\ hilo[h].quien # p]]
    BY <1>1, Zenon DEF r
  <2> HIDE DEF v
  <2> QED
    BY <1>7, <2>1, Zenon
<1> HIDE DEF v
<1>9. Puntos' /\ Casi(Memoria, r)
  BY <1>5, <1>6, <1>7, <1>8, PonerCasi, Constantes DEF TipoInv
<1>10. EnPedido /\ UNCHANGED <<intactos, cupo>> /\ p \in vivos
  BY DEF Terminar, EnPedido
<1>11. TipoConexion'
  BY <1>1, LlegaTipo, Constantes
<1>12. TipoInv'
  BY <1>9, <1>10, <1>11, PedidoTipo DEF TipoInv, TipoSwap, TipoResto
<1> QED
  BY <1>1, <1>9, <1>10, <1>12 DEF r, aqui

DePagina(op, p, b) == [Pedido(op, p) EXCEPT !.bloque = b]

LEMMA DePaginaEs ==
  ASSUME NEW op \in {"LEER_SWAP", "ESCRIBIR_SWAP"}, NEW p \in Procesos, NEW b \in BloquesSwap
  PROVE  /\ DePagina(op, p, b) \in Fichas /\ DePagina(op, p, b).pc = "nace"
         /\ DePagina(op, p, b).op = op /\ DePagina(op, p, b).quien = p
         /\ DePagina(op, p, b).bloque = b /\ DePagina(op, p, b).vigente = TRUE
         /\ op = "LEER_SWAP" => PuntoMemoria(DePagina(op, p, b))
         /\ op = "ESCRIBIR_SWAP" => PuntoEscritor(DePagina(op, p, b))
<1> DEFINE y == Pedido(op, p)
           r == [y EXCEPT !.bloque = b]
<1>1. y \in Fichas /\ y.pc = "nace" /\ y.op = op /\ y.quien = p /\ y.vigente = TRUE
  <2>1. CASE op = "LEER_SWAP"
    BY <2>1, PedidoEs
  <2>2. CASE op = "ESCRIBIR_SWAP"
    BY <2>2, PedidoEs
  <2> QED
    BY <2>1, <2>2
<1> HIDE DEF y
<1>2. r \in Fichas
  BY <1>1, Campos, Constantes
<1>3. r.pc = "nace" /\ r.op = op /\ r.quien = p /\ r.bloque = b /\ r.vigente = TRUE
  BY <1>1 DEF Fichas
<1>4. r = DePagina(op, p, b)
  BY DEF y, DePagina
<1> HIDE DEF r
<1>5. /\ op = "LEER_SWAP" => PuntoMemoria(r)
      /\ op = "ESCRIBIR_SWAP" => PuntoEscritor(r)
  BY <1>3 DEF PuntoMemoria, PuntoEscritor
<1> QED
  BY <1>2, <1>3, <1>4, <1>5

LEMMA PedirPaginaTipo ==
  ASSUME TipoInv, NEW p \in Procesos, NEW b \in BloquesSwap, PedirPagina(p, b)
  PROVE  /\ TipoInv' /\ Solo(Memoria, DePagina("LEER_SWAP", p, b)) /\ EnPedido
         /\ UNCHANGED intactos /\ p \in vivos /\ b \in bloques_de[p] /\ aqui.pc = "libre"
         /\ Llega(Memoria)
<1> DEFINE r == DePagina("LEER_SWAP", p, b)
<1>1. Acepta(Memoria, r)
  BY DEF PedirPagina, DePagina, Pedido
<1>2. r \in Fichas /\ PuntoMemoria(r)
  BY DePaginaEs
<1> HIDE DEF r
<1>3. /\ Puntos' /\ Solo(Memoria, r) /\ hilo[Memoria].pc = "libre"
      /\ TipoConexion'
  BY <1>1, <1>2, AceptaTipo, Constantes
<1>4. EnPedido /\ UNCHANGED intactos /\ p \in vivos /\ b \in bloques_de[p]
      /\ cupo' \in Reparto
  BY GastaCupo DEF PedirPagina, EnPedido
<1>5. TipoInv'
  BY <1>3, <1>4, PedidoTipo DEF TipoInv, TipoSwap
<1> QED
  BY <1>1, <1>3, <1>4, <1>5 DEF r, aqui, Acepta

LEMMA MandarPaginaTipo ==
  ASSUME TipoInv, NEW h \in Escritores, NEW p \in Procesos, NEW b \in BloquesSwap,
         MandarPagina(h, p, b)
  PROVE  /\ TipoInv' /\ Casi(h, DePagina("ESCRIBIR_SWAP", p, b)) /\ EnPedido
         /\ intactos' = intactos \ {b} /\ p \in vivos /\ b \in bloques_de[p]
         /\ aqui.pc = "libre" /\ hilo[h].pc = "libre" /\ Llega(h)
<1> DEFINE r == DePagina("ESCRIBIR_SWAP", p, b)
           v == [g \in Hilos |-> hilo[g].vigente /\ ~(hilo[g].op = "ESCRIBIR_SWAP"
                                                      /\ hilo[g].bloque = b)]
<1>1. /\ hilo[Memoria].pc = "libre" /\ hilo[h].pc = "libre" /\ Llega(h) /\ EnPedido
      /\ intactos' = intactos \ {b} /\ p \in vivos /\ b \in bloques_de[p]
      /\ cupo' \in Reparto
  BY GastaCupo DEF MandarPagina, En, EnPedido
<1>2. hilo' = [g \in Hilos |-> IF g = h THEN r ELSE [hilo[g] EXCEPT !.vigente =
                 hilo[g].vigente /\ ~(hilo[g].op = "ESCRIBIR_SWAP" /\ hilo[g].bloque = b)]]
  BY DEF MandarPagina, DePagina, Pedido
<1>3. r \in Fichas /\ PuntoEscritor(r)
  BY DePaginaEs
<1>4. v \in [Hilos -> BOOLEAN] /\ \A g \in Hilos : v[g] =
        (hilo[g].vigente /\ ~(hilo[g].op = "ESCRIBIR_SWAP" /\ hilo[g].bloque = b))
  OBVIOUS
<1> HIDE DEF r, v
<1>5. hilo' = [g \in Hilos |-> IF g = h THEN r ELSE [hilo[g] EXCEPT !.vigente = v[g]]]
  BY <1>2, <1>4, Zenon
<1>6. Puntos' /\ Casi(h, r)
  BY <1>3, <1>4, <1>5, PonerCasi, Constantes DEF TipoInv
<1>7. TipoConexion'
  BY <1>1, LlegaTipo, Constantes
<1>8. TipoInv'
  BY <1>1, <1>6, <1>7, PedidoTipo DEF TipoInv, TipoSwap
<1> QED
  BY <1>1, <1>6, <1>8 DEF r, aqui

LEMMA SwapTipo ==
  ASSUME TipoInv, EnSwap, posicion' \in Nat \cup {Fin}, TipoSwap',
         NEW h \in Hilos, NEW r \in Fichas, hilo' = [hilo EXCEPT ![h] = r],
         h \in Nucleos => PuntoNucleo(r), h = Memoria => PuntoMemoria(r),
         h \in Escritores => PuntoEscritor(r)
  PROVE  TipoInv' /\ Solo(h, r)
<1>1. Puntos' /\ Solo(h, r)
  BY PonerHilo DEF TipoInv
<1>2. TipoArchivos' /\ TipoResto'
  BY DEF EnSwap, TipoInv, TipoArchivos, TipoResto, TipoConexion, archivos, conexion
<1> QED
  BY <1>1, <1>2 DEF TipoInv

\* When only the point of the thread changes, and perhaps the position.
LEMMA SwapPc ==
  ASSUME TipoInv, EnSwap, posicion' \in Nat \cup {Fin},
         UNCHANGED <<bloques_libres_swap, memoria, intactos>>,
         NEW h \in Hilos, NEW q \in Pcs, hilo' = [hilo EXCEPT ![h].pc = q],
         h \in Nucleos => PuntoNucleo([hilo[h] EXCEPT !.pc = q]),
         h = Memoria => PuntoMemoria([hilo[h] EXCEPT !.pc = q]),
         h \in Escritores => PuntoEscritor([hilo[h] EXCEPT !.pc = q])
  PROVE  TipoInv' /\ Solo(h, [hilo[h] EXCEPT !.pc = q])
<1> DEFINE r == [hilo[h] EXCEPT !.pc = q]
<1>1. hilo' = [hilo EXCEPT ![h] = r]
  BY DEF TipoInv, Puntos
<1>2. r \in Fichas
  BY HiloTipo, Campos
<1>3. TipoSwap'
  BY DEF TipoInv, TipoSwap, memoria
<1> HIDE DEF r
<1> QED
  BY <1>1, <1>2, <1>3, SwapTipo DEF r

LEMMA EmpezarReservaTipo ==
  ASSUME TipoInv, EmpezarReserva
  PROVE  /\ TipoInv' /\ Solo(Memoria, [aqui EXCEPT !.pc = "reserva"]) /\ EnSwap
         /\ aqui.op = "PROCESS_STARTED" /\ aqui.pc = "nace"
         /\ UNCHANGED <<bloques_libres_swap, posicion, memoria, intactos>>
<1>1. /\ hilo' = [hilo EXCEPT ![Memoria].pc = "reserva"] /\ EnSwap
      /\ aqui.op = "PROCESS_STARTED" /\ aqui.pc = "nace"
      /\ UNCHANGED <<bloques_libres_swap, posicion, memoria, intactos>>
  BY DEF EmpezarReserva, Nace, En, aqui
<1>2. PuntoMemoria([aqui EXCEPT !.pc = "reserva"])
  <2> DEFINE r == [aqui EXCEPT !.pc = "reserva"]
  <2>1. r.pc = "reserva" /\ r.op = aqui.op /\ r.luego = aqui.luego /\ r.quien = aqui.quien
        /\ r.bloque = aqui.bloque
    BY AquiTipo, ConPc
  <2> HIDE DEF r
  <2>2. PuntoMemoria(r)
    BY <1>1, <2>1, AquiTipo DEF PuntoMemoria
  <2> QED
    BY <2>2 DEF r
<1>3. posicion' \in Nat \cup {Fin} /\ "reserva" \in Pcs /\ hilo[Memoria] = aqui
  BY <1>1, AquiTipo DEF TipoInv, TipoResto, Pcs
<1>4. TipoInv' /\ Solo(Memoria, [hilo[Memoria] EXCEPT !.pc = "reserva"])
  BY <1>1, <1>2, <1>3, SwapPc, Constantes
<1> QED
  BY <1>1, <1>3, <1>4

Libres == (aqui.cursor .. CantBloquesSwap) \ bloques_libres_swap
Reservado ==
  [aqui EXCEPT !.pc = "accede", !.luego = IF aqui.quedan = 1 THEN "responde" ELSE "reserva",
               !.cursor = Min(Libres) + 1, !.quedan = aqui.quedan - 1,
               !.tomados = @ \cup {Min(Libres)}]

LEMMA ReservarTipo ==
  ASSUME TipoInv, Reservar
  PROVE  /\ TipoInv' /\ aqui.pc = "reserva" /\ aqui.op = "PROCESS_STARTED"
         /\ \/ Cae
            \/ /\ Min(Libres) \in BloquesSwap \ bloques_libres_swap /\ Solo(Memoria, Reservado)
               /\ bloques_libres_swap' = bloques_libres_swap \cup {Min(Libres)}
               /\ posicion' = Min(Libres) /\ UNCHANGED <<memoria, intactos>> /\ EnSwap
<1>1. aqui.pc = "reserva" /\ aqui.op = "PROCESS_STARTED"
  BY AquiTipo DEF Reservar, En, aqui, PuntoMemoria
<1>2. CASE Cae
  BY <1>1, <1>2, CaeTipo
<1>3. CASE ~Cae
  <2> DEFINE m == Min(Libres)
             l == IF aqui.quedan = 1 THEN "responde" ELSE "reserva"
             r == [aqui EXCEPT !.pc = "accede", !.luego = l, !.cursor = m + 1,
                               !.quedan = aqui.quedan - 1, !.tomados = aqui.tomados \cup {m}]
  <2>1. /\ Libres # {} /\ bloques_libres_swap' = bloques_libres_swap \cup {m} /\ posicion' = m
        /\ hilo' = [hilo EXCEPT ![Memoria] = r] /\ UNCHANGED <<memoria, intactos>> /\ EnSwap
    BY <1>3, AquiTipo DEF Reservar, Libres
  <2>2. r = Reservado
    BY DEF Reservado
  <2>3. aqui.cursor \in Nat /\ aqui.quedan \in Int /\ aqui.tomados \subseteq BloquesSwap
    BY AquiTipo, FichaTipo
  <2>4. m \in BloquesSwap \ bloques_libres_swap /\ m \in Nat
    <3>1. PICK c \in Nat : c = aqui.cursor
      BY <2>3
    <3>2. Libres \subseteq BloquesSwap \ bloques_libres_swap /\ Libres \subseteq Nat
      BY <3>1, Constantes DEF Libres, BloquesSwap
    <3> QED
      BY <2>1, <3>2, MinEs
  <2>5. l \in {"responde", "reserva"}
    OBVIOUS
  <2> HIDE DEF m, l
  <2>6. r \in Fichas
    <3>1. m + 1 \in Nat /\ aqui.tomados \cup {m} \in SUBSET BloquesSwap
      BY <2>3, <2>4
    <3>2. aqui.quedan - 1 \in Int
      <4>1. PICK k \in Int : k = aqui.quedan
        BY <2>3
      <4> QED
        BY <4>1
    <3> QED
      BY <2>5, <3>1, <3>2, AquiTipo, Campos DEF Pcs, Luegos
  <2>7. r.pc = "accede" /\ r.op = aqui.op /\ r.luego = l /\ r.quien = aqui.quien
        /\ r.bloque = aqui.bloque
    BY AquiTipo DEF Fichas
  <2> HIDE DEF r
  <2>8. PuntoMemoria(r)
    BY <1>1, <2>5, <2>7, AquiTipo DEF PuntoMemoria
  <2>9. TipoSwap'
    BY <2>1, <2>4 DEF TipoInv, TipoSwap, memoria
  <2>10. TipoInv' /\ Solo(Memoria, r)
    BY <2>1, <2>4, <2>6, <2>8, <2>9, SwapTipo, Constantes
  <2> QED
    BY <1>1, <2>1, <2>2, <2>4, <2>10 DEF m
<1> QED
  BY <1>2, <1>3

LEMMA LiberarSwapTipo ==
  ASSUME TipoInv, LiberarSwap
  PROVE  /\ TipoInv' /\ Solo(Memoria, [aqui EXCEPT !.pc = "responde"]) /\ EnSwap
         /\ aqui.op = "PROCESS_FINISHED" /\ aqui.pc = "nace"
         /\ bloques_libres_swap' = bloques_libres_swap \ aqui.tomados
         /\ UNCHANGED <<posicion, memoria, intactos>>
<1>1. /\ hilo' = [hilo EXCEPT ![Memoria].pc = "responde"] /\ EnSwap
      /\ aqui.op = "PROCESS_FINISHED" /\ aqui.pc = "nace"
      /\ bloques_libres_swap' = bloques_libres_swap \ aqui.tomados
      /\ UNCHANGED <<posicion, memoria, intactos>>
  BY DEF LiberarSwap, Nace, En, aqui
<1> DEFINE r == [aqui EXCEPT !.pc = "responde"]
<1>2. hilo' = [hilo EXCEPT ![Memoria] = r]
  BY <1>1, AquiTipo, Constantes DEF TipoInv, Puntos
<1>3. r \in Fichas
  BY AquiTipo, Campos DEF Pcs
<1>4. r.pc = "responde" /\ r.op = aqui.op /\ r.luego = aqui.luego /\ r.quien = aqui.quien
      /\ r.bloque = aqui.bloque
  BY AquiTipo, ConPc
<1> HIDE DEF r
<1>5. PuntoMemoria(r)
  BY <1>1, <1>4, AquiTipo DEF PuntoMemoria
<1>6. TipoSwap' /\ posicion' \in Nat \cup {Fin}
  BY <1>1 DEF TipoInv, TipoSwap, TipoResto, memoria
<1>7. TipoInv' /\ Solo(Memoria, r)
  BY <1>1, <1>2, <1>3, <1>5, <1>6, SwapTipo, Constantes
<1> QED
  BY <1>1, <1>7 DEF r

LEMMA EmpezarPaginaTipo ==
  ASSUME TipoInv, NEW h \in Hilos \ Nucleos, EmpezarPagina(h)
  PROVE  /\ TipoInv' /\ Solo(h, [hilo[h] EXCEPT !.pc = "ubica"]) /\ EnSwap
         /\ hilo[h].op \in {"LEER_SWAP", "ESCRIBIR_SWAP"} /\ hilo[h].pc = "nace"
         /\ UNCHANGED <<bloques_libres_swap, posicion, memoria, intactos>>
<1> DEFINE y == hilo[h]
           r == [y EXCEPT !.pc = "ubica"]
<1>1. /\ hilo' = [hilo EXCEPT ![h].pc = "ubica"] /\ EnSwap
      /\ y.op \in {"LEER_SWAP", "ESCRIBIR_SWAP"} /\ y.pc = "nace"
      /\ UNCHANGED <<bloques_libres_swap, posicion, memoria, intactos>>
  BY DEF EmpezarPagina, Nace, En
<1>2. /\ y \in Fichas
      /\ h = Memoria => PuntoMemoria(y)
      /\ h \in Escritores => PuntoEscritor(y)
  BY HiloTipo
<1> HIDE DEF y
<1>3. r.pc = "ubica" /\ r.op = y.op /\ r.luego = y.luego /\ r.quien = y.quien
      /\ r.bloque = y.bloque
  BY <1>2, ConPc
<1> HIDE DEF r
<1>4. /\ h = Memoria => PuntoMemoria(r)
      /\ h \in Escritores => PuntoEscritor(r)
  BY <1>1, <1>2, <1>3 DEF PuntoMemoria, PuntoEscritor
<1>5. posicion' \in Nat \cup {Fin} /\ "ubica" \in Pcs
  BY <1>1 DEF TipoInv, TipoResto, Pcs
<1>6. TipoInv' /\ Solo(h, [hilo[h] EXCEPT !.pc = "ubica"])
  BY <1>1, <1>4, <1>5, SwapPc DEF r, y
<1> QED
  BY <1>1, <1>6 DEF y

LEMMA UbicarPaginaTipo ==
  ASSUME TipoInv, NEW h \in Hilos \ Nucleos, UbicarPagina(h)
  PROVE  /\ TipoInv' /\ Solo(h, [hilo[h] EXCEPT !.pc = "accede"]) /\ EnSwap
         /\ hilo[h].op \in {"LEER_SWAP", "ESCRIBIR_SWAP"} /\ posicion' = hilo[h].bloque
         /\ UNCHANGED <<bloques_libres_swap, memoria, intactos>> /\ hilo[h].pc = "ubica"
<1> DEFINE y == hilo[h]
           r == [y EXCEPT !.pc = "accede"]
<1>1. /\ hilo' = [hilo EXCEPT ![h].pc = "accede"] /\ EnSwap /\ y.pc = "ubica"
      /\ UNCHANGED <<bloques_libres_swap, memoria, intactos>> /\ posicion' = y.bloque
  BY DEF UbicarPagina, En
<1>2. /\ y \in Fichas
      /\ h = Memoria => PuntoMemoria(y)
      /\ h \in Escritores => PuntoEscritor(y)
      /\ h = Memoria \/ h \in Escritores
  BY HiloTipo, Constantes
<1> HIDE DEF y
<1>3. r.pc = "accede" /\ r.op = y.op /\ r.luego = y.luego /\ r.quien = y.quien
      /\ r.bloque = y.bloque
  BY <1>2, ConPc
<1> HIDE DEF r
<1>4. /\ h = Memoria => PuntoMemoria(r)
      /\ h \in Escritores => PuntoEscritor(r)
      /\ y.op \in {"LEER_SWAP", "ESCRIBIR_SWAP"}
  BY <1>1, <1>2, <1>3 DEF PuntoMemoria, PuntoEscritor
<1>5. posicion' \in Nat \cup {Fin} /\ "accede" \in Pcs
  BY <1>1, <1>2, FichaTipo DEF Pcs
<1>6. TipoInv' /\ Solo(h, [hilo[h] EXCEPT !.pc = "accede"])
  BY <1>1, <1>4, <1>5, SwapPc DEF r, y
<1> QED
  BY <1>1, <1>4, <1>6 DEF y

\* What the memory does with an answer.
Entregado(h) ==
  LET p == hilo[h].quien
  IN  \/ /\ hilo[h].op = "PROCESS_STARTED" /\ vivos' = vivos \cup {p}
         /\ bloques_de' = [bloques_de EXCEPT ![p] = hilo[h].tomados]
         /\ intactos' = intactos \cup hilo[h].tomados
      \/ /\ hilo[h].op = "PROCESS_FINISHED" /\ vivos' = vivos \ {p}
         /\ bloques_de' = [bloques_de EXCEPT ![p] = {}]
         /\ intactos' = intactos \ bloques_de[p]
      \/ hilo[h].op = "LEER_SWAP" /\ UNCHANGED <<vivos, bloques_de, intactos>>

LEMMA EntregarTipo ==
  ASSUME TipoInv, NEW h \in Hilos, Entregar(h)
  PROVE  /\ TipoInv' /\ Solo(h, Libre) /\ EnSwap /\ Entregado(h) /\ hilo[h].pc = "responde"
         /\ h \notin Nucleos /\ hilo[h].quien \in Procesos
         /\ hilo[h].op # "LEER_SWAP" => h = Memoria
         /\ UNCHANGED <<bloques_libres_swap, posicion>>
<1>1. /\ h \notin Nucleos /\ hilo[h].pc = "responde" /\ EnSwap
      /\ UNCHANGED <<bloques_libres_swap, posicion>> /\ hilo' = [hilo EXCEPT ![h] = Libre]
  BY DEF Entregar, En
<1>2. /\ hilo[h] \in Fichas
      /\ h = Memoria => PuntoMemoria(hilo[h])
      /\ h \in Escritores => PuntoEscritor(hilo[h])
      /\ h = Memoria \/ h \in Escritores
  BY <1>1, HiloTipo, Constantes
<1>3. /\ hilo[h].op \in {"PROCESS_STARTED", "PROCESS_FINISHED", "LEER_SWAP"}
      /\ hilo[h].op # "LEER_SWAP" => h = Memoria
      /\ hilo[h].quien \in Procesos
  BY <1>1, <1>2 DEF PuntoMemoria, PuntoEscritor
<1>4. Entregado(h)
  BY <1>3 DEF Entregar, Entregado, memoria
<1>5. hilo[h].tomados \subseteq BloquesSwap
  BY <1>2, FichaTipo
<1>6. TipoSwap'
  BY <1>1, <1>3, <1>4, <1>5 DEF Entregado, TipoInv, TipoSwap
<1>7. TipoInv' /\ Solo(h, Libre)
  BY <1>1, <1>6, SwapTipo, LibreTipo DEF TipoInv, TipoResto
<1> QED
  BY <1>1, <1>3, <1>4, <1>7

-----------------------------------------------------------------------------

LEMMA PisadoTipo ==
  ASSUME TipoInv, NEW h, SocketPisado(h) PROVE TipoInv' /\ Cae
BY CaeTipo DEF SocketPisado

\* Every step, in the groups the proofs below treat apart.
PideAlgo ==
  \E h \in Nucleos, f \in Archivos, op \in Operaciones, n \in Nat : Pide(h, op, f, n)

PasoNucleo(h) ==
  \/ Crear(h) \/ Abrir(h) \/ Truncar(h)
  \/ Fseek(h) \/ Recorrer(h) \/ Buscar(h) \/ Liberar(h)
  \/ Asignar(h) \/ Marcar(h) \/ Enganchar(h) \/ Enlazar(h) \/ Cerrar(h) \/ Cortar(h) \/ Borrar(h)
  \/ Releer(h) \/ GrabarInicial(h) \/ GrabarTamanio(h)
  \/ LeerOEscribir(h) \/ Localizar(h) \/ Hablar(h) \/ HablarConCliente(h) \/ Responder(h)
  \/ Situar(h) \/ Acceder(h) \/ Rebobinar(h)

DelNucleo ==
  PideAlgo \/ \E h \in Nucleos : PasoNucleo(h) \/ \E g \in Nucleos : MarcarJuntos(h, g)

DeLaMemoria ==
  \/ \E p \in Procesos : Arrancar(p) \/ Terminar(p)
  \/ \E p \in Procesos, b \in BloquesSwap :
       PedirPagina(p, b) \/ \E h \in Escritores : MandarPagina(h, p, b)
  \/ EmpezarReserva \/ Reservar \/ LiberarSwap \/ Rebobinar(Memoria)
  \/ \E h \in Hilos \ Nucleos :
       EmpezarPagina(h) \/ UbicarPagina(h) \/ Acceder(h) \/ Entregar(h)

LEMMA Pasos ==
  ASSUME TipoInv, Next PROVE DelNucleo \/ DeLaMemoria \/ Cae
<1>1. CASE Clientes
  <2> DEFINE A(h, f) == \/ \E op \in {"OPEN", "CREATE"} : Pide(h, op, f, 0)
                        \/ \E n \in cupo.tamanios : Pide(h, "TRUNCATE", f, n)
                        \/ \E n \in cupo.tamanios, op \in {"READ", "WRITE"} : Pide(h, op, f, n)
             B(p) == \E b \in BloquesSwap :
                       PedirPagina(p, b) \/ \E h \in Escritores : MandarPagina(h, p, b)
  <2>1. ASSUME NEW h \in Nucleos, NEW f \in Archivos, A(h, f) PROVE DelNucleo
    <3>1. cupo.tamanios \subseteq Nat /\ 0 \in Nat
      BY DEF TipoInv, TipoResto, Reparto
    <3>2. \E op \in Operaciones, n \in Nat : Pide(h, op, f, n)
      BY <2>1, <3>1 DEF Operaciones
    <3> QED
      BY <3>2 DEF DelNucleo, PideAlgo
  <2>2. ASSUME NEW p \in Procesos, Arrancar(p) \/ Terminar(p) \/ B(p) PROVE DeLaMemoria
    BY <2>2 DEF DeLaMemoria
  <2>3. \/ \E h \in Nucleos, f \in Archivos : A(h, f)
        \/ \E p \in Procesos : Arrancar(p) \/ Terminar(p) \/ B(p)
    BY <1>1 DEF Clientes
  <2> QED
    BY <2>1, <2>2, <2>3
<1>2. CASE HilosNucleo
  BY <1>2 DEF HilosNucleo, HiloNucleo, DelNucleo, PasoNucleo, SocketPisado
<1>3. CASE HiloSwap
  BY <1>3 DEF HiloSwap, HiloMemoria, DeLaMemoria, SocketPisado
<1> QED
  BY <1>1, <1>2, <1>3 DEF Next

\* What the steps of a thread of the kernel leave alone.
EnNucleo == UNCHANGED <<bloques_libres_swap, vivos, bloques_de, cupo, solos, caido, socket_cliente,
                        aislados>>

LEMMA NucleoAjeno ==
  ASSUME TipoInv, NEW h \in Nucleos, PasoNucleo(h)
  PROVE  Cae \/ EnNucleo
<1>1. Ajeno /\ UNCHANGED <<socket_cliente, aislados>> => EnNucleo
  BY DEF Ajeno, EnNucleo, memoria
<1>2. EnFcb \/ EnFat => EnNucleo
  BY DEF EnFcb, EnFat, Ajeno, EnNucleo, memoria, conexion
<1>3. CASE \/ Crear(h) \/ Abrir(h) \/ Truncar(h) \/ Fseek(h) \/ Recorrer(h) \/ Buscar(h)
           \/ Liberar(h)
  BY <1>2, <1>3 DEF Crear, Abrir, Truncar, Fseek, Recorrer, Buscar, Liberar, Leida
<1>4. CASE \/ Asignar(h) \/ Enganchar(h) \/ Enlazar(h) \/ Cerrar(h) \/ Cortar(h) \/ Borrar(h)
           \/ Releer(h) \/ GrabarInicial(h) \/ GrabarTamanio(h)
  BY <1>2, <1>4 DEF Asignar, Enganchar, Enlazar, Cerrar, Cortar, Borrar, Escrita, Releer,
     GrabarInicial, GrabarTamanio
<1>5. CASE \/ LeerOEscribir(h) \/ Localizar(h) \/ Responder(h)
  BY <1>2, <1>5 DEF LeerOEscribir, Localizar, Responder
<1>6. CASE \/ Marcar(h) \/ Hablar(h) \/ HablarConCliente(h) \/ Situar(h) \/ Rebobinar(h)
  BY <1>1, <1>6 DEF Marcar, Hablar, HablarConCliente, Situar, Rebobinar, conexion
<1>7. CASE Acceder(h)
  BY <1>7 DEF Acceder, EnNucleo, conexion, memoria
<1> QED
  BY <1>3, <1>4, <1>5, <1>6, <1>7 DEF PasoNucleo

\* The ticket of the thread that steps is the only one that changes, and its request is the same.
LEMMA NucleoPaso ==
  ASSUME TipoInv, NEW h \in Nucleos, PasoNucleo(h)
  PROVE  /\ TipoInv' /\ hilo[h].pc # "libre"
         /\ \/ Cae
            \/ Solo(h, hilo'[h]) /\ (hilo'[h] = Libre \/ Sigue(hilo[h], hilo'[h]))
<1>1. /\ hilo[h] \in Fichas /\ PuntoNucleo(hilo[h]) /\ h \in Hilos
      /\ hilo[h].op # "NINGUNA" => hilo[h].pc # "libre"
  BY NucleoEs DEF PuntoNucleo, DeTruncar, DeLeer
<1>2. ASSUME Solo(h, Libre) PROVE Solo(h, hilo'[h]) /\ hilo'[h] = Libre
  BY <1>2 DEF Solo
<1>3. CASE Crear(h) \/ Abrir(h) \/ Responder(h)
  BY <1>1, <1>2, <1>3, CrearTipo, AbrirTipo, ResponderTipo
<1>4. CASE Truncar(h)
  BY <1>4, TruncarTipo
<1>5. CASE Fseek(h)
  BY <1>5, FseekTipo DEF PasaA
<1>6. CASE Recorrer(h)
  BY <1>1, <1>6, RecorrerTipo DEF Recorrer
<1>7. CASE Buscar(h)
  BY <1>7, BuscarTipo
<1>8. CASE Liberar(h)
  BY <1>1, <1>8, LiberarTipo DEF Liberar
<1>9. CASE Asignar(h) \/ Enganchar(h) \/ Enlazar(h) \/ Cortar(h)
  BY <1>1, <1>9, AsignarTipo, EngancharTipo, EnlazarTipo, CortarTipo
<1>10. CASE Marcar(h)
  <2>1. /\ TipoInv' /\ CambiaBit(h) /\ hilo[h].op = "TRUNCATE"
        /\ Cae \/ Solo(h, TrasBit(hilo[h]))
    BY <1>10, MarcarTipo
  <2>2. Sigue(hilo[h], TrasBit(hilo[h]))
    BY <2>1, TrasBitEs
  <2>3. Cae \/ (Solo(h, hilo'[h]) /\ Sigue(hilo[h], hilo'[h]))
    BY <2>1, <2>2 DEF Solo
  <2> QED
    BY <1>1, <2>1, <2>3
<1>11. CASE Cerrar(h) \/ Borrar(h)
  BY <1>1, <1>11, CerrarTipo, BorrarTipo DEF PasaA
<1>12. CASE Releer(h) \/ GrabarInicial(h) \/ GrabarTamanio(h)
  BY <1>1, <1>12, ReleerTipo, GrabarInicialTipo, GrabarTamanioTipo
<1>13. CASE LeerOEscribir(h) \/ Localizar(h) \/ Hablar(h) \/ HablarConCliente(h)
  BY <1>1, <1>13, LeerOEscribirTipo, LocalizarTipo, HablarTipo, HablarConClienteTipo
<1>14. CASE Situar(h)
  BY <1>1, <1>14, SituarTipo
<1>15. CASE Acceder(h)
  <2>1. TipoInv' /\ Solo(h, Accedido(hilo[h])) /\ hilo[h].pc = "accede"
    BY <1>1, <1>15, AccederTipo
  <2>2. Sigue(hilo[h], Accedido(hilo[h]))
    BY <1>1, <2>1, AccedidoEs DEF Sigue, PuntoNucleo
  <2>3. hilo'[h] = Accedido(hilo[h])
    BY <2>1 DEF Solo
  <2> QED
    BY <2>1, <2>2, <2>3
<1>16. CASE Rebobinar(h)
  <2> DEFINE r == [hilo[h] EXCEPT !.pc = hilo[h].luego]
  <2>1. TipoInv' /\ Solo(h, r) /\ hilo[h].pc = "rebobina"
    BY <1>1, <1>16, RebobinarTipo
  <2>2. Sigue(hilo[h], r)
    BY <1>1, ConPc DEF Sigue
  <2>3. hilo'[h] = r
    BY <2>1 DEF Solo
  <2> QED
    BY <2>1, <2>2, <2>3
<1> QED
  BY <1>3, <1>4, <1>5, <1>6, <1>7, <1>8, <1>9, <1>10, <1>11, <1>12, <1>13, <1>14, <1>15, <1>16
  DEF PasoNucleo

LEMMA TipoPaso ==
  ASSUME TipoInv, [Next]_vars PROVE TipoInv'
<1>1. CASE UNCHANGED vars
  BY <1>1 DEF vars, archivos, memoria, conexion, TipoInv, TipoArchivos, TipoSwap, TipoResto,
     TipoConexion, Puntos
<1>2. CASE Cae
  BY <1>2, CaeTipo
<1>3. CASE DelNucleo
  BY <1>3, PideTipo, NucleoPaso, MarcarJuntosTipo DEF DelNucleo, PideAlgo
<1>4. CASE DeLaMemoria
  BY <1>4, ArrancarTipo, TerminarTipo, PedirPaginaTipo, MandarPaginaTipo, EmpezarReservaTipo,
     ReservarTipo, LiberarSwapTipo, RebobinarTipo, EmpezarPaginaTipo, UbicarPaginaTipo,
     AccederTipo, EntregarTipo DEF DeLaMemoria
<1> QED
  BY <1>1, <1>2, <1>3, <1>4, Pasos

\* The type invariant, which says more than TipoOK: where each thread can be in its request.
THEOREM TipoInvariante == Spec => []TipoInv
<1>1. Init => TipoInv
  BY TipoInicial
<1>2. TipoInv /\ [Next]_vars => TipoInv'
  BY TipoPaso
<1> QED
  BY <1>1, <1>2, PTL DEF Spec

\* Every variable of the file system keeps its type, for any number of files, processes,
\* requests in course and blocks: the bitmaps are never given a block outside them, and every
\* thread is at a point of the request it serves.
THEOREM TipoTeorema == Spec => []TipoOK
<1>1. TipoInv => TipoOK
  BY DEF TipoInv, TipoArchivos, TipoSwap, TipoResto, TipoConexion, Tablas, Puntos, Fichas, Pcs,
     Ops, Luegos, TipoOK
<1> QED
  BY <1>1, TipoInvariante, PTL

-----------------------------------------------------------------------------
(* The FAT and the FCBs, as long as every TRUNCATE is alone; y is the      *)
(* ticket of the TRUNCATE in course, or Libre if there is none.  No bit    *)
(* but that of block 0 is ever cleared, so that the blocks up to any block *)
(* in use are in use, and a block that is taken comes after all of them.   *)

Lleno(U, x) == 1 .. x \subseteq U

\* A file that grows, between its walk and actualizar_tamanio_fcb.
ConBloque(y) ==
  y.pc \in {"marca", "engancha", "enlaza"} \/ (Escribe(y) /\ y.luego = "engancha")
Creciendo(y) == y.pc = "asigna" \/ ConBloque(y) \/ (Guarda(y) /\ y.luego = "asigna")

\* A file that shrinks, in the loop that frees.
Liberando(y) ==
  y.pc \in {"libera", "lee_libera"} \/ ((Escribe(y) \/ Guarda(y)) /\ y.luego = "libera")

\* The one that has grown or shrunk, before actualizar_tamanio_fcb.
Cambiado(y) ==
  \/ y.pc \in {"ultimo", "cierra", "vuelve", "relee_tamanio", "graba_tamanio", "libera",
               "lee_libera", "limpia", "borra", "desmarca"}
  \/ Escribe(y) /\ y.luego \in {"libera", "relee_tamanio"}

\* In the middle of a TRUNCATE on it the size and the initial block of a file may disagree.
EnCurso(f, y) == y.op = "TRUNCATE" /\ y.quien = f /\ y.pc \notin {"nace", "responde"}

\* The entry where the next link goes.
Ancla(y) == IF y.anterior = Fin THEN posicion_fat ELSE y.anterior

Marcados ==
  /\ \A e \in BloquesFat \cup {Fin} : Lleno(bloques_libres_fat, fat[e])
  /\ \A f \in Archivos : /\ fcb[f].nombre /\ fcb[f].inicial # 0
                         /\ Lleno(bloques_libres_fat, fcb[f].inicial)

\* Links go forward, but for that of the block being added.
Apunta(e, y) ==
  \/ fat[e] \in {0, Fin} \/ fat[e] > e
  \/ /\ fat[e] = e /\ y.op = "TRUNCATE" /\ Lleno(bloques_libres_fat, e)
     /\ \/ Creciendo(y) /\ y.inicial # Fin /\ e = y.anterior
        \/ y.pc \in {"ultimo", "cierra"} /\ e = y.cursor

Adelante(y) == \A e \in BloquesFat \ {0} : Apunta(e, y)

Iniciales(y) ==
  /\ \A f, g \in Archivos : f # g /\ fcb[f].inicial = fcb[g].inicial => fcb[f].inicial = Fin
  /\ \A f \in Archivos : ~EnCurso(f, y) => (fcb[f].tamanio = 0 <=> fcb[f].inicial = Fin)

\* What the thread has between fseek and fread or fwrite of fat_file, and in its variables.
Situada(y) ==
  /\ y.pc \in {"lee_recorre", "corta", "lee_libera", "borra"} => posicion_fat = y.bloque
  /\ y.pc = "cierra" => posicion_fat = y.cursor
  /\ y.pc = "enlaza" => posicion_fat = Ancla(y)
  /\ y.pc \in {"nace", "recorre", "lee_recorre"} => y.anterior = Fin
  /\ y.pc \in {"recorre", "lee_recorre"} => Lleno(bloques_libres_fat, y.bloque)

\* Its next block, and the one it is linked to.
Siguiente(y) ==
  /\ Lleno(bloques_libres_fat, IF y.pc = "marca" THEN y.cursor - 1 ELSE y.cursor)
  /\ Creciendo(y) /\ y.inicial # Fin =>
       /\ Ancla(y) \in Nat \ {0} /\ Lleno(bloques_libres_fat, Ancla(y) - 1)
       /\ ConBloque(y) => Ancla(y) <= y.cursor
  /\ ConBloque(y) \/ (Guarda(y) /\ y.luego \in {"asigna", "vuelve"}) =>
       y.cursor # 0 /\ \A g \in Archivos : fcb[g].inicial # y.cursor

\* What it will leave in the FCB.
Truncando(y) ==
  /\ y.pc \in {"recorre", "lee_recorre", "enlaza"} => y.inicial # Fin
  /\ y.pc \in {"recorre", "lee_recorre"} \/ (Creciendo(y) /\ ~Guarda(y)) =>
       y.n > 0 /\ y.inicial = fcb[y.quien].inicial
  /\ Guarda(y) /\ y.luego \in {"asigna", "vuelve"} => y.n > 0 /\ y.inicial = y.cursor
  /\ Guarda(y) /\ y.luego \in {"libera", "relee_tamanio"} => y.n = 0 /\ y.inicial = Fin
  /\ y.pc \in {"busca", "lee_busca", "encuentra", "corta"} /\ y.n > 0 => fcb[y.quien].inicial # Fin
  /\ Cambiado(y) => (y.n = 0 <=> fcb[y.quien].inicial = Fin)
  /\ y.pc \in {"graba_inicial", "graba_tamanio"} => y.copia = fcb[y.quien]

\* The chain it frees is never longer than an entry.
Cola(y) ==
  /\ Liberando(y) => fat[y.bloque] \in {0, Fin}
  /\ y.pc \in {"limpia", "borra", "desmarca"} => y.bloque \in {0, Fin}
  /\ y.pc = "desmarca" => fat[y.bloque] = 0

Local(y) == y.op = "TRUNCATE" => Situada(y) /\ Siguiente(y) /\ Truncando(y) /\ Cola(y)

FatInv(y) == Marcados /\ Adelante(y) /\ Iniciales(y) /\ Local(y)

\* No CREATE or TRUNCATE has another request of the kernel beside it.
Exclusivos ==
  \A g, h \in Nucleos : g # h /\ Activo(g) /\ Activo(h) => hilo[g].op \notin {"CREATE", "TRUNCATE"}

ArchivosInv ==
  solos => /\ Exclusivos
           /\ \A h \in Nucleos : hilo[h].op = "TRUNCATE" => FatInv(hilo[h])
           /\ (\A h \in Nucleos : hilo[h].op # "TRUNCATE") => FatInv(Libre)

LEMMA LlenoBase ==
  ASSUME NEW U PROVE Lleno(U, 0) /\ Lleno(U, Fin)
BY DEF Lleno, Fin

LEMMA LlenoMas ==
  ASSUME NEW U, NEW V, U \ {0} \subseteq V, NEW x \in Int, Lleno(U, x) PROVE Lleno(V, x)
BY DEF Lleno

LEMMA LlenoTiene ==
  ASSUME NEW U, NEW x \in Nat \ {0}, Lleno(U, x) PROVE x \in U
BY DEF Lleno

LEMMA LlenoAntes ==
  ASSUME NEW U, NEW x \in Nat, Lleno(U, x) PROVE Lleno(U, x - 1)
BY DEF Lleno

LEMMA LlenoOtro ==
  ASSUME NEW U, NEW x \in Nat, Lleno(U, x), x + 1 \in U PROVE Lleno(U, x + 1)
BY DEF Lleno

\* A block that is not in use comes after every block up to which all are.
LEMMA LlenoHasta ==
  ASSUME NEW U, NEW a \in Nat, NEW m \in Nat \ {0}, Lleno(U, a), m \notin U PROVE a + 1 <= m
<1>1. ASSUME m <= a PROVE FALSE
  <2>1. m \in 1 .. a
    BY <1>1
  <2> QED
    BY <2>1 DEF Lleno
<1> QED
  BY <1>1

\* The types of what the invariant speaks of.
LEMMA FatTipos ==
  ASSUME TipoInv, Marcados
  PROVE  /\ \A e \in BloquesFat \cup {Fin} : fat[e] \in BloquesFat \cup {Fin} /\ fat[e] \in Int
         /\ \A f \in Archivos : /\ fcb[f].tamanio \in Nat /\ fcb[f].inicial \in BloquesFat \cup {Fin}
                                /\ fcb[f].inicial \in Int
         /\ BloquesFat \cup {Fin} \subseteq Int
<1>1. \A e \in BloquesFat \cup {Fin} : fat[e] \in BloquesFat \cup {Fin}
  BY DEF TipoInv, TipoArchivos, Tablas
<1>2. \A f \in Archivos : fcb[f].tamanio \in Nat /\ fcb[f].inicial \in BloquesFat \cup {Fin}
  BY FcbTipos DEF Marcados, TipoInv, TipoArchivos
<1>3. BloquesFat \cup {Fin} \subseteq Int
  BY Constantes
<1> QED
  BY <1>1, <1>2, <1>3

LEMMA MarcadosIgual ==
  ASSUME Marcados, UNCHANGED archivos PROVE Marcados'
BY DEF Marcados, archivos

LEMMA MarcadosMas ==
  ASSUME TipoInv, Marcados, UNCHANGED <<fcb, fat>>,
         bloques_libres_fat \ {0} \subseteq bloques_libres_fat'
  PROVE  Marcados'
<1>1. \A e \in BloquesFat \cup {Fin} : fat[e] \in Int /\ Lleno(bloques_libres_fat, fat[e])
  BY FatTipos DEF Marcados
<1>2. \A f \in Archivos : fcb[f].inicial \in Int /\ Lleno(bloques_libres_fat, fcb[f].inicial)
  BY FatTipos DEF Marcados
<1> QED
  BY <1>1, <1>2, LlenoMas DEF Marcados

\* Where nothing that the links depend on changes.
LEMMA AdelanteIgual ==
  ASSUME NEW y, NEW z, Adelante(y), UNCHANGED fat, z.op = y.op,
         bloques_libres_fat \ {0} \subseteq bloques_libres_fat',
         Creciendo(y) /\ y.inicial # Fin =>
           Creciendo(z) /\ z.anterior = y.anterior /\ z.inicial # Fin,
         y.pc \in {"ultimo", "cierra"} => z.pc \in {"ultimo", "cierra"} /\ z.cursor = y.cursor
  PROVE  Adelante(z)'
<1>1. \A e \in BloquesFat : Lleno(bloques_libres_fat, e) => Lleno(bloques_libres_fat', e)
  BY Constantes, LlenoMas
<1> QED
  BY <1>1 DEF Adelante, Apunta

LEMMA InicialesIgual ==
  ASSUME NEW y, NEW z, Iniciales(y), UNCHANGED fcb, z.op = y.op, z.quien = y.quien,
         z.pc \notin {"nace", "responde"}
  PROVE  Iniciales(z)'
BY DEF Iniciales, EnCurso

LEMMA TruncarFat ==
  ASSUME TipoInv, NEW h \in Nucleos, NEW y, NEW z, y = hilo[h], z = hilo'[h], FatInv(y),
         Truncar(h), ~Cae, Leidos(h) = {fcb[hilo[h].quien]}
  PROVE  FatInv(z)'
<1> DEFINE c == fcb[y.quien]
<1>1. /\ y.pc = "nace" /\ y.op = "TRUNCATE" /\ y.quien \in Archivos /\ Sigue(y, z)
      /\ UNCHANGED <<archivos, posicion_fat>>
      /\ z.cursor = y.cursor /\ z.anterior = y.anterior /\ z.inicial = c.inicial
      /\ z.bloque = c.inicial /\ z.pc = PcTruncado(c, y.n) /\ y.n \in Nat
  BY TruncarTipo, NucleoEs, FichaTipo
<1>2. z.op = "TRUNCATE" /\ z.quien = y.quien /\ z.n = y.n /\ z.anterior = y.anterior
  BY <1>1 DEF Sigue
<1>3. c.tamanio \in Nat /\ c.inicial \in Int /\ c.inicial \in BloquesFat \cup {Fin}
      /\ c.inicial # 0 /\ Lleno(bloques_libres_fat, c.inicial)
      /\ (c.tamanio = 0 <=> c.inicial = Fin)
  BY <1>1, FatTipos DEF FatInv, Marcados, Iniciales, EnCurso
<1>4. /\ z.pc \in {"recorre", "asigna", "busca", "encuentra"}
      /\ z.pc = "recorre" => c.inicial # Fin
      /\ z.pc = "asigna" => c.inicial = Fin
      /\ z.pc \in {"recorre", "asigna"} => y.n > 0
      /\ z.pc \in {"busca", "encuentra"} /\ y.n > 0 => c.inicial # Fin
  <2>1. PICK t \in Nat, n \in Nat, i \in Int : t = c.tamanio /\ n = y.n /\ i = c.inicial
    BY <1>1, <1>3
  <2>2. i = Fin \/ i \in Nat
    BY <1>3, <2>1, Constantes
  <2>3. /\ t < n => z.pc = IF i > 0 THEN "recorre" ELSE "asigna"
        /\ ~(t < n) => z.pc \in {"busca", "encuentra"}
    BY <1>1, <2>1 DEF PcTruncado
  <2> HIDE DEF c
  <2> QED
    BY <1>3, <2>1, <2>2, <2>3 DEF Fin
<1>5. /\ ~ConBloque(z) /\ ~Guarda(z) /\ ~Escribe(z) /\ ~Liberando(z) /\ ~Cambiado(z)
      /\ ~Creciendo(y) /\ (Creciendo(z) => z.pc = "asigna")
  BY <1>1, <1>4 DEF ConBloque, Guarda, Escribe, Liberando, Cambiado, Creciendo
<1>6. Marcados'
  BY <1>1, MarcadosIgual DEF FatInv
<1>7. Adelante(z)'
  BY <1>1, <1>2, <1>5, AdelanteIgual DEF FatInv, archivos
<1>8. Iniciales(z)'
  BY <1>1, <1>2, <1>4, InicialesIgual DEF FatInv, archivos
<1>9. Situada(z)'
  BY <1>1, <1>2, <1>3, <1>4 DEF FatInv, Local, Situada, archivos
<1>10. Siguiente(z)'
  BY <1>1, <1>2, <1>4, <1>5 DEF FatInv, Local, Siguiente, archivos
<1>11. Truncando(z)'
  BY <1>1, <1>2, <1>4, <1>5 DEF Truncando, archivos
<1>12. Cola(z)'
  BY <1>4, <1>5 DEF Cola
<1> QED
  BY <1>6, <1>7, <1>8, <1>9, <1>10, <1>11, <1>12 DEF FatInv, Local

LEMMA FseekFat ==
  ASSUME TipoInv, NEW h \in Nucleos, NEW y, NEW z, y = hilo[h], z = hilo'[h], FatInv(y),
         Fseek(h), y.op = "TRUNCATE"
  PROVE  FatInv(z)'
<1>1. /\ Sigue(y, z) /\ z.pc = TrasFseek(y.pc) /\ z.luego = y.luego /\ z.inicial = y.inicial
      /\ z.bloque = y.bloque /\ z.anterior = y.anterior /\ z.cursor = y.cursor
      /\ z.copia = y.copia /\ UNCHANGED archivos /\ posicion_fat' = Destino(y)
      /\ y.pc \in {"recorre", "busca", "encuentra", "libera", "limpia", "ultimo", "vuelve"}
  BY FseekTipo DEF PasaA
<1>2. z.op = "TRUNCATE" /\ z.quien = y.quien /\ z.n = y.n
  BY <1>1 DEF Sigue
<1>3. /\ y.pc = "recorre" => z.pc = "lee_recorre" /\ posicion_fat' = y.bloque
      /\ y.pc = "busca" => z.pc = "lee_busca"
      /\ y.pc = "encuentra" => z.pc = "corta" /\ posicion_fat' = y.bloque
      /\ y.pc = "libera" => z.pc = "lee_libera" /\ posicion_fat' = y.bloque
      /\ y.pc = "limpia" => z.pc = "borra" /\ posicion_fat' = y.bloque
      /\ y.pc = "ultimo" => z.pc = "cierra" /\ posicion_fat' = y.cursor
      /\ y.pc = "vuelve" => z.pc = "relee_tamanio"
  <2>1. CASE y.pc = "recorre"
    BY <1>1, <2>1 DEF TrasFseek, Destino
  <2>2. CASE y.pc = "busca"
    BY <1>1, <2>2 DEF TrasFseek, Destino
  <2>3. CASE y.pc = "encuentra"
    BY <1>1, <2>3 DEF TrasFseek, Destino
  <2>4. CASE y.pc = "libera"
    BY <1>1, <2>4 DEF TrasFseek, Destino
  <2>5. CASE y.pc = "limpia"
    BY <1>1, <2>5 DEF TrasFseek, Destino
  <2>6. CASE y.pc = "ultimo"
    BY <1>1, <2>6 DEF TrasFseek, Destino
  <2>7. CASE y.pc = "vuelve"
    BY <1>1, <2>7 DEF TrasFseek, Destino
  <2> QED
    BY <1>1, <2>1, <2>2, <2>3, <2>4, <2>5, <2>6, <2>7
<1>4. /\ ~ConBloque(z) /\ ~Guarda(z) /\ ~Escribe(z) /\ ~Creciendo(z) /\ ~Creciendo(y)
      /\ (Liberando(z) => Liberando(y)) /\ (Cambiado(z) => Cambiado(y)) /\ ~Guarda(y)
  BY <1>1, <1>3 DEF ConBloque, Guarda, Escribe, Liberando, Cambiado, Creciendo
<1>5. Marcados'
  BY <1>1, MarcadosIgual DEF FatInv
<1>6. Adelante(z)'
  BY <1>1, <1>2, <1>3, <1>4, AdelanteIgual DEF FatInv, archivos
<1>7. Iniciales(z)'
  BY <1>1, <1>2, <1>3, InicialesIgual DEF FatInv, archivos
<1>8. Situada(z)'
  BY <1>1, <1>2, <1>3 DEF FatInv, Local, Situada, archivos
<1>9. Siguiente(z)'
  BY <1>1, <1>2, <1>3, <1>4 DEF FatInv, Local, Siguiente, archivos
<1>10. Truncando(z)'
  BY <1>1, <1>2, <1>3, <1>4 DEF FatInv, Local, Truncando, archivos
<1>11. Cola(z)'
  BY <1>1, <1>2, <1>3, <1>4 DEF FatInv, Local, Cola, archivos
<1> QED
  BY <1>5, <1>6, <1>7, <1>8, <1>9, <1>10, <1>11 DEF FatInv, Local

LEMMA RecorrerFat ==
  ASSUME TipoInv, NEW h \in Nucleos, NEW y, NEW z, y = hilo[h], z = hilo'[h], FatInv(y),
         Recorrer(h)
  PROVE  FatInv(z)'
<1>1. PICK v \in BloquesFat \cup {Fin} :
        /\ Leida(h, "lee_recorre", v)
        /\ hilo' = [hilo EXCEPT ![h].bloque = v, ![h].pc = IF v = Fin THEN "asigna" ELSE "recorre"]
  BY DEF Recorrer
<1>2. /\ Sigue(y, z) /\ z.pc = (IF v = Fin THEN "asigna" ELSE "recorre")
      /\ z.bloque = v /\ z.inicial = y.inicial /\ z.anterior = y.anterior
      /\ z.cursor = y.cursor /\ y.op = "TRUNCATE" /\ y.bloque \in BloquesFat
  BY <1>1, RecorrerTipo
<1>3. /\ y.pc = "lee_recorre" /\ posicion_fat' = Avanzada /\ UNCHANGED archivos
      /\ posicion_fat \in BloquesFat \cup {Fin} => v = fat[posicion_fat]
  BY <1>1, LeidaTipo
<1>4. z.op = "TRUNCATE" /\ z.quien = y.quien /\ z.n = y.n
  BY <1>2 DEF Sigue
<1>5. /\ posicion_fat = y.bloque /\ y.anterior = Fin /\ Lleno(bloques_libres_fat, y.bloque)
      /\ v = fat[y.bloque] /\ Lleno(bloques_libres_fat, v)
  BY <1>2, <1>3 DEF FatInv, Local, Situada, Marcados
<1>6. PICK k \in Nat : k = y.bloque /\ k # Fin
  BY <1>2, Constantes
<1>7. posicion_fat' = k + 1 /\ k + 1 \in Nat \ {0} /\ (k + 1) - 1 = k
  BY <1>3, <1>5, <1>6 DEF Avanzada
<1>8. /\ ~ConBloque(z) /\ ~Guarda(z) /\ ~Escribe(z) /\ ~Liberando(z) /\ ~Cambiado(z)
      /\ ~Creciendo(y) /\ (Creciendo(z) => z.pc = "asigna")
  BY <1>2, <1>3 DEF ConBloque, Guarda, Escribe, Liberando, Cambiado, Creciendo
<1>9. Marcados'
  BY <1>3, MarcadosIgual DEF FatInv
<1>10. Adelante(z)'
  BY <1>2, <1>3, <1>4, <1>8, AdelanteIgual DEF FatInv, archivos
<1>11. Iniciales(z)'
  BY <1>2, <1>3, <1>4, InicialesIgual DEF FatInv, archivos
<1>12. Situada(z)'
  BY <1>2, <1>3, <1>4, <1>5 DEF Situada, archivos
<1>13. Siguiente(z)'
  <2>1. Lleno(bloques_libres_fat', z.cursor) /\ z.pc # "marca"
    BY <1>2, <1>3 DEF FatInv, Local, Siguiente, archivos
  <2>2. Ancla(z)' = k + 1 /\ Lleno(bloques_libres_fat', (k + 1) - 1)
    BY <1>2, <1>3, <1>5, <1>6, <1>7 DEF Ancla, archivos
  <2> QED
    BY <1>7, <1>8, <2>1, <2>2 DEF Siguiente
<1>14. Truncando(z)'
  BY <1>2, <1>3, <1>4, <1>8 DEF FatInv, Local, Truncando, archivos
<1>15. Cola(z)'
  BY <1>2, <1>8 DEF Cola
<1> QED
  BY <1>9, <1>10, <1>11, <1>12, <1>13, <1>14, <1>15 DEF FatInv, Local

LEMMA BuscarFat ==
  ASSUME TipoInv, NEW h \in Nucleos, NEW y, NEW z, y = hilo[h], z = hilo'[h], FatInv(y),
         Buscar(h), y.op = "TRUNCATE"
  PROVE  FatInv(z)'
<1>1. /\ Sigue(y, z) /\ z.inicial = y.inicial /\ z.anterior = y.anterior /\ z.cursor = y.cursor
      /\ y.pc = "lee_busca" /\ z.pc \in {"busca", "encuentra"} /\ UNCHANGED archivos
  BY BuscarTipo
<1>2. z.op = "TRUNCATE" /\ z.quien = y.quien /\ z.n = y.n
  BY <1>1 DEF Sigue
<1>3. /\ ~ConBloque(z) /\ ~Guarda(z) /\ ~Escribe(z) /\ ~Creciendo(z) /\ ~Creciendo(y)
      /\ ~Liberando(z) /\ ~Cambiado(z)
  BY <1>1 DEF ConBloque, Guarda, Escribe, Liberando, Cambiado, Creciendo
<1>4. Marcados'
  BY <1>1, MarcadosIgual DEF FatInv
<1>5. Adelante(z)'
  BY <1>1, <1>2, <1>3, AdelanteIgual DEF FatInv, archivos
<1>6. Iniciales(z)'
  BY <1>1, <1>2, InicialesIgual DEF FatInv, archivos
<1>7. Situada(z)'
  BY <1>1 DEF Situada
<1>8. Siguiente(z)'
  BY <1>1, <1>2, <1>3 DEF FatInv, Local, Siguiente, archivos
<1>9. Truncando(z)'
  BY <1>1, <1>2, <1>3 DEF FatInv, Local, Truncando, archivos
<1>10. Cola(z)'
  BY <1>1, <1>3 DEF Cola
<1> QED
  BY <1>4, <1>5, <1>6, <1>7, <1>8, <1>9, <1>10 DEF FatInv, Local

LEMMA LiberarFat ==
  ASSUME TipoInv, NEW h \in Nucleos, NEW y, NEW z, y = hilo[h], z = hilo'[h], FatInv(y),
         Liberar(h)
  PROVE  FatInv(z)'
<1>1. PICK v \in BloquesFat \cup {Fin} :
        Leida(h, "lee_libera", v) /\ hilo' = [hilo EXCEPT ![h].bloque = v, ![h].pc = "limpia"]
  BY DEF Liberar
<1>2. /\ Sigue(y, z) /\ z.pc = "limpia" /\ z.bloque = v /\ z.inicial = y.inicial
      /\ z.anterior = y.anterior /\ z.cursor = y.cursor /\ y.op = "TRUNCATE"
      /\ y.bloque \in BloquesFat \cup {Fin}
  BY <1>1, LiberarTipo
<1>3. /\ y.pc = "lee_libera" /\ UNCHANGED archivos
      /\ posicion_fat \in BloquesFat \cup {Fin} => v = fat[posicion_fat]
  BY <1>1, LeidaTipo
<1>4. z.op = "TRUNCATE" /\ z.quien = y.quien /\ z.n = y.n
  BY <1>2 DEF Sigue
<1>5. /\ ~ConBloque(z) /\ ~Guarda(z) /\ ~Escribe(z) /\ ~Creciendo(z) /\ ~Creciendo(y)
      /\ ~Liberando(z) /\ Liberando(y) /\ Cambiado(y)
  BY <1>2, <1>3 DEF ConBloque, Guarda, Escribe, Liberando, Cambiado, Creciendo
<1>6. z.bloque \in {0, Fin}
  BY <1>2, <1>3, <1>5 DEF FatInv, Local, Situada, Cola
<1>7. Marcados'
  BY <1>3, MarcadosIgual DEF FatInv
<1>8. Adelante(z)'
  BY <1>2, <1>3, <1>4, <1>5, AdelanteIgual DEF FatInv, archivos
<1>9. Iniciales(z)'
  BY <1>2, <1>3, <1>4, InicialesIgual DEF FatInv, archivos
<1>10. Situada(z)'
  BY <1>2 DEF Situada
<1>11. Siguiente(z)'
  BY <1>2, <1>3, <1>4, <1>5 DEF FatInv, Local, Siguiente, archivos
<1>12. Truncando(z)'
  BY <1>2, <1>3, <1>4, <1>5 DEF FatInv, Local, Truncando, archivos
<1>13. Cola(z)'
  BY <1>2, <1>5, <1>6 DEF Cola
<1> QED
  BY <1>7, <1>8, <1>9, <1>10, <1>11, <1>12, <1>13 DEF FatInv, Local

LEMMA AsignarFat ==
  ASSUME TipoInv, NEW h \in Nucleos, NEW y, NEW z, y = hilo[h], z = hilo'[h], FatInv(y),
         Asignar(h), ~Cae
  PROVE  FatInv(z)'
<1>1. /\ y.op = "TRUNCATE" /\ y.pc = "asigna" /\ UNCHANGED <<archivos, posicion_fat>>
      /\ Sigue(y, z) /\ z.inicial = y.inicial /\ z.anterior = y.anterior
      /\ z.cursor = y.cursor + 1 /\ z.cursor \in BloquesFat
      /\ z.pc = (IF y.cursor + 1 \in bloques_libres_fat THEN "asigna" ELSE "marca")
  BY AsignarTipo
<1>2. z.op = "TRUNCATE" /\ z.quien = y.quien /\ z.n = y.n /\ z.pc \in {"asigna", "marca"}
  BY <1>1 DEF Sigue
<1>3. y.cursor \in Nat
  BY NucleoEs, FichaTipo
<1>4. /\ ~Guarda(z) /\ ~Guarda(y) /\ ~Escribe(z) /\ Creciendo(z) /\ Creciendo(y)
      /\ ~Liberando(z) /\ ~Cambiado(z) /\ (ConBloque(z) <=> z.pc = "marca")
  BY <1>1, <1>2 DEF ConBloque, Guarda, Escribe, Liberando, Cambiado, Creciendo
<1>5. PICK k \in Nat : k = y.cursor
  BY <1>3
<1>6. /\ z.cursor = k + 1 /\ k + 1 \in Nat \ {0} /\ (k + 1) - 1 = k
      /\ Lleno(bloques_libres_fat, k)
      /\ z.pc = "marca" => k + 1 \notin bloques_libres_fat
      /\ z.pc = "asigna" => k + 1 \in bloques_libres_fat
  BY <1>1, <1>5 DEF FatInv, Local, Siguiente
<1>7. Marcados'
  BY <1>1, MarcadosIgual DEF FatInv
<1>8. Adelante(z)'
  BY <1>1, <1>2, <1>4, AdelanteIgual DEF FatInv, archivos
<1>9. Iniciales(z)'
  BY <1>1, <1>2, InicialesIgual DEF FatInv, archivos
<1>10. Situada(z)'
  BY <1>2 DEF Situada
<1>11. Siguiente(z)'
  <2>1. Lleno(bloques_libres_fat, IF z.pc = "marca" THEN z.cursor - 1 ELSE z.cursor)
    BY <1>2, <1>6, LlenoOtro
  <2>2. ASSUME y.inicial # Fin
        PROVE  /\ Ancla(y) \in Nat \ {0} /\ Lleno(bloques_libres_fat, Ancla(y) - 1)
               /\ z.pc = "marca" => Ancla(y) <= z.cursor
    <3>1. Ancla(y) \in Nat \ {0} /\ Lleno(bloques_libres_fat, Ancla(y) - 1)
      BY <1>1, <1>4, <2>2 DEF FatInv, Local, Siguiente
    <3>2. PICK a \in Nat \ {0} : a = Ancla(y)
      BY <3>1
    <3>3. a - 1 \in Nat /\ (a - 1) + 1 = a
      BY <3>2
    <3>4. ASSUME z.pc = "marca" PROVE a <= k + 1
      BY <1>6, <3>1, <3>2, <3>3, <3>4, LlenoHasta
    <3> QED
      BY <1>6, <3>1, <3>2, <3>4
  <2>3. ASSUME z.pc = "marca" PROVE z.cursor # 0 /\ \A g \in Archivos : fcb[g].inicial # z.cursor
    <3>1. \A g \in Archivos : Lleno(bloques_libres_fat, fcb[g].inicial)
      BY DEF FatInv, Marcados
    <3> QED
      BY <1>6, <2>3, <3>1, LlenoTiene
  <2>4. /\ z.inicial = y.inicial /\ Ancla(z)' = Ancla(y)
        /\ bloques_libres_fat' = bloques_libres_fat /\ fcb' = fcb
    BY <1>1 DEF Ancla, archivos
  <2> QED
    BY <1>4, <2>1, <2>2, <2>3, <2>4 DEF Siguiente
<1>12. Truncando(z)'
  BY <1>1, <1>2, <1>4 DEF FatInv, Local, Truncando, archivos
<1>13. Cola(z)'
  BY <1>2, <1>4 DEF Cola
<1> QED
  BY <1>7, <1>8, <1>9, <1>10, <1>11, <1>12, <1>13 DEF FatInv, Local

LEMMA MarcarFat ==
  ASSUME TipoInv, NEW h \in Nucleos, NEW y, NEW z, y = hilo[h], z = hilo'[h], FatInv(y),
         Marcar(h), ~Cae
  PROVE  FatInv(z)'
<1>1. /\ CambiaBit(h) /\ z = TrasBit(y) /\ bloques_libres_fat' = Bits(h)
      /\ UNCHANGED <<fcb, fat, posicion_fat>>
  BY MarcarTipo DEF Solo
<1>2. /\ Sigue(y, z) /\ z.pc = "situa" /\ z.inicial = y.inicial /\ z.anterior = y.anterior
      /\ z.cursor = y.cursor /\ y.op = "TRUNCATE" /\ y.bloque \in BloquesFat \cup {Fin}
      /\ y.cursor \in BloquesFat /\ y.pc \in {"marca", "desmarca"}
      /\ y.pc = "marca" => z.luego = "engancha"
      /\ y.pc = "desmarca" => z.luego \in {"relee_tamanio", "libera"} /\ z.bloque = y.bloque
  BY <1>1, TrasBitEs DEF CambiaBit
<1>3. z.op = "TRUNCATE" /\ z.quien = y.quien /\ z.n = y.n
  BY <1>2 DEF Sigue
<1>4. /\ ~Guarda(z) /\ Escribe(z) /\ ~Guarda(y)
      /\ y.pc = "marca" => /\ ConBloque(y) /\ ConBloque(z) /\ Creciendo(y) /\ Creciendo(z)
                           /\ ~Liberando(z) /\ ~Cambiado(z)
      /\ y.pc = "desmarca" => /\ ~ConBloque(z) /\ ~Creciendo(z) /\ ~Creciendo(y) /\ Cambiado(y)
  BY <1>2 DEF ConBloque, Guarda, Escribe, Liberando, Cambiado, Creciendo
<1>5. /\ bloques_libres_fat \ {0} \subseteq bloques_libres_fat'
      /\ y.pc = "marca" => y.cursor \in bloques_libres_fat'
  <2>1. bloques_libres_fat \subseteq BloquesFat /\ Fin \notin BloquesFat
    BY Constantes DEF TipoInv, TipoArchivos
  <2>2. y.pc = "desmarca" => y.bloque \in {0, Fin}
    BY <1>2 DEF FatInv, Local, Cola
  <2> QED
    BY <1>1, <1>2, <2>1, <2>2 DEF Bits, En
<1>6. Marcados'
  BY <1>1, <1>5, MarcadosMas DEF FatInv
<1>7. Adelante(z)'
  BY <1>1, <1>2, <1>3, <1>4, <1>5, AdelanteIgual DEF FatInv
<1>8. Iniciales(z)'
  BY <1>1, <1>2, <1>3, InicialesIgual DEF FatInv
<1>9. Situada(z)'
  BY <1>2 DEF Situada
<1>10. Siguiente(z)'
  <2>1. PICK k \in Nat : k = y.cursor
    BY <1>2, Constantes
  <2>2. CASE y.pc = "marca"
    <3>1. /\ Lleno(bloques_libres_fat, k - 1) /\ k # 0 /\ \A g \in Archivos : fcb[g].inicial # k
          /\ y.inicial # Fin => /\ Ancla(y) \in Nat \ {0}
                                /\ Lleno(bloques_libres_fat, Ancla(y) - 1) /\ Ancla(y) <= k
      BY <1>2, <1>4, <2>1, <2>2 DEF FatInv, Local, Siguiente
    <3>2. PICK m \in Nat : m = k - 1 /\ m + 1 = k
      BY <3>1
    <3>3. Lleno(bloques_libres_fat', k)
      <4>1. Lleno(bloques_libres_fat', m) /\ m + 1 \in bloques_libres_fat'
        BY <1>5, <2>1, <2>2, <3>1, <3>2, LlenoMas
      <4> QED
        BY <3>2, <4>1, LlenoOtro
    <3>4. y.inicial # Fin => Lleno(bloques_libres_fat', Ancla(y) - 1)
      <4>1. ASSUME y.inicial # Fin PROVE Ancla(y) - 1 \in Int
        BY <3>1, <4>1
      <4> QED
        BY <1>5, <3>1, <4>1, LlenoMas
    <3>5. Ancla(z)' = Ancla(y)
      BY <1>1, <1>2 DEF Ancla
    <3> QED
      BY <1>1, <1>2, <1>4, <2>1, <2>2, <3>1, <3>3, <3>4, <3>5 DEF Siguiente
  <2>3. CASE y.pc = "desmarca"
    <3>1. Lleno(bloques_libres_fat, k)
      BY <1>2, <2>1, <2>3 DEF FatInv, Local, Siguiente
    <3>2. Lleno(bloques_libres_fat', k)
      BY <1>5, <3>1, LlenoMas
    <3> QED
      BY <1>2, <1>4, <2>1, <2>3, <3>2 DEF Siguiente
  <2> QED
    BY <1>2, <2>2, <2>3
<1>11. Truncando(z)'
  BY <1>1, <1>2, <1>3, <1>4 DEF FatInv, Local, Truncando
<1>12. Cola(z)'
  BY <1>1, <1>2, <1>4 DEF FatInv, Local, Cola
<1> QED
  BY <1>6, <1>7, <1>8, <1>9, <1>10, <1>11, <1>12 DEF FatInv, Local

LEMMA EngancharFat ==
  ASSUME TipoInv, NEW h \in Nucleos, NEW y, NEW z, y = hilo[h], z = hilo'[h], FatInv(y),
         Enganchar(h)
  PROVE  FatInv(z)'
<1>1. /\ Sigue(y, z) /\ UNCHANGED archivos /\ y.op = "TRUNCATE" /\ y.pc = "engancha"
      /\ z.cursor = y.cursor
      /\ y.inicial = Fin => /\ z.pc = "relee_inicial" /\ z.luego \in {"vuelve", "asigna"}
                            /\ z.inicial = y.cursor /\ z.anterior = y.cursor
      /\ y.inicial # Fin => /\ z.pc = "enlaza" /\ z.inicial = y.inicial /\ z.anterior = y.anterior
                            /\ posicion_fat' = Ancla(y)
  BY EngancharTipo DEF PasaA, Ancla
<1>2. z.op = "TRUNCATE" /\ z.quien = y.quien /\ z.n = y.n
  BY <1>1 DEF Sigue
<1>3. PICK k \in Nat : k = y.cursor /\ k # Fin /\ z.cursor = k
  BY <1>1, NucleoEs, FichaTipo, Constantes
<1>4. ConBloque(y) /\ Creciendo(y) /\ ~Guarda(y) /\ ~Liberando(z) /\ ~Cambiado(z) /\ ~Escribe(z)
  BY <1>1 DEF ConBloque, Guarda, Escribe, Liberando, Cambiado, Creciendo
<1>5. /\ k # 0 /\ Lleno(bloques_libres_fat, k) /\ \A g \in Archivos : fcb[g].inicial # k
      /\ y.n > 0 /\ y.inicial = fcb[y.quien].inicial
  BY <1>1, <1>3, <1>4 DEF FatInv, Local, Siguiente, Truncando
<1>6. y.inicial # Fin => ConBloque(z) /\ Creciendo(z) /\ ~Guarda(z)
  BY <1>1 DEF ConBloque, Guarda, Creciendo
<1>7. y.inicial = Fin => ~ConBloque(z) /\ Guarda(z)
  BY <1>1, <1>4 DEF ConBloque, Guarda
<1>8. Marcados'
  BY <1>1, MarcadosIgual DEF FatInv
<1>9. Adelante(z)'
  BY <1>1, <1>2, <1>6, AdelanteIgual DEF FatInv, archivos
<1>10. Iniciales(z)'
  BY <1>1, <1>2, InicialesIgual DEF FatInv, archivos
<1>11. Ancla(z)' = IF y.inicial = Fin THEN k ELSE Ancla(y)
  BY <1>1, <1>3 DEF Ancla
<1>12. Situada(z)'
  BY <1>1, <1>11 DEF Situada
<1>13. Siguiente(z)'
  <2>1. Lleno(bloques_libres_fat, k - 1) /\ k \in Nat \ {0}
    BY <1>5, LlenoAntes
  <2>2. y.inicial # Fin => /\ Ancla(y) \in Nat \ {0} /\ Lleno(bloques_libres_fat, Ancla(y) - 1)
                           /\ Ancla(y) <= k
    BY <1>1, <1>3, <1>4 DEF FatInv, Local, Siguiente
  <2>3. /\ Ancla(z)' \in Nat \ {0} /\ Lleno(bloques_libres_fat', Ancla(z)' - 1)
        /\ y.inicial # Fin => Ancla(z)' <= z.cursor
    BY <1>1, <1>3, <1>11, <2>1, <2>2 DEF archivos
  <2>4. z.cursor # 0 /\ Lleno(bloques_libres_fat', z.cursor)
        /\ \A g \in Archivos : fcb'[g].inicial # z.cursor
    BY <1>1, <1>3, <1>5 DEF archivos
  <2> QED
    BY <1>1, <1>7, <2>3, <2>4 DEF Siguiente
<1>14. Truncando(z)'
  BY <1>1, <1>2, <1>3, <1>4, <1>5, <1>6, <1>7 DEF Truncando, archivos
<1>15. Cola(z)'
  BY <1>1, <1>4 DEF Cola
<1> QED
  BY <1>8, <1>9, <1>10, <1>12, <1>13, <1>14, <1>15 DEF FatInv, Local

\* An entry is written.
LEMMA MarcadosEscrito ==
  ASSUME TipoInv, Marcados, NEW v \in BloquesFat \cup {Fin}, fat' = Anota(fat, posicion_fat, v),
         UNCHANGED <<fcb, bloques_libres_fat>>, Lleno(bloques_libres_fat, v)
  PROVE  /\ Marcados'
         /\ \A e \in BloquesFat \cup {Fin} : fat'[e] = IF e = posicion_fat THEN v ELSE fat[e]
<1>1. \A e \in BloquesFat \cup {Fin} : fat'[e] = IF e = posicion_fat THEN v ELSE fat[e]
  BY AnotaTipo DEF TipoInv, TipoArchivos
<1> QED
  BY <1>1 DEF Marcados

LEMMA EnlazarFat ==
  ASSUME TipoInv, NEW h \in Nucleos, NEW y, NEW z, y = hilo[h], z = hilo'[h], FatInv(y),
         Enlazar(h)
  PROVE  FatInv(z)'
<1>1. /\ Sigue(y, z) /\ UNCHANGED <<fcb, bloques_libres_fat>> /\ y.op = "TRUNCATE"
      /\ y.pc = "enlaza" /\ fat' = Anota(fat, posicion_fat, y.cursor)
      /\ z.cursor = y.cursor /\ z.inicial = y.inicial /\ z.pc \in {"ultimo", "asigna"}
      /\ z.pc = "asigna" => z.anterior = y.cursor
  BY EnlazarTipo
<1>2. z.op = "TRUNCATE" /\ z.quien = y.quien /\ z.n = y.n
  BY <1>1 DEF Sigue
<1>3. /\ ConBloque(y) /\ Creciendo(y) /\ ~Guarda(y) /\ ~Guarda(z) /\ ~Escribe(z) /\ ~ConBloque(z)
      /\ ~Liberando(z) /\ (Creciendo(z) <=> z.pc = "asigna")
  BY <1>1 DEF ConBloque, Guarda, Escribe, Liberando, Creciendo
<1>4. PICK k \in BloquesFat : k = y.cursor /\ k # Fin /\ z.cursor = k
  BY <1>1, NucleoEs, Constantes DEF PuntoNucleo
<1>5. /\ y.inicial # Fin /\ y.inicial = fcb[y.quien].inicial /\ y.n > 0 /\ k # 0
      /\ Lleno(bloques_libres_fat, k) /\ posicion_fat = Ancla(y)
      /\ Ancla(y) \in Nat \ {0} /\ Ancla(y) <= k
  BY <1>1, <1>3, <1>4 DEF FatInv, Local, Siguiente, Truncando, Situada
<1>6. PICK a \in Nat \ {0} : a = Ancla(y) /\ a = posicion_fat /\ a <= k
  BY <1>5
<1>7. k \in Nat \ {0} /\ Lleno(bloques_libres_fat, k - 1)
  BY <1>5, Constantes, LlenoAntes
<1>8. /\ Marcados'
      /\ \A e \in BloquesFat \cup {Fin} : fat'[e] = IF e = a THEN k ELSE fat[e]
  BY <1>1, <1>4, <1>5, <1>6, MarcadosEscrito DEF FatInv
<1>9. Adelante(z)'
  <2>1. ASSUME NEW e \in BloquesFat \ {0} PROVE Apunta(e, z)'
    <3>1. CASE e = a
      <4>1. fat'[e] = k /\ e <= k /\ e \in Nat
        BY <1>6, <1>8, <3>1
      <4>2. CASE e = k
        BY <1>1, <1>2, <1>3, <1>4, <1>5, <4>1, <4>2 DEF Apunta
      <4>3. CASE e # k
        <5>1. fat'[e] > e
          BY <1>7, <4>1, <4>3
        <5> QED
          BY <5>1 DEF Apunta
      <4> QED
        BY <4>2, <4>3
    <3>2. CASE e # a
      <4>1. Apunta(e, y) /\ fat'[e] = fat[e] /\ e # Fin
        BY <1>8, <3>2, Constantes DEF FatInv, Adelante
      <4>2. e # y.anterior
        BY <1>6, <3>2, <4>1 DEF Ancla
      <4> QED
        BY <1>1, <4>1, <4>2 DEF Apunta
    <3> QED
      BY <3>1, <3>2
  <2> QED
    BY <2>1 DEF Adelante
<1>10. Iniciales(z)'
  BY <1>1, <1>2, InicialesIgual DEF FatInv
<1>11. Situada(z)'
  BY <1>1 DEF Situada
<1>12. Siguiente(z)'
  <2>1. Creciendo(z) => Ancla(z)' = k
    BY <1>1, <1>3, <1>4 DEF Ancla
  <2> QED
    BY <1>1, <1>3, <1>4, <1>5, <1>7, <2>1 DEF Siguiente
<1>13. Truncando(z)'
  <2>1. y.n # 0
    BY <1>5
  <2> QED
    BY <1>1, <1>2, <1>3, <1>5, <2>1 DEF Truncando
<1>14. Cola(z)'
  BY <1>1, <1>3 DEF Cola
<1> QED
  BY <1>8, <1>9, <1>10, <1>11, <1>12, <1>13, <1>14 DEF FatInv, Local

LEMMA CerrarFat ==
  ASSUME TipoInv, NEW h \in Nucleos, NEW y, NEW z, y = hilo[h], z = hilo'[h], FatInv(y),
         Cerrar(h)
  PROVE  FatInv(z)'
<1>1. /\ Sigue(y, z) /\ UNCHANGED <<fcb, bloques_libres_fat>> /\ y.op = "TRUNCATE"
      /\ y.pc = "cierra" /\ fat' = Anota(fat, posicion_fat, Fin)
      /\ z.cursor = y.cursor /\ z.pc = "vuelve"
  BY CerrarTipo DEF PasaA
<1>2. z.op = "TRUNCATE" /\ z.quien = y.quien /\ z.n = y.n
  BY <1>1 DEF Sigue
<1>3. /\ ~Creciendo(y) /\ ~Guarda(z) /\ ~Creciendo(z) /\ ~ConBloque(z) /\ ~Liberando(z)
      /\ Cambiado(y)
  BY <1>1 DEF ConBloque, Guarda, Escribe, Liberando, Creciendo, Cambiado
<1>4. posicion_fat = y.cursor
  BY <1>1 DEF FatInv, Local, Situada
<1>5. /\ Marcados'
      /\ \A e \in BloquesFat \cup {Fin} : fat'[e] = IF e = y.cursor THEN Fin ELSE fat[e]
  BY <1>1, <1>4, LlenoBase, MarcadosEscrito DEF FatInv
<1>6. Adelante(z)'
  <2>1. ASSUME NEW e \in BloquesFat \ {0} PROVE Apunta(e, z)'
    <3>1. CASE e = y.cursor
      BY <1>5, <3>1 DEF Apunta
    <3>2. CASE e # y.cursor
      <4>1. Apunta(e, y) /\ fat'[e] = fat[e]
        BY <1>5, <3>2 DEF FatInv, Adelante
      <4> QED
        BY <1>1, <1>3, <3>2, <4>1 DEF Apunta
    <3> QED
      BY <3>1, <3>2
  <2> QED
    BY <2>1 DEF Adelante
<1>7. Iniciales(z)'
  BY <1>1, <1>2, InicialesIgual DEF FatInv
<1>8. Situada(z)'
  BY <1>1 DEF Situada
<1>9. Siguiente(z)'
  BY <1>1, <1>2, <1>3 DEF FatInv, Local, Siguiente
<1>10. Truncando(z)'
  BY <1>1, <1>2, <1>3 DEF FatInv, Local, Truncando
<1>11. Cola(z)'
  BY <1>1, <1>3 DEF Cola
<1> QED
  BY <1>5, <1>6, <1>7, <1>8, <1>9, <1>10, <1>11 DEF FatInv, Local

LEMMA CortarFat ==
  ASSUME TipoInv, NEW h \in Nucleos, NEW y, NEW z, y = hilo[h], z = hilo'[h], FatInv(y),
         Cortar(h)
  PROVE  FatInv(z)'
<1> DEFINE v == IF y.n = 0 THEN 0 ELSE Fin
<1>1. /\ Sigue(y, z) /\ UNCHANGED <<fcb, bloques_libres_fat>> /\ y.op = "TRUNCATE"
      /\ y.pc = "corta" /\ fat' = Anota(fat, posicion_fat, v)
      /\ z.cursor = y.cursor /\ z.bloque = y.bloque
      /\ y.n = 0 => /\ z.pc = "relee_inicial" /\ z.inicial = Fin
                    /\ z.luego \in {"libera", "relee_tamanio"}
      /\ y.n # 0 => z.pc \in {"libera", "relee_tamanio"}
  BY CortarTipo
<1>2. z.op = "TRUNCATE" /\ z.quien = y.quien /\ z.n = y.n
  BY <1>1 DEF Sigue
<1>3. /\ ~Creciendo(y) /\ ~Creciendo(z) /\ ~ConBloque(z) /\ ~Guarda(y) /\ ~ConBloque(y)
      /\ ~Escribe(z) /\ (Guarda(z) <=> y.n = 0) /\ (Cambiado(z) <=> y.n # 0)
  BY <1>1 DEF ConBloque, Guarda, Escribe, Creciendo, Cambiado
<1>4. /\ posicion_fat = y.bloque /\ y.bloque \in BloquesFat \cup {Fin} /\ v \in {0, Fin}
      /\ v \in BloquesFat \cup {Fin} /\ Lleno(bloques_libres_fat, v) /\ y.n \in Nat
  BY <1>1, NucleoEs, FichaTipo, Constantes, LlenoBase DEF FatInv, Local, Situada, PuntoNucleo
<1>5. /\ Marcados'
      /\ \A e \in BloquesFat \cup {Fin} : fat'[e] = IF e = y.bloque THEN v ELSE fat[e]
  BY <1>1, <1>4, MarcadosEscrito DEF FatInv
<1> HIDE DEF v
<1>6. Adelante(z)'
  <2>1. ASSUME NEW e \in BloquesFat \ {0} PROVE Apunta(e, z)'
    <3>1. CASE e = y.bloque
      BY <1>4, <1>5, <3>1 DEF Apunta
    <3>2. CASE e # y.bloque
      <4>1. Apunta(e, y) /\ fat'[e] = fat[e]
        BY <1>5, <3>2 DEF FatInv, Adelante
      <4> QED
        BY <1>1, <1>3, <3>2, <4>1 DEF Apunta
    <3> QED
      BY <3>1, <3>2
  <2> QED
    BY <2>1 DEF Adelante
<1>7. Iniciales(z)'
  BY <1>1, <1>2, InicialesIgual DEF FatInv
<1>8. Situada(z)'
  BY <1>1, <1>2 DEF Situada
<1>9. Siguiente(z)'
  BY <1>1, <1>2, <1>3 DEF FatInv, Local, Siguiente
<1>10. Truncando(z)'
  <2>1. y.n > 0 => fcb[y.quien].inicial # Fin
    BY <1>1 DEF FatInv, Local, Truncando
  <2>2. y.n = 0 \/ y.n > 0
    BY <1>4
  <2> QED
    BY <1>1, <1>2, <1>3, <2>1, <2>2 DEF Truncando
<1>11. Cola(z)'
  BY <1>1, <1>4, <1>5 DEF Cola
<1> QED
  BY <1>5, <1>6, <1>7, <1>8, <1>9, <1>10, <1>11 DEF FatInv, Local

LEMMA BorrarFat ==
  ASSUME TipoInv, NEW h \in Nucleos, NEW y, NEW z, y = hilo[h], z = hilo'[h], FatInv(y),
         Borrar(h)
  PROVE  FatInv(z)'
<1>1. /\ Sigue(y, z) /\ UNCHANGED <<fcb, bloques_libres_fat>> /\ y.op = "TRUNCATE"
      /\ y.pc = "borra" /\ fat' = Anota(fat, posicion_fat, 0)
      /\ z.cursor = y.cursor /\ z.bloque = y.bloque /\ z.pc = "desmarca"
  BY BorrarTipo DEF PasaA
<1>2. z.op = "TRUNCATE" /\ z.quien = y.quien /\ z.n = y.n
  BY <1>1 DEF Sigue
<1>3. /\ ~Creciendo(y) /\ ~Creciendo(z) /\ ~ConBloque(z) /\ ~Guarda(z) /\ Cambiado(y)
      /\ ~Liberando(z)
  BY <1>1 DEF ConBloque, Guarda, Escribe, Creciendo, Cambiado, Liberando
<1>4. posicion_fat = y.bloque /\ y.bloque \in {0, Fin} /\ 0 \in BloquesFat
  BY <1>1, Constantes DEF FatInv, Local, Situada, Cola
<1>5. /\ Marcados'
      /\ \A e \in BloquesFat \cup {Fin} : fat'[e] = IF e = y.bloque THEN 0 ELSE fat[e]
  BY <1>1, <1>4, LlenoBase, MarcadosEscrito DEF FatInv
<1>6. Adelante(z)'
  <2>1. ASSUME NEW e \in BloquesFat \ {0} PROVE Apunta(e, z)'
    <3>1. CASE e = y.bloque
      BY <1>5, <3>1 DEF Apunta
    <3>2. CASE e # y.bloque
      <4>1. Apunta(e, y) /\ fat'[e] = fat[e]
        BY <1>5, <3>2 DEF FatInv, Adelante
      <4> QED
        BY <1>1, <1>3, <3>2, <4>1 DEF Apunta
    <3> QED
      BY <3>1, <3>2
  <2> QED
    BY <2>1 DEF Adelante
<1>7. Iniciales(z)'
  BY <1>1, <1>2, InicialesIgual DEF FatInv
<1>8. Situada(z)'
  BY <1>1 DEF Situada
<1>9. Siguiente(z)'
  BY <1>1, <1>2, <1>3 DEF FatInv, Local, Siguiente
<1>10. Truncando(z)'
  BY <1>1, <1>2, <1>3 DEF FatInv, Local, Truncando
<1>11. Cola(z)'
  BY <1>1, <1>3, <1>4, <1>5 DEF Cola
<1> QED
  BY <1>5, <1>6, <1>7, <1>8, <1>9, <1>10, <1>11 DEF FatInv, Local

LEMMA ReleerFat ==
  ASSUME TipoInv, NEW h \in Nucleos, NEW y, NEW z, y = hilo[h], z = hilo'[h], FatInv(y),
         Releer(h), Leidos(h) = {fcb[hilo[h].quien]}
  PROVE  FatInv(z)'
<1>1. /\ Sigue(y, z) /\ UNCHANGED <<archivos, posicion_fat>> /\ y.op = "TRUNCATE"
      /\ y.pc \in {"relee_inicial", "relee_tamanio"} /\ z.copia = fcb[y.quien]
      /\ z.luego = y.luego
      /\ z.pc = (IF y.pc = "relee_inicial" THEN "graba_inicial" ELSE "graba_tamanio")
      /\ z.inicial = y.inicial /\ z.bloque = y.bloque /\ z.anterior = y.anterior
      /\ z.cursor = y.cursor
  BY ReleerTipo
<1>2. z.op = "TRUNCATE" /\ z.quien = y.quien /\ z.n = y.n
  BY <1>1 DEF Sigue
<1>3. z.pc \in {"graba_inicial", "graba_tamanio"}
  BY <1>1
<1>4. /\ (Guarda(z) <=> Guarda(y)) /\ (Creciendo(z) <=> Creciendo(y)) /\ ~ConBloque(z)
      /\ (Cambiado(z) => Cambiado(y)) /\ (Liberando(z) <=> Liberando(y))
  BY <1>1 DEF ConBloque, Guarda, Escribe, Creciendo, Cambiado, Liberando
<1>5. Marcados'
  BY <1>1, MarcadosIgual DEF FatInv
<1>6. Adelante(z)'
  BY <1>1, <1>2, <1>4, AdelanteIgual DEF FatInv, archivos
<1>7. Iniciales(z)'
  BY <1>1, <1>2, <1>3, InicialesIgual DEF FatInv, archivos
<1>8. Situada(z)'
  BY <1>3 DEF Situada
<1>9. Siguiente(z)'
  <2>1. Ancla(z)' = Ancla(y)
    BY <1>1 DEF Ancla
  <2> QED
    BY <1>1, <1>2, <1>3, <1>4, <2>1 DEF FatInv, Local, Siguiente, archivos
<1>10. Truncando(z)'
  BY <1>1, <1>2, <1>3, <1>4 DEF FatInv, Local, Truncando, archivos
<1>11. Cola(z)'
  BY <1>1, <1>3, <1>4 DEF FatInv, Local, Cola, archivos
<1> QED
  BY <1>5, <1>6, <1>7, <1>8, <1>9, <1>10, <1>11 DEF FatInv, Local

LEMMA FcbCampos ==
  ASSUME NEW c \in Fcbs, NEW v
  PROVE  /\ [c EXCEPT !.inicial = v].inicial = v /\ [c EXCEPT !.inicial = v].tamanio = c.tamanio
         /\ [c EXCEPT !.inicial = v].nombre = c.nombre
         /\ [c EXCEPT !.tamanio = v].tamanio = v /\ [c EXCEPT !.tamanio = v].inicial = c.inicial
         /\ [c EXCEPT !.tamanio = v].nombre = c.nombre
BY DEF Fcbs

LEMMA GrabarInicialFat ==
  ASSUME TipoInv, NEW h \in Nucleos, NEW y, NEW z, y = hilo[h], z = hilo'[h], FatInv(y),
         GrabarInicial(h)
  PROVE  FatInv(z)'
<1>1. /\ Sigue(y, z) /\ UNCHANGED <<fat, bloques_libres_fat, posicion_fat>> /\ y.op = "TRUNCATE"
      /\ y.quien \in Archivos /\ y.pc = "graba_inicial" /\ z.pc = y.luego
      /\ fcb' = [fcb EXCEPT ![y.quien] = Grabado(y)]
      /\ z.inicial = y.inicial /\ z.bloque = y.bloque /\ z.anterior = y.anterior
      /\ z.cursor = y.cursor
  BY GrabarInicialTipo
<1>2. z.op = "TRUNCATE" /\ z.quien = y.quien /\ z.n = y.n
  BY <1>1 DEF Sigue
<1>3. Guarda(y) /\ z.pc \in {"asigna", "vuelve", "libera", "relee_tamanio"} /\ y.cursor \in Nat
  BY <1>1, NucleoEs, FichaTipo DEF PuntoNucleo, Guarda
<1>4. /\ ~Guarda(z) /\ ~Escribe(z) /\ ~ConBloque(z) /\ (Creciendo(z) <=> Creciendo(y))
      /\ (Cambiado(z) <=> z.pc # "asigna") /\ (Creciendo(z) <=> z.pc = "asigna")
      /\ (Liberando(z) <=> Liberando(y))
  BY <1>1, <1>3 DEF ConBloque, Guarda, Escribe, Creciendo, Cambiado, Liberando
<1>5. y.copia = fcb[y.quien]
  BY <1>1 DEF FatInv, Local, Truncando
<1>6. /\ \A f \in Archivos \ {y.quien} : fcb'[f] = fcb[f]
      /\ fcb'[y.quien].nombre = fcb[y.quien].nombre /\ fcb'[y.quien].inicial = y.inicial
  <2>1. fcb \in [Archivos -> Fcbs] /\ fcb[y.quien] \in Fcbs
    BY <1>1 DEF TipoInv, TipoArchivos
  <2>2. fcb'[y.quien] = Grabado(y) /\ \A f \in Archivos \ {y.quien} : fcb'[f] = fcb[f]
    BY <1>1, <2>1
  <2> QED
    BY <1>1, <1>5, <2>1, <2>2, FcbCampos DEF Grabado
<1>7. /\ z.pc \in {"asigna", "vuelve"} =>
           /\ y.n > 0 /\ y.inicial = y.cursor /\ y.cursor # 0
           /\ \A g \in Archivos : fcb[g].inicial # y.cursor
      /\ z.pc \in {"libera", "relee_tamanio"} => y.n = 0 /\ y.inicial = Fin
      /\ Lleno(bloques_libres_fat, y.cursor)
  BY <1>1, <1>3 DEF FatInv, Local, Siguiente, Truncando
<1>8. /\ y.inicial # 0 /\ Lleno(bloques_libres_fat, y.inicial)
      /\ z.pc \in {"asigna", "vuelve"} => y.inicial # Fin
      /\ \A g \in Archivos : g # y.quien /\ fcb[g].inicial = y.inicial => y.inicial = Fin
  BY <1>3, <1>7, LlenoBase, Constantes
<1>9. Marcados'
  BY <1>1, <1>6, <1>8 DEF FatInv, Marcados
<1>10. Adelante(z)'
  BY <1>1, <1>2, <1>3, <1>4, AdelanteIgual DEF FatInv
<1>11. Iniciales(z)'
  <2>1. ASSUME NEW f \in Archivos, NEW g \in Archivos, f # g, fcb'[f].inicial = fcb'[g].inicial
        PROVE  fcb'[f].inicial = Fin
    BY <1>6, <1>8, <2>1 DEF FatInv, Iniciales
  <2>2. ASSUME NEW f \in Archivos, ~EnCurso(f, z)
        PROVE  fcb'[f].tamanio = 0 <=> fcb'[f].inicial = Fin
    <3>1. f # y.quien
      BY <1>2, <1>3, <2>2 DEF EnCurso
    <3>2. ~EnCurso(f, y)
      BY <3>1 DEF EnCurso
    <3> QED
      BY <1>6, <3>1, <3>2 DEF FatInv, Iniciales
  <2>3. \A f \in Archivos : EnCurso(f, z)' <=> EnCurso(f, z)
    BY DEF EnCurso
  <2> QED
    BY <2>1, <2>2, <2>3 DEF Iniciales
<1>12. Situada(z)'
  BY <1>3 DEF Situada
<1>13. Siguiente(z)'
  <2>1. Ancla(z)' = Ancla(y)
    BY <1>1 DEF Ancla
  <2>2. Creciendo(z) /\ z.inicial # Fin =>
          Ancla(y) \in Nat \ {0} /\ Lleno(bloques_libres_fat, Ancla(y) - 1)
    BY <1>1, <1>4 DEF FatInv, Local, Siguiente
  <2> QED
    BY <1>1, <1>3, <1>4, <1>7, <2>1, <2>2 DEF Siguiente
<1>14. Truncando(z)'
  <2>1. y.n > 0 => y.n # 0
    OBVIOUS
  <2> QED
    BY <1>1, <1>2, <1>3, <1>4, <1>6, <1>7, <1>8, <2>1 DEF Truncando
<1>15. Cola(z)'
  BY <1>1, <1>3, <1>4 DEF FatInv, Local, Cola
<1> QED
  BY <1>9, <1>10, <1>11, <1>12, <1>13, <1>14, <1>15 DEF FatInv, Local

LEMMA GrabarTamanioFat ==
  ASSUME TipoInv, NEW h \in Nucleos, NEW y, NEW z, y = hilo[h], z = hilo'[h], FatInv(y),
         GrabarTamanio(h)
  PROVE  FatInv(z)'
<1>1. /\ Sigue(y, z) /\ UNCHANGED <<fat, bloques_libres_fat, posicion_fat>> /\ y.op = "TRUNCATE"
      /\ y.quien \in Archivos /\ y.pc = "graba_tamanio" /\ z.pc = "responde"
      /\ fcb' = [fcb EXCEPT ![y.quien] = Grabado(y)]
  BY GrabarTamanioTipo
<1>2. z.op = "TRUNCATE" /\ z.quien = y.quien /\ z.n = y.n
  BY <1>1 DEF Sigue
<1>3. /\ ~Guarda(z) /\ ~ConBloque(z) /\ ~Creciendo(z) /\ ~Creciendo(y) /\ Cambiado(y)
      /\ ~Cambiado(z) /\ ~Liberando(z)
  BY <1>1 DEF ConBloque, Guarda, Escribe, Creciendo, Cambiado, Liberando
<1>4. y.copia = fcb[y.quien] /\ (y.n = 0 <=> fcb[y.quien].inicial = Fin)
  BY <1>1, <1>3 DEF FatInv, Local, Truncando
<1>5. /\ \A f \in Archivos \ {y.quien} : fcb'[f] = fcb[f]
      /\ fcb'[y.quien].nombre = fcb[y.quien].nombre
      /\ fcb'[y.quien].inicial = fcb[y.quien].inicial /\ fcb'[y.quien].tamanio = y.n
  <2>1. fcb \in [Archivos -> Fcbs] /\ fcb[y.quien] \in Fcbs
    BY <1>1 DEF TipoInv, TipoArchivos
  <2>2. fcb'[y.quien] = Grabado(y) /\ \A f \in Archivos \ {y.quien} : fcb'[f] = fcb[f]
    BY <1>1, <2>1
  <2> QED
    BY <1>1, <1>4, <2>1, <2>2, FcbCampos DEF Grabado
<1>6. Marcados'
  BY <1>1, <1>5 DEF FatInv, Marcados
<1>7. Adelante(z)'
  BY <1>1, <1>2, <1>3, AdelanteIgual DEF FatInv
<1>8. Iniciales(z)'
  <2>1. ASSUME NEW f \in Archivos PROVE fcb'[f].tamanio = 0 <=> fcb'[f].inicial = Fin
    <3>1. CASE f = y.quien
      BY <1>4, <1>5, <3>1
    <3>2. CASE f # y.quien
      <4>1. ~EnCurso(f, y)
        BY <3>2 DEF EnCurso
      <4> QED
        BY <1>5, <3>2, <4>1 DEF FatInv, Iniciales
    <3> QED
      BY <3>1, <3>2
  <2>2. ASSUME NEW f \in Archivos, NEW g \in Archivos, f # g, fcb'[f].inicial = fcb'[g].inicial
        PROVE  fcb'[f].inicial = Fin
    BY <1>5, <2>2 DEF FatInv, Iniciales
  <2> QED
    BY <2>1, <2>2 DEF Iniciales
<1>9. Situada(z)'
  BY <1>1 DEF Situada
<1>10. Siguiente(z)'
  <2>1. z.cursor = y.cursor
    BY GrabarTamanioTipo
  <2> QED
    BY <1>1, <1>3, <2>1 DEF FatInv, Local, Siguiente
<1>11. Truncando(z)'
  BY <1>1, <1>3 DEF Truncando
<1>12. Cola(z)'
  BY <1>1, <1>3 DEF Cola
<1> QED
  BY <1>6, <1>7, <1>8, <1>9, <1>10, <1>11, <1>12 DEF FatInv, Local

\* The steps of escribir_archivo_de_bloques.
LEMMA EscribirFat ==
  ASSUME NEW y, NEW z, FatInv(y), UNCHANGED <<archivos, posicion_fat>>,
         Sigue(y, z), y.op = "TRUNCATE", Escribe(y), y.luego \in {"engancha", "libera", "relee_tamanio"},
         (Escribe(z) /\ z.luego = y.luego) \/ z.pc = y.luego,
         z.inicial = y.inicial, z.bloque = y.bloque, z.anterior = y.anterior, z.cursor = y.cursor
  PROVE  FatInv(z)'
<1>1. z.op = "TRUNCATE" /\ z.quien = y.quien /\ z.n = y.n
  BY DEF Sigue
<1>2. z.pc \in {"situa", "accede", "rebobina", "engancha", "libera", "relee_tamanio"}
  BY DEF Escribe
<1>3. y.pc \in {"situa", "accede", "rebobina"}
  BY DEF Escribe
<1>4. /\ ~Guarda(y) /\ ~Guarda(z) /\ (ConBloque(z) <=> ConBloque(y))
      /\ (Creciendo(z) <=> Creciendo(y)) /\ (Liberando(z) <=> Liberando(y))
      /\ (Cambiado(z) <=> Cambiado(y))
  <2>1. ~Guarda(y) /\ ~Guarda(z)
    BY <1>2, <1>3 DEF Guarda
  <2>2. ConBloque(z) <=> ConBloque(y)
    BY <1>2, <1>3 DEF ConBloque, Escribe
  <2>3. Liberando(z) <=> Liberando(y)
    BY <1>2, <1>3, <2>1 DEF Liberando, Escribe
  <2>4. Cambiado(z) <=> Cambiado(y)
    BY <1>2, <1>3 DEF Cambiado, Escribe
  <2> QED
    BY <1>2, <1>3, <2>1, <2>2, <2>3, <2>4 DEF Creciendo
<1>5. Marcados'
  BY MarcadosIgual DEF FatInv
<1>6. Adelante(z)'
  BY <1>1, <1>3, <1>4, AdelanteIgual DEF FatInv, archivos
<1>7. Iniciales(z)'
  BY <1>1, <1>2, InicialesIgual DEF FatInv, archivos
<1>8. Situada(z)'
  BY <1>2 DEF Situada
<1>9. Siguiente(z)'
  <2>1. Ancla(z)' = Ancla(y)
    BY DEF Ancla
  <2> QED
    BY <1>2, <1>3, <1>4, <2>1 DEF FatInv, Local, Siguiente, archivos
<1>10. Truncando(z)'
  BY <1>1, <1>2, <1>3, <1>4 DEF FatInv, Local, Truncando, archivos
<1>11. Cola(z)'
  BY <1>2, <1>4 DEF FatInv, Local, Cola, archivos
<1> QED
  BY <1>5, <1>6, <1>7, <1>8, <1>9, <1>10, <1>11 DEF FatInv, Local

LEMMA SituarFat ==
  ASSUME TipoInv, NEW h \in Nucleos, NEW y, NEW z, y = hilo[h], z = hilo'[h], FatInv(y),
         y.op = "TRUNCATE", Situar(h) \/ Acceder(h) \/ Rebobinar(h)
  PROVE  FatInv(z)'
<1>1. y \in Fichas /\ PuntoNucleo(y) /\ h \in Hilos /\ h # Memoria
  BY NucleoEs, Constantes
<1>2. CASE Situar(h)
  BY <1>1, <1>2, SituarTipo, EscribirFat DEF PuntoNucleo, Escribe
<1>3. CASE Acceder(h)
  <2>1. z = Accedido(y) /\ y.pc = "accede" /\ UNCHANGED <<archivos, posicion_fat>>
    BY <1>1, <1>3, AccederTipo DEF Solo
  <2>2. /\ z.pc = "rebobina" /\ Sigue(y, z) /\ z.luego = y.luego /\ z.inicial = y.inicial
        /\ z.bloque = y.bloque /\ z.anterior = y.anterior /\ z.cursor = y.cursor
    <3>1. z = [y EXCEPT !.pc = "rebobina"]
      BY <1>1, <2>1, AccedidoEs
    <3> QED
      BY <1>1, <3>1, ConPc DEF Sigue
  <2> QED
    BY <1>1, <2>1, <2>2, EscribirFat DEF PuntoNucleo, Escribe
<1>4. CASE Rebobinar(h)
  <2>1. /\ z = [y EXCEPT !.pc = y.luego] /\ y.pc = "rebobina"
        /\ UNCHANGED <<archivos, posicion_fat>>
    BY <1>1, <1>4, RebobinarTipo DEF Solo
  <2>2. /\ z.pc = y.luego /\ Sigue(y, z) /\ z.inicial = y.inicial
        /\ z.bloque = y.bloque /\ z.anterior = y.anterior /\ z.cursor = y.cursor
    BY <1>1, <2>1, ConPc DEF Sigue
  <2> QED
    BY <1>1, <2>1, <2>2, EscribirFat DEF PuntoNucleo, Escribe
<1> QED
  BY <1>2, <1>3, <1>4

\* Between two TRUNCATEs: one ends, or is about to begin.
LEMMA QuietoFat ==
  ASSUME NEW y, NEW z, FatInv(y), UNCHANGED archivos,
         y.op # "TRUNCATE" \/ y.pc \in {"nace", "responde"},
         z.op # "TRUNCATE" \/ z = Ficha("TRUNCATE", z.quien, z.n)
  PROVE  FatInv(z)'
<1>1. y.op = "TRUNCATE" => ~Creciendo(y) /\ y.pc \notin {"ultimo", "cierra"}
  BY DEF ConBloque, Creciendo, Guarda, Escribe
<1>2. Marcados'
  BY MarcadosIgual DEF FatInv
<1>3. Adelante(z)'
  <2>1. \A e \in BloquesFat \ {0} : fat[e] \in {0, Fin} \/ fat[e] > e
    BY <1>1 DEF FatInv, Adelante, Apunta
  <2> QED
    BY <2>1 DEF Adelante, Apunta, archivos
<1>4. Iniciales(z)'
  <2>1. \A f \in Archivos : ~EnCurso(f, y)
    BY DEF EnCurso
  <2> QED
    BY <2>1 DEF FatInv, Iniciales, archivos
<1>5. Local(z)'
  <2>1. CASE z.op # "TRUNCATE"
    BY <2>1 DEF Local
  <2>2. CASE z = Ficha("TRUNCATE", z.quien, z.n)
    <3>1. z.pc = "nace" /\ z.cursor = 0 /\ z.anterior = Fin
      BY <2>2 DEF Ficha, Libre
    <3>2. ~ConBloque(z) /\ ~Creciendo(z) /\ ~Guarda(z) /\ ~Cambiado(z) /\ ~Liberando(z)
      BY <3>1 DEF ConBloque, Creciendo, Guarda, Escribe, Cambiado, Liberando
    <3> QED
      BY <3>1, <3>2, LlenoBase DEF Local, Situada, Siguiente, Truncando, Cola
  <2> QED
    BY <2>1, <2>2
<1> QED
  BY <1>2, <1>3, <1>4, <1>5 DEF FatInv

\* The ticket of a thread is a state function: its fields are primed with it.
LEMMA PonFat ==
  ASSUME NEW h, NEW z, z = hilo'[h], FatInv(z)'
  PROVE  FatInv(hilo[h])'
<1>1. Marcados'
  BY DEF FatInv
<1>2. Adelante(hilo[h])'
  BY DEF FatInv, Adelante, Apunta, Creciendo, ConBloque, Guarda, Escribe
<1>3. Iniciales(hilo[h])'
  BY DEF FatInv, Iniciales, EnCurso
<1>4. ASSUME z.op = "TRUNCATE" PROVE Situada(hilo[h])'
  BY <1>4 DEF FatInv, Local, Situada, Ancla
<1>5. ASSUME z.op = "TRUNCATE" PROVE Siguiente(hilo[h])'
  BY <1>5 DEF FatInv, Local, Siguiente, Ancla, Creciendo, ConBloque, Guarda, Escribe
<1>6. ASSUME z.op = "TRUNCATE" PROVE Truncando(hilo[h])'
  BY <1>6 DEF FatInv, Local, Truncando, Creciendo, ConBloque, Guarda, Escribe, Cambiado
<1>7. ASSUME z.op = "TRUNCATE" PROVE Cola(hilo[h])'
  BY <1>7 DEF FatInv, Local, Cola, Liberando, Guarda, Escribe
<1> QED
  BY <1>1, <1>2, <1>3, <1>4, <1>5, <1>6, <1>7 DEF FatInv, Local

\* What does not touch the files.
LEMMA ParecidaFat ==
  ASSUME NEW y, NEW z, FatInv(y), Parecida(y, z), UNCHANGED <<archivos, posicion_fat>>
  PROVE  FatInv(z)'
<1>1. /\ z.pc = y.pc /\ z.op = y.op /\ z.luego = y.luego /\ z.quien = y.quien /\ z.n = y.n
      /\ z.inicial = y.inicial /\ z.bloque = y.bloque /\ z.anterior = y.anterior
      /\ z.cursor = y.cursor /\ z.copia = y.copia
      /\ fcb' = fcb /\ fat' = fat /\ bloques_libres_fat' = bloques_libres_fat
      /\ posicion_fat' = posicion_fat
  BY DEF Parecida, archivos
<1>2. /\ (Creciendo(z) <=> Creciendo(y)) /\ (ConBloque(z) <=> ConBloque(y))
      /\ (Guarda(z) <=> Guarda(y)) /\ (Escribe(z) <=> Escribe(y))
      /\ (Cambiado(z) <=> Cambiado(y)) /\ (Liberando(z) <=> Liberando(y))
  BY <1>1 DEF Creciendo, ConBloque, Guarda, Escribe, Cambiado, Liberando
<1>3. Ancla(z)' = Ancla(y)
  BY <1>1 DEF Ancla
<1>4. Marcados' /\ Adelante(z)'
  BY <1>1, <1>2 DEF FatInv, Marcados, Adelante, Apunta
<1>5. Iniciales(z)'
  BY <1>1 DEF FatInv, Iniciales, EnCurso
<1>6. ASSUME z.op = "TRUNCATE" PROVE Situada(z)' /\ Cola(z)'
  BY <1>1, <1>2, <1>3, <1>6 DEF FatInv, Local, Situada, Cola
<1>7. ASSUME z.op = "TRUNCATE" PROVE Siguiente(z)'
  BY <1>1, <1>2, <1>3, <1>7 DEF FatInv, Local, Siguiente
<1>8. ASSUME z.op = "TRUNCATE" PROVE Truncando(z)'
  BY <1>1, <1>2, <1>8 DEF FatInv, Local, Truncando
<1> QED
  BY <1>4, <1>5, <1>6, <1>7, <1>8 DEF FatInv, Local

LEMMA NucleosParecidos ==
  ASSUME ArchivosInv, UNCHANGED <<archivos, posicion_fat, solos>>,
         \A h \in Nucleos : Parecida(hilo[h], hilo'[h])
  PROVE  ArchivosInv'
<1> SUFFICES ASSUME solos'
             PROVE  /\ Exclusivos'
                    /\ \A h \in Nucleos : hilo'[h].op = "TRUNCATE" => FatInv(hilo[h])'
                    /\ (\A h \in Nucleos : hilo'[h].op # "TRUNCATE") => FatInv(Libre)'
  BY DEF ArchivosInv
<1>1. /\ Exclusivos
      /\ \A h \in Nucleos : hilo[h].op = "TRUNCATE" => FatInv(hilo[h])
      /\ (\A h \in Nucleos : hilo[h].op # "TRUNCATE") => FatInv(Libre)
  BY DEF ArchivosInv
<1>2. \A h \in Nucleos : hilo'[h].op = hilo[h].op /\ hilo'[h].pc = hilo[h].pc
  BY DEF Parecida
<1>3. Exclusivos'
  BY <1>1, <1>2 DEF Exclusivos, Activo
<1>4. ASSUME NEW h \in Nucleos, hilo'[h].op = "TRUNCATE" PROVE FatInv(hilo[h])'
  <2>1. PICK y : y = hilo[h]
    OBVIOUS
  <2>2. PICK z : z = hilo'[h]
    OBVIOUS
  <2>3. FatInv(y) /\ Parecida(y, z)
    BY <1>1, <1>2, <1>4, <2>1, <2>2
  <2> QED
    BY <2>2, <2>3, ParecidaFat, PonFat
<1>5. Parecida(Libre, Libre)
  BY DEF Parecida
<1>6. FatInv(Libre) => FatInv(Libre)'
  BY <1>5, ParecidaFat
<1> QED
  BY <1>1, <1>2, <1>3, <1>4, <1>6

LEMMA MemoriaAjena ==
  ASSUME TipoInv, DeLaMemoria
  PROVE  /\ UNCHANGED <<archivos, posicion_fat, solos>>
         /\ \A h \in Nucleos : Parecida(hilo[h], hilo'[h])
<1> USE Constantes
<1> DEFINE Ajena == /\ UNCHANGED <<archivos, posicion_fat, solos>>
                    /\ \A h \in Nucleos : Parecida(hilo[h], hilo'[h])
<1>1. ASSUME NEW h \in Hilos \ Nucleos, NEW r, Solo(h, r) \/ Casi(h, r)
      PROVE  \A g \in Nucleos : Parecida(hilo[g], hilo'[g])
  <2>1. Casi(h, r)
    BY <1>1, SoloCasi
  <2> QED
    BY <2>1 DEF Casi
<1>2. Memoria \in Hilos \ Nucleos /\ Escritores \subseteq Hilos \ Nucleos
  OBVIOUS
<1>3. ASSUME NEW p \in Procesos, Arrancar(p) PROVE Ajena
  BY <1>1, <1>2, <1>3, ArrancarTipo DEF EnPedido
<1>4. ASSUME NEW p \in Procesos, Terminar(p) PROVE Ajena
  BY <1>1, <1>2, <1>4, TerminarTipo DEF EnPedido
<1>5. ASSUME NEW p \in Procesos, NEW b \in BloquesSwap, PedirPagina(p, b) PROVE Ajena
  BY <1>1, <1>2, <1>5, PedirPaginaTipo DEF EnPedido
<1>6. ASSUME NEW p \in Procesos, NEW b \in BloquesSwap, NEW h \in Escritores, MandarPagina(h, p, b)
      PROVE  Ajena
  BY <1>1, <1>2, <1>6, MandarPaginaTipo DEF EnPedido
<1>7. CASE EmpezarReserva
  BY <1>1, <1>2, <1>7, EmpezarReservaTipo DEF EnSwap
<1>8. CASE Reservar
  <2>1. CASE Cae
    BY <2>1 DEF Cae, Parecida
  <2>2. CASE ~Cae
    BY <1>1, <1>2, <1>8, <2>2, ReservarTipo DEF EnSwap
  <2> QED
    BY <2>1, <2>2
<1>9. CASE LiberarSwap
  BY <1>1, <1>2, <1>9, LiberarSwapTipo DEF EnSwap
<1>10. CASE Rebobinar(Memoria)
  <2>1. UNCHANGED solos
    BY <1>10 DEF Rebobinar, Ajeno
  <2> QED
    BY <1>1, <1>2, <1>10, <2>1, RebobinarTipo
<1>11. ASSUME NEW h \in Hilos \ Nucleos, EmpezarPagina(h) PROVE Ajena
  BY <1>1, <1>11, EmpezarPaginaTipo DEF EnSwap
<1>12. ASSUME NEW h \in Hilos \ Nucleos, UbicarPagina(h) PROVE Ajena
  BY <1>1, <1>12, UbicarPaginaTipo DEF EnSwap
<1>13. ASSUME NEW h \in Hilos \ Nucleos, Acceder(h) PROVE Ajena
  <2>1. UNCHANGED solos
    BY <1>13 DEF Acceder
  <2> QED
    BY <1>1, <1>13, <2>1, AccederTipo
<1>14. ASSUME NEW h \in Hilos \ Nucleos, Entregar(h) PROVE Ajena
  BY <1>1, <1>14, EntregarTipo DEF EnSwap
<1> QED
  BY <1>3, <1>4, <1>5, <1>6, <1>7, <1>8, <1>9, <1>10, <1>11, <1>12, <1>13, <1>14 DEF DeLaMemoria

\* Beside a CREATE or a TRUNCATE no thread of the kernel is at work.
LEMMA SinOtra ==
  ASSUME TipoInv, Exclusivos, NEW h \in Nucleos, hilo[h].pc # "libre", NEW g \in Nucleos, g # h,
         hilo[h].op \in {"CREATE", "TRUNCATE"} \/ hilo[g].op \in {"CREATE", "TRUNCATE"}
  PROVE  hilo[g].pc = "libre" /\ hilo[g].op = "NINGUNA"
<1>1. PuntoNucleo(hilo[g]) /\ PuntoNucleo(hilo[h])
  BY NucleoEs
<1>2. hilo[g].pc = "libre"
  BY <1>1 DEF Exclusivos, Activo
<1> QED
  BY <1>1, <1>2 DEF PuntoNucleo, DeTruncar, DeLeer

\* A TRUNCATE that is alone goes on, or ends.
LEMMA TruncateSigue ==
  ASSUME TipoInv, Exclusivos, NEW h \in Nucleos, hilo[h].op = "TRUNCATE", FatInv(hilo[h]),
         PasoNucleo(h), ~Cae
  PROVE  FatInv(hilo[h])' /\ (hilo'[h].op # "TRUNCATE" => FatInv(Libre)')
<1>1. PICK y : y = hilo[h]
  OBVIOUS
<1>2. PICK z : z = hilo'[h]
  OBVIOUS
<1>3. y.op = "TRUNCATE" /\ FatInv(y) /\ hilo[h].pc # "libre"
  BY <1>1, NucleoPaso
<1>4. Leidos(h) = {fcb[hilo[h].quien]}
  <2>1. \A g \in Nucleos \ {h} : hilo[g].pc = "libre"
    BY <1>3, SinOtra
  <2> QED
    BY <2>1 DEF Leidos
<1>5. FatInv(z)'
  <2>1. CASE Truncar(h) \/ Fseek(h) \/ Recorrer(h) \/ Buscar(h) \/ Liberar(h)
    BY <1>1, <1>2, <1>3, <1>4, <2>1, TruncarFat, FseekFat, RecorrerFat, BuscarFat, LiberarFat
  <2>2. CASE Asignar(h) \/ Marcar(h) \/ Enganchar(h) \/ Enlazar(h) \/ Cerrar(h)
    BY <1>1, <1>2, <1>3, <2>2, AsignarFat, MarcarFat, EngancharFat, EnlazarFat, CerrarFat
  <2>3. CASE Cortar(h) \/ Borrar(h) \/ Releer(h) \/ GrabarInicial(h) \/ GrabarTamanio(h)
    BY <1>1, <1>2, <1>3, <1>4, <2>3, CortarFat, BorrarFat, ReleerFat, GrabarInicialFat,
       GrabarTamanioFat
  <2>4. CASE Situar(h) \/ Acceder(h) \/ Rebobinar(h)
    BY <1>1, <1>2, <1>3, <2>4, SituarFat
  <2>5. CASE Responder(h)
    <3>1. z = Libre /\ UNCHANGED archivos /\ y.pc = "responde" /\ z.op # "TRUNCATE"
      BY <1>1, <1>2, <2>5, ResponderTipo, LibreTipo DEF Solo
    <3> QED
      BY <1>3, <3>1, QuietoFat
  <2>6. CASE \/ Crear(h) \/ Abrir(h) \/ LeerOEscribir(h) \/ Localizar(h) \/ Hablar(h)
             \/ HablarConCliente(h)
    BY <1>1, <1>3, <2>6, CrearTipo, AbrirTipo, LeerOEscribirTipo, LocalizarTipo, HablarTipo,
       HablarConClienteTipo
  <2> QED
    BY <2>1, <2>2, <2>3, <2>4, <2>5, <2>6 DEF PasoNucleo
<1>6. z = Libre \/ z.op = "TRUNCATE"
  BY <1>1, <1>2, <1>3, NucleoPaso DEF Sigue, Cae
<1> QED
  BY <1>2, <1>5, <1>6, PonFat

\* OPEN, CREATE, READ and WRITE leave the FAT and the bitmap alone, and CREATE writes an empty FCB.
LEMMA OtraSigue ==
  ASSUME TipoInv, NEW h \in Nucleos, hilo[h].op # "TRUNCATE", FatInv(Libre), PasoNucleo(h), ~Cae
  PROVE  FatInv(Libre)'
<1>1. PICK l : l = Libre /\ l.op # "TRUNCATE"
  BY LibreTipo
<1>2. ASSUME UNCHANGED archivos PROVE FatInv(Libre)'
  BY <1>1, <1>2, QuietoFat
<1>3. CASE Crear(h)
  <2> DEFINE q == hilo[h].quien
  <2>1. /\ q \in Archivos /\ UNCHANGED <<fat, bloques_libres_fat>>
        /\ fcb' = [fcb EXCEPT ![q] = [SinFcb EXCEPT !.existe = TRUE]]
    BY <1>3, CrearTipo
  <2>2. fcb \in [Archivos -> Fcbs]
    BY DEF TipoInv, TipoArchivos
  <2>3. /\ fcb'[q].nombre /\ fcb'[q].tamanio = 0 /\ fcb'[q].inicial = Fin
        /\ \A f \in Archivos \ {q} : fcb'[f] = fcb[f]
    BY <2>1, <2>2 DEF SinFcb
  <2>4. Marcados'
    BY <2>1, <2>3, LlenoBase, Constantes DEF FatInv, Marcados
  <2>5. Adelante(l)'
    BY <1>1, <2>1 DEF FatInv, Adelante, Apunta
  <2>6. Iniciales(l)'
    BY <1>1, <2>3 DEF FatInv, Iniciales, EnCurso
  <2>7. FatInv(l)'
    BY <1>1, <2>4, <2>5, <2>6 DEF FatInv, Local
  <2> QED
    BY <1>1, <2>7
<1>4. CASE \/ Abrir(h) \/ Fseek(h) \/ Buscar(h) \/ LeerOEscribir(h) \/ Localizar(h) \/ Hablar(h)
           \/ HablarConCliente(h) \/ Responder(h) \/ Situar(h) \/ Acceder(h) \/ Rebobinar(h)
  BY <1>2, <1>4, NucleoEs, AbrirTipo, FseekTipo, BuscarTipo, LeerOEscribirTipo, LocalizarTipo,
     HablarTipo, HablarConClienteTipo, ResponderTipo, SituarTipo, AccederTipo, RebobinarTipo
<1>5. CASE Truncar(h) \/ Asignar(h) \/ Marcar(h) \/ Enganchar(h) \/ Enlazar(h) \/ Cerrar(h)
  BY <1>5, TruncarTipo, AsignarTipo, MarcarTipo, EngancharTipo, EnlazarTipo, CerrarTipo
<1>6. CASE \/ Cortar(h) \/ Borrar(h) \/ Releer(h) \/ GrabarInicial(h) \/ GrabarTamanio(h)
           \/ Recorrer(h) \/ Liberar(h)
  BY <1>6, CortarTipo, BorrarTipo, ReleerTipo, GrabarInicialTipo, GrabarTamanioTipo, RecorrerTipo,
     LiberarTipo DEF Recorrer, Liberar
<1> QED
  BY <1>3, <1>4, <1>5, <1>6 DEF PasoNucleo

\* What the invariant says before a step that keeps solos.
LEMMA ArchivosEs ==
  ASSUME ArchivosInv, solos
  PROVE  /\ Exclusivos
         /\ \A h \in Nucleos : hilo[h].op = "TRUNCATE" => FatInv(hilo[h])
         /\ (\A h \in Nucleos : hilo[h].op # "TRUNCATE") => FatInv(Libre)
BY DEF ArchivosInv

LEMMA NucleoArchivos ==
  ASSUME TipoInv, ArchivosInv, NEW h \in Nucleos, PasoNucleo(h), ~Cae PROVE ArchivosInv'
<1> SUFFICES ASSUME solos'
             PROVE  /\ Exclusivos'
                    /\ \A g \in Nucleos : hilo'[g].op = "TRUNCATE" => FatInv(hilo[g])'
                    /\ (\A g \in Nucleos : hilo'[g].op # "TRUNCATE") => FatInv(Libre)'
  BY DEF ArchivosInv
<1>1. /\ solos /\ hilo[h].pc # "libre" /\ \A g \in Nucleos \ {h} : hilo'[g] = hilo[g]
      /\ hilo'[h] = Libre \/ Sigue(hilo[h], hilo'[h])
  BY NucleoAjeno, NucleoPaso, Constantes DEF EnNucleo, Solo
<1>2. /\ Exclusivos
      /\ \A g \in Nucleos : hilo[g].op = "TRUNCATE" => FatInv(hilo[g])
      /\ (\A g \in Nucleos : hilo[g].op # "TRUNCATE") => FatInv(Libre)
  BY <1>1, ArchivosEs
<1>3. hilo'[h].op \in {hilo[h].op, "NINGUNA"}
  BY <1>1, LibreTipo DEF Sigue
<1>4. Exclusivos'
  <2>1. ASSUME NEW g \in Nucleos, hilo'[g].pc # "libre"
        PROVE  hilo[g].pc # "libre" /\ hilo'[g].op \in {hilo[g].op, "NINGUNA"}
    BY <1>1, <1>3, <2>1
  <2> QED
    BY <1>2, <2>1 DEF Exclusivos, Activo
<1>5. CASE hilo[h].op = "TRUNCATE"
  <2>1. FatInv(hilo[h])' /\ (hilo'[h].op # "TRUNCATE" => FatInv(Libre)')
    BY <1>2, <1>5, TruncateSigue
  <2>2. \A g \in Nucleos \ {h} : hilo'[g].op = "NINGUNA"
    BY <1>1, <1>2, <1>5, SinOtra
  <2> QED
    BY <1>4, <2>1, <2>2
<1>6. CASE hilo[h].op # "TRUNCATE"
  <2>1. \A g \in Nucleos : hilo[g].op # "TRUNCATE"
    BY <1>1, <1>2, <1>6, SinOtra
  <2>2. FatInv(Libre)'
    BY <1>2, <1>6, <2>1, OtraSigue
  <2>3. \A g \in Nucleos : hilo'[g].op # "TRUNCATE"
    BY <1>1, <1>3, <2>1
  <2> QED
    BY <1>4, <2>2, <2>3
<1> QED
  BY <1>5, <1>6

LEMMA PideArchivos ==
  ASSUME TipoInv, ArchivosInv, NEW h \in Nucleos, NEW op \in Operaciones, NEW f \in Archivos,
         NEW n \in Nat, Pide(h, op, f, n)
  PROVE  ArchivosInv'
<1> SUFFICES ASSUME solos'
             PROVE  /\ Exclusivos'
                    /\ \A g \in Nucleos : hilo'[g].op = "TRUNCATE" => FatInv(hilo[g])'
                    /\ (\A g \in Nucleos : hilo'[g].op # "TRUNCATE") => FatInv(Libre)'
  BY DEF ArchivosInv
<1>1. /\ hilo'[h] = Ficha(op, f, n) /\ \A g \in Nucleos \ {h} : hilo'[g] = hilo[g]
      /\ UNCHANGED archivos /\ hilo[h].pc = "libre"
  BY PideTipo, Constantes DEF Solo
<1>2. /\ solos
      /\ \A g \in Nucleos : Activo(g) => {op, hilo[g].op} \cap {"CREATE", "TRUNCATE"} = {}
  BY DEF Pide
<1>3. /\ Exclusivos
      /\ \A g \in Nucleos : hilo[g].op = "TRUNCATE" => FatInv(hilo[g])
      /\ (\A g \in Nucleos : hilo[g].op # "TRUNCATE") => FatInv(Libre)
  BY <1>2, ArchivosEs
<1>4. PICK z : z = hilo'[h]
  OBVIOUS
<1>5. z.op = op /\ z.pc = "nace" /\ z.quien = f /\ z.n = n
  BY <1>1, <1>4, FichaEs
<1>6. Exclusivos'
  <2> SUFFICES ASSUME NEW g \in Nucleos, NEW k \in Nucleos, g # k,
                      hilo'[g].pc # "libre", hilo'[k].pc # "libre"
               PROVE  hilo'[g].op \notin {"CREATE", "TRUNCATE"}
    BY DEF Exclusivos, Activo
  <2>1. CASE g = h
    BY <1>1, <1>2, <1>4, <1>5, <2>1 DEF Activo
  <2>2. CASE g # h
    BY <1>1, <1>2, <1>3, <2>2 DEF Activo, Exclusivos
  <2> QED
    BY <2>1, <2>2
<1>7. \A g \in Nucleos : hilo[g].op # "TRUNCATE"
  <2> SUFFICES ASSUME NEW g \in Nucleos, hilo[g].op = "TRUNCATE" PROVE FALSE
    OBVIOUS
  <2>1. hilo[g].pc # "libre"
    BY NucleoEs DEF PuntoNucleo, DeTruncar
  <2> QED
    BY <1>2, <2>1 DEF Activo
<1>8. PICK l : l = Libre /\ l.op # "TRUNCATE" /\ FatInv(l)
  BY <1>3, <1>7, LibreTipo
<1>9. z.op # "TRUNCATE" => FatInv(l)'
  BY <1>1, <1>8, QuietoFat
<1>10. z.op = "TRUNCATE" => FatInv(z)'
  BY <1>1, <1>4, <1>5, <1>8, QuietoFat
<1> QED
  BY <1>1, <1>4, <1>6, <1>7, <1>8, <1>9, <1>10, PonFat

LEMMA ArchivosInicial ==
  Init => ArchivosInv
<1> SUFFICES ASSUME Init PROVE ArchivosInv
  OBVIOUS
<1>1. TipoInv
  BY TipoInicial
<1>2. \A h \in Nucleos : hilo[h].op # "TRUNCATE" /\ hilo[h].pc = "libre"
  BY LibreTipo, Constantes DEF Init
<1>3. Exclusivos
  BY <1>2 DEF Exclusivos, Activo
<1>4. /\ fcb = [f \in Archivos |-> SinFcb] /\ \A e \in BloquesFat \cup {Fin} : fat[e] \in {0, Fin}
  BY DEF Init
<1>5. Marcados /\ Iniciales(Libre) /\ Adelante(Libre)
  BY <1>4, LlenoBase, Constantes DEF Marcados, Iniciales, Adelante, Apunta, SinFcb
<1> QED
  BY <1>2, <1>3, <1>5, LibreTipo DEF ArchivosInv, FatInv, Local

LEMMA ArchivosPaso ==
  ASSUME TipoInv, ArchivosInv, [Next]_vars PROVE ArchivosInv'
<1>1. CASE UNCHANGED vars \/ Cae
  BY <1>1, NucleosParecidos DEF vars, Cae, Parecida
<1>2. ASSUME NEW h \in Nucleos, NEW g \in Nucleos, MarcarJuntos(h, g) PROVE ArchivosInv'
  <2>1. h # g /\ hilo[h].op = "TRUNCATE" /\ hilo[g].op = "TRUNCATE"
    BY <1>2, MarcarJuntosTipo
  <2>2. hilo[h].pc # "libre"
    BY <2>1, NucleoEs DEF PuntoNucleo, DeTruncar
  <2>3. ~Exclusivos
    BY <2>1, <2>2, SinOtra
  <2>4. solos' = solos
    BY <1>2 DEF MarcarJuntos, Ajeno
  <2> QED
    BY <2>3, <2>4 DEF ArchivosInv
<1>3. CASE DelNucleo /\ ~Cae
  BY <1>2, <1>3, PideArchivos, NucleoArchivos DEF DelNucleo, PideAlgo
<1>4. CASE DeLaMemoria
  BY <1>4, MemoriaAjena, NucleosParecidos
<1> QED
  BY <1>1, <1>3, <1>4, Pasos

\* What the two theorems below follow from, as long as every TRUNCATE is alone among the requests
\* of the kernel: no bit but that of block 0 is cleared, so that a block is always taken after
\* every block in use (the test of fileSystem.c:409 from block 1 on).
THEOREM ArchivosInvariante == Spec => []ArchivosInv
<1>1. Init => TipoInv /\ ArchivosInv
  BY TipoInicial, ArchivosInicial
<1>2. (TipoInv /\ ArchivosInv) /\ [Next]_vars => (TipoInv /\ ArchivosInv)'
  BY TipoPaso, ArchivosPaso
<1> QED
  BY <1>1, <1>2, PTL DEF Spec

\* However files have been created, grown and shrunk, an entry of the FAT that is neither free nor
\* the end points to a later one, except for the block being added: no walk of buscar_en_fat or of
\* the growth of a file goes round but through entry 0.  For any number of files, blocks and
\* requests, in every behaviour up to the first TRUNCATE or CREATE that meets another request of
\* the kernel (solos), with any requests of the memory in between.
THEOREM CadenasTeorema == Spec => []CadenasAvanzan
<1>1. ASSUME TipoInv, ArchivosInv PROVE CadenasAvanzan
  <2> SUFFICES ASSUME solos, NEW e \in BloquesFat \ {0}
               PROVE  \/ fat[e] \in {0, Fin} \/ fat[e] > e
                      \/ /\ fat[e] = e
                         /\ \E h \in Nucleos : Activo(h) /\ e \in {hilo[h].anterior, hilo[h].cursor}
    BY DEF CadenasAvanzan
  <2>1. CASE \A h \in Nucleos : hilo[h].op # "TRUNCATE"
    <3>1. Apunta(e, Libre) /\ Libre.op # "TRUNCATE"
      BY <1>1, <2>1, ArchivosEs, LibreTipo DEF FatInv, Adelante
    <3> QED
      BY <3>1 DEF Apunta
  <2>2. ASSUME NEW h \in Nucleos, hilo[h].op = "TRUNCATE"
        PROVE  \/ fat[e] \in {0, Fin} \/ fat[e] > e
               \/ fat[e] = e /\ Activo(h) /\ e \in {hilo[h].anterior, hilo[h].cursor}
    <3>1. Apunta(e, hilo[h])
      BY <1>1, <2>2, ArchivosEs DEF FatInv, Adelante
    <3>2. Activo(h)
      BY <1>1, <2>2, NucleoEs DEF PuntoNucleo, DeTruncar, Activo
    <3> QED
      BY <3>1, <3>2 DEF Apunta
  <2> QED
    BY <2>1, <2>2
<1> QED
  BY <1>1, ArchivosInvariante, TipoInvariante, PTL

\* A file that no request is working on has an initial block if and only if its size is not zero,
\* and that block is marked in the bitmap and starts no other file; up to the first TRUNCATE or
\* CREATE that meets another request of the kernel.
THEOREM FcbTeorema == Spec => []FcbCoherente
<1>1. ASSUME TipoInv, ArchivosInv PROVE FcbCoherente
  <2> SUFFICES ASSUME solos, NEW f \in Archivos, \A h \in Nucleos : hilo[h].quien # f
               PROVE  /\ fcb[f].tamanio = 0 <=> fcb[f].inicial = Fin
                      /\ fcb[f].inicial # Fin => fcb[f].inicial \in bloques_libres_fat
                      /\ \A g \in Archivos \ {f} :
                           fcb[f].inicial = fcb[g].inicial => fcb[f].inicial = Fin
    BY DEF FcbCoherente
  <2>1. \E y : FatInv(y) /\ ~EnCurso(f, y)
    <3>1. CASE \A h \in Nucleos : hilo[h].op # "TRUNCATE"
      <4>1. FatInv(Libre) /\ Libre.op # "TRUNCATE"
        BY <1>1, <3>1, ArchivosEs, LibreTipo
      <4> QED
        BY <4>1 DEF EnCurso
    <3>2. ASSUME NEW h \in Nucleos, hilo[h].op = "TRUNCATE" PROVE \E y : FatInv(y) /\ ~EnCurso(f, y)
      <4>1. PICK y : y = hilo[h]
        OBVIOUS
      <4>2. FatInv(y) /\ y.quien # f
        BY <1>1, <3>2, <4>1, ArchivosEs
      <4> QED
        BY <4>2 DEF EnCurso
    <3> QED
      BY <3>1, <3>2
  <2>2. PICK y : FatInv(y) /\ ~EnCurso(f, y)
    BY <2>1
  <2>3. /\ fcb[f].tamanio = 0 <=> fcb[f].inicial = Fin
        /\ \A g \in Archivos \ {f} : fcb[f].inicial = fcb[g].inicial => fcb[f].inicial = Fin
        /\ fcb[f].inicial # 0 /\ Lleno(bloques_libres_fat, fcb[f].inicial)
    BY <2>2 DEF FatInv, Iniciales, Marcados
  <2>4. fcb[f].inicial \in Nat \cup {Fin}
    BY <1>1, <2>2, FatTipos, Constantes DEF FatInv
  <2> QED
    BY <2>3, <2>4, LlenoTiene
<1> QED
  BY <1>1, ArchivosInvariante, TipoInvariante, PTL

-----------------------------------------------------------------------------
(* The swap.  With one page contar_bloques' two frees a block that is not  *)
(* of the process, so what follows has the hypothesis:                     *)

DosPaginas == \A p \in Procesos : Paginas[p] >= 2

Terminando(p) == aqui.op = "PROCESS_FINISHED" /\ aqui.quien = p

Repartidos ==
  /\ \A p, q \in Procesos : p # q => bloques_de[p] \cap bloques_de[q] = {}
  /\ \A p \in Procesos : p \notin vivos => bloques_de[p] = {}
  /\ \A p \in vivos : Cardinality(bloques_de[p]) >= 2
  /\ \A p \in vivos : ~Terminando(p) => bloques_de[p] \subseteq bloques_libres_swap

\* reservar_bloques_de_swap: what it has taken, and what is left to take.
Reservando ==
  aqui.op = "PROCESS_STARTED" =>
    /\ aqui.quien \notin vivos /\ aqui.n = Paginas[aqui.quien]
    /\ aqui.tomados \subseteq bloques_libres_swap
    /\ \A q \in Procesos : aqui.tomados \cap bloques_de[q] = {}
    /\ Cardinality(aqui.tomados) = aqui.n - aqui.quedan
    /\ aqui.pc = "responde" \/ (Escribe(aqui) /\ aqui.luego = "responde") => aqui.quedan = 0

Devolviendo ==
  aqui.op = "PROCESS_FINISHED" =>
    aqui.quien \in vivos /\ aqui.tomados \subseteq bloques_de[aqui.quien]

SwapInv == Repartidos /\ Reservando /\ Devolviendo

-----------------------------------------------------------------------------
(* The contents of the swap, while requests of the memory come one by one. *)

\* The page that belongs in block b is on its way.
EnViaje(b) ==
  \E h \in Escritores : Activo(h) /\ hilo[h].op = "ESCRIBIR_SWAP" /\ hilo[h].bloque = b

DeUnoEnUno ==
  /\ \A h \in Nucleos : ~Activo(h)
  /\ \A g, h \in Hilos : Activo(g) /\ Activo(h) => g = h
  /\ \A h \in Escritores : Activo(h) => hilo[h].vigente

Guardadas == \A p \in vivos : \A b \in bloques_de[p] : b \in intactos \/ EnViaje(b)

\* Where the position of bloques_file is when a thread uses it.
Situados ==
  /\ aqui.op = "PROCESS_STARTED" /\ aqui.pc = "accede" => posicion \in aqui.tomados
  /\ aqui.op = "LEER_SWAP" =>
       aqui.bloque \in intactos /\ (aqui.pc = "accede" => posicion = aqui.bloque)
  /\ \A h \in Escritores : hilo[h].op = "ESCRIBIR_SWAP" /\ hilo[h].pc = "accede" =>
       posicion = hilo[h].bloque

FielInv == aislados => ~mal_leida /\ DeUnoEnUno /\ Guardadas /\ Situados

-----------------------------------------------------------------------------
(* The swap blocks *)

LEMMA AquiPrima ==
  ASSUME NEW r, Solo(Memoria, r) \/ Casi(Memoria, r) PROVE aqui' = r
BY DEF Solo, Casi, aqui

\* Threads other than the one of Memoria leave its ticket.
LEMMA AquiAjeno ==
  ASSUME NEW h \in Hilos \ {Memoria}, NEW r, Solo(h, r) \/ Casi(h, r)
  PROVE  Parecida(aqui, aqui')
<1>1. Casi(h, r)
  BY SoloCasi
<1> QED
  BY <1>1, Constantes DEF Casi, aqui

LEMMA NucleoAparte ==
  ASSUME TipoInv, DelNucleo
  PROVE  UNCHANGED <<bloques_libres_swap, vivos, bloques_de>> /\ Parecida(aqui, aqui')
<1> DEFINE Aparte == UNCHANGED <<bloques_libres_swap, vivos, bloques_de>> /\ Parecida(aqui, aqui')
<1>1. ASSUME Cae PROVE Aparte
  BY <1>1 DEF Cae, memoria, aqui, Parecida
<1>2. ASSUME NEW h \in Nucleos, NEW r, Solo(h, r) PROVE Parecida(aqui, aqui')
  BY <1>2, AquiAjeno, Constantes
<1>3. ASSUME NEW h \in Nucleos, NEW op \in Operaciones, NEW f \in Archivos, NEW n \in Nat,
             Pide(h, op, f, n)
      PROVE  Aparte
  BY <1>2, <1>3, PideTipo DEF Pide, memoria
<1>4. ASSUME NEW h \in Nucleos, PasoNucleo(h) PROVE Aparte
  BY <1>1, <1>2, <1>4, NucleoAjeno, NucleoPaso DEF EnNucleo
<1>5. ASSUME NEW h \in Nucleos, NEW g \in Nucleos, MarcarJuntos(h, g) PROVE Aparte
  <2>1. hilo'[Memoria] = hilo[Memoria]
    BY <1>5, MarcarJuntosTipo, Constantes
  <2> QED
    BY <1>5, <2>1 DEF MarcarJuntos, Ajeno, memoria, aqui, Parecida
<1> QED
  BY <1>3, <1>4, <1>5 DEF DelNucleo, PideAlgo

LEMMA SwapInicial ==
  ASSUME Init PROVE SwapInv
<1>1. aqui = Libre
  BY Constantes DEF Init, aqui
<1>2. aqui.op = "NINGUNA"
  BY <1>1 DEF Libre
<1> QED
  BY <1>2 DEF Init, SwapInv, Repartidos, Reservando, Devolviendo

LEMMA SwapIgual ==
  ASSUME SwapInv, UNCHANGED <<bloques_libres_swap, vivos, bloques_de>>, Parecida(aqui, aqui')
  PROVE  SwapInv'
BY DEF SwapInv, Repartidos, Reservando, Devolviendo, Terminando, Escribe, Parecida

LEMMA SwapFuera ==
  ASSUME SwapInv, UNCHANGED <<bloques_libres_swap, vivos, bloques_de>>,
         aqui.op \notin {"PROCESS_STARTED", "PROCESS_FINISHED"},
         aqui'.op \notin {"PROCESS_STARTED", "PROCESS_FINISHED"}
  PROVE  SwapInv'
BY DEF SwapInv, Repartidos, Reservando, Devolviendo, Terminando

LEMMA ArrancarSwap ==
  ASSUME TipoInv, SwapInv, NEW p \in Procesos, Arrancar(p) PROVE SwapInv'
<1>1. /\ aqui' = Arrancado(p) /\ EnPedido /\ p \notin vivos /\ aqui.pc = "libre"
  BY ArrancarTipo, AquiPrima
<1>2. /\ aqui'.op = "PROCESS_STARTED" /\ aqui'.quien = p /\ aqui'.n = Paginas[p]
      /\ aqui'.quedan = Paginas[p] /\ aqui'.tomados = {} /\ aqui'.pc = "nace"
  BY <1>1 DEF Arrancado, Pedido, Libre
<1>3. aqui.op = "NINGUNA"
  BY <1>1, AquiTipo DEF PuntoMemoria
<1>4. Repartidos'
  BY <1>1, <1>2, <1>3 DEF SwapInv, Repartidos, Terminando, EnPedido, memoria
<1>5. Reservando'
  <2>1. PICK k \in Nat : k = Paginas[p]
    BY Constantes
  <2>2. Cardinality({}) = k - k
    BY FS_EmptySet
  <2> QED
    BY <1>1, <1>2, <2>1, <2>2 DEF Reservando, Escribe, EnPedido, memoria
<1> QED
  BY <1>2, <1>4, <1>5 DEF SwapInv, Devolviendo

\* contar_bloques' two are blocks of the process when it has two.
LEMMA LiberadosSuyos ==
  ASSUME NEW B, Cardinality(B) >= 2, NEW s \in Liberados(B) PROVE s \subseteq B
BY DEF Liberados

LEMMA TerminarSwap ==
  ASSUME TipoInv, SwapInv, NEW p \in Procesos, Terminar(p) PROVE SwapInv'
<1>1. PICK s \in Liberados(bloques_de[p]) : aqui' = Terminado(p, s)
  BY TerminarTipo, AquiPrima
<1>2. EnPedido /\ p \in vivos /\ aqui.pc = "libre"
  BY TerminarTipo
<1>3. aqui'.op = "PROCESS_FINISHED" /\ aqui'.quien = p /\ aqui'.tomados = s
  BY <1>1 DEF Terminado, Pedido, Libre
<1>4. aqui.op = "NINGUNA"
  BY <1>2, AquiTipo DEF PuntoMemoria
<1>5. Repartidos'
  BY <1>2, <1>4 DEF SwapInv, Repartidos, Terminando, EnPedido, memoria
<1>6. s \subseteq bloques_de[p]
  BY <1>2, LiberadosSuyos DEF SwapInv, Repartidos
<1> QED
  BY <1>2, <1>3, <1>5, <1>6 DEF SwapInv, Reservando, Devolviendo, EnPedido, memoria

LEMMA ReservarSwap ==
  ASSUME TipoInv, SwapInv, Reservar, ~Cae PROVE SwapInv'
<1> DEFINE m == Min(Libres)
<1>1. /\ aqui.pc = "reserva" /\ aqui.op = "PROCESS_STARTED" /\ aqui' = Reservado
      /\ m \in BloquesSwap \ bloques_libres_swap
      /\ bloques_libres_swap' = bloques_libres_swap \cup {m} /\ UNCHANGED memoria
  BY ReservarTipo, AquiPrima
<1>2. /\ aqui'.op = "PROCESS_STARTED" /\ aqui'.quien = aqui.quien /\ aqui'.n = aqui.n
      /\ aqui'.quedan = aqui.quedan - 1 /\ aqui'.tomados = aqui.tomados \cup {m}
      /\ aqui'.pc = "accede"
      /\ aqui'.luego = IF aqui.quedan = 1 THEN "responde" ELSE "reserva"
  <2> DEFINE l == IF aqui.quedan = 1 THEN "responde" ELSE "reserva"
  <2> HIDE DEF m, l
  <2>1. aqui' = [aqui EXCEPT !.pc = "accede", !.luego = l, !.cursor = m + 1,
                             !.quedan = aqui.quedan - 1, !.tomados = aqui.tomados \cup {m}]
    BY <1>1 DEF Reservado, m, l
  <2>2. aqui'.luego = l /\ aqui'.op = aqui.op /\ aqui'.quien = aqui.quien /\ aqui'.n = aqui.n
        /\ aqui'.quedan = aqui.quedan - 1 /\ aqui'.tomados = aqui.tomados \cup {m}
        /\ aqui'.pc = "accede"
    BY <2>1, AquiTipo DEF Fichas
  <2> QED
    BY <1>1, <2>2 DEF l
<1> HIDE DEF m
<1>3. Repartidos'
  BY <1>1, <1>2 DEF SwapInv, Repartidos, Terminando, memoria
<1>4. \A q \in Procesos : m \notin bloques_de[q]
  BY <1>1 DEF SwapInv, Repartidos, Terminando
<1>5. m \notin aqui.tomados
  BY <1>1 DEF SwapInv, Reservando
<1>6. Cardinality(aqui.tomados \cup {m}) = aqui.n - (aqui.quedan - 1)
  <2>1. IsFiniteSet(aqui.tomados)
    <3>1. aqui.tomados \subseteq BloquesSwap
      BY AquiTipo, FichaTipo
    <3>2. IsFiniteSet(BloquesSwap)
      BY Constantes, FS_Interval DEF BloquesSwap
    <3> QED
      BY <3>1, <3>2, FS_Subset
  <2>2. Cardinality(aqui.tomados \cup {m}) = Cardinality(aqui.tomados) + 1
    BY <1>5, <2>1, FS_AddElement
  <2>3. PICK n \in Nat, k \in Int : n = aqui.n /\ k = aqui.quedan
    BY AquiTipo, FichaTipo
  <2>4. Cardinality(aqui.tomados) = n - k
    BY <1>1, <2>3 DEF SwapInv, Reservando
  <2> QED
    BY <2>2, <2>3, <2>4
<1>7. aqui'.luego = "responde" => aqui'.quedan = 0
  <2>1. PICK k \in Int : k = aqui.quedan
    BY AquiTipo, FichaTipo
  <2> QED
    BY <1>2, <2>1
<1>8. Reservando'
  <2>1. /\ aqui.quien \notin vivos /\ aqui.n = Paginas[aqui.quien]
        /\ aqui.tomados \subseteq bloques_libres_swap
        /\ \A q \in Procesos : aqui.tomados \cap bloques_de[q] = {}
    BY <1>1 DEF SwapInv, Reservando
  <2>2. UNCHANGED <<vivos, bloques_de>>
    BY <1>1 DEF memoria
  <2>3. \A q \in Procesos : (aqui.tomados \cup {m}) \cap bloques_de[q] = {}
    BY <1>4, <2>1
  <2>4. (aqui.tomados \cup {m}) \subseteq bloques_libres_swap'
    BY <1>1, <2>1
  <2> QED
    BY <1>2, <1>6, <1>7, <2>1, <2>2, <2>3, <2>4 DEF Reservando, Escribe
<1> QED
  BY <1>2, <1>3, <1>8 DEF SwapInv, Devolviendo

LEMMA LiberarSwapSwap ==
  ASSUME TipoInv, SwapInv, LiberarSwap PROVE SwapInv'
<1>1. /\ aqui' = [aqui EXCEPT !.pc = "responde"] /\ aqui.op = "PROCESS_FINISHED"
      /\ bloques_libres_swap' = bloques_libres_swap \ aqui.tomados /\ UNCHANGED memoria
  BY LiberarSwapTipo, AquiPrima
<1>2. aqui'.op = aqui.op /\ aqui'.quien = aqui.quien /\ aqui'.tomados = aqui.tomados
  BY <1>1, AquiTipo, ConPc
<1>3. aqui.quien \in vivos /\ aqui.tomados \subseteq bloques_de[aqui.quien]
  BY <1>1 DEF SwapInv, Devolviendo
<1>4. vivos \subseteq Procesos
  BY DEF TipoInv, TipoSwap
<1>5. Repartidos'
  <2>1. ASSUME NEW p \in vivos, ~Terminando(p)' PROVE bloques_de[p] \subseteq bloques_libres_swap'
    <3>1. p # aqui.quien
      BY <1>1, <1>2, <2>1 DEF Terminando
    <3>2. bloques_de[p] \cap aqui.tomados = {}
      BY <1>3, <1>4, <3>1 DEF SwapInv, Repartidos
    <3>3. bloques_de[p] \subseteq bloques_libres_swap
      BY <3>1 DEF SwapInv, Repartidos, Terminando
    <3> QED
      BY <1>1, <3>2, <3>3
  <2> QED
    BY <1>1, <2>1 DEF SwapInv, Repartidos, memoria
<1> QED
  BY <1>1, <1>2, <1>3, <1>5 DEF SwapInv, Reservando, Devolviendo, memoria

LEMMA EntregarSwap ==
  ASSUME DosPaginas, TipoInv, SwapInv, NEW h \in Hilos, Entregar(h) PROVE SwapInv'
<1>1. /\ Solo(h, Libre) /\ Entregado(h) /\ hilo[h].pc = "responde" /\ h \notin Nucleos
      /\ hilo[h].quien \in Procesos
      /\ UNCHANGED bloques_libres_swap
  BY EntregarTipo
<1>2. hilo[h].op # "LEER_SWAP" => h = Memoria
  BY EntregarTipo
<1>3. bloques_de \in [Procesos -> SUBSET BloquesSwap] /\ vivos \subseteq Procesos
  BY DEF TipoInv, TipoSwap
<1>4. h = Memoria => aqui' = Libre /\ aqui'.op = "NINGUNA" /\ hilo[h] = aqui
  BY <1>1, AquiPrima, LibreTipo DEF aqui
<1>5. CASE hilo[h].op = "LEER_SWAP"
  <2>1. UNCHANGED <<bloques_libres_swap, vivos, bloques_de>>
    BY <1>1, <1>5 DEF Entregado
  <2>2. CASE h = Memoria
    BY <1>4, <1>5, <2>1, <2>2, SwapFuera
  <2>3. CASE h # Memoria
    BY <1>1, <2>1, <2>3, SwapIgual, AquiAjeno
  <2> QED
    BY <2>2, <2>3
<1>6. CASE hilo[h].op = "PROCESS_STARTED"
  <2> DEFINE q == aqui.quien
             T == aqui.tomados
  <2>1. aqui.op = "PROCESS_STARTED" /\ aqui.pc = "responde" /\ q \in Procesos
        /\ aqui'.op = "NINGUNA"
    BY <1>1, <1>2, <1>4, <1>6
  <2>2. /\ vivos' = vivos \cup {q} /\ bloques_de' = [bloques_de EXCEPT ![q] = T]
    BY <1>1, <1>2, <1>4, <1>6 DEF Entregado
  <2>3. /\ T \subseteq bloques_libres_swap /\ \A p \in Procesos : T \cap bloques_de[p] = {}
        /\ Cardinality(T) = aqui.n - aqui.quedan /\ aqui.quedan = 0 /\ aqui.n = Paginas[q]
    BY <2>1 DEF SwapInv, Reservando
  <2>4. Cardinality(T) >= 2
    <3>1. PICK k \in Nat : k = Paginas[q] /\ k >= 2
      BY <2>1, Constantes DEF DosPaginas
    <3> QED
      BY <2>3, <3>1
  <2>5. /\ bloques_de'[q] = T /\ \A p \in Procesos : p # q => bloques_de'[p] = bloques_de[p]
    BY <1>3, <2>1, <2>2
  <2>6. \A p \in Procesos : ~Terminando(p) /\ ~Terminando(p)'
    BY <2>1 DEF Terminando
  <2> HIDE DEF q, T
  <2>7. Repartidos'
    BY <1>1, <1>3, <2>1, <2>2, <2>3, <2>4, <2>5, <2>6 DEF SwapInv, Repartidos
  <2> QED
    BY <2>1, <2>7 DEF SwapInv, Reservando, Devolviendo
<1>7. CASE hilo[h].op = "PROCESS_FINISHED"
  <2> DEFINE q == aqui.quien
  <2>1. aqui.op = "PROCESS_FINISHED" /\ q \in Procesos /\ aqui'.op = "NINGUNA"
    BY <1>1, <1>2, <1>4, <1>7
  <2>2. vivos' = vivos \ {q} /\ bloques_de' = [bloques_de EXCEPT ![q] = {}]
    BY <1>1, <1>2, <1>4, <1>7 DEF Entregado
  <2>3. bloques_de'[q] = {} /\ \A p \in Procesos : p # q => bloques_de'[p] = bloques_de[p]
    BY <1>3, <2>1, <2>2
  <2>4. \A p \in Procesos : Terminando(p) => p = q
    BY DEF Terminando
  <2> HIDE DEF q
  <2>5. Repartidos'
    BY <1>1, <1>3, <2>1, <2>2, <2>3, <2>4 DEF SwapInv, Repartidos
  <2> QED
    BY <2>1, <2>5 DEF SwapInv, Reservando, Devolviendo
<1> QED
  BY <1>1, <1>5, <1>6, <1>7 DEF Entregado

\* The steps of Memoria's thread that change only its point.
LEMMA PuntoSwap ==
  ASSUME SwapInv, UNCHANGED <<bloques_libres_swap, vivos, bloques_de>>, TipoInv, NEW q,
         aqui' = [aqui EXCEPT !.pc = q],
         aqui.op = "PROCESS_STARTED" =>
           (q = "responde" \/ (q \in {"situa", "accede", "rebobina"} /\ aqui.luego = "responde")
              => aqui.quedan = 0)
  PROVE  SwapInv'
<1>1. /\ aqui'.pc = q /\ aqui'.op = aqui.op /\ aqui'.luego = aqui.luego
      /\ aqui'.quien = aqui.quien /\ aqui'.n = aqui.n /\ aqui'.quedan = aqui.quedan
      /\ aqui'.tomados = aqui.tomados
  BY AquiTipo, ConPc
<1> QED
  BY <1>1 DEF SwapInv, Repartidos, Reservando, Devolviendo, Terminando, Escribe

LEMMA SwapPaso ==
  ASSUME DosPaginas, TipoInv, SwapInv, [Next]_vars PROVE SwapInv'
<1> USE DEF memoria
<1>1. CASE UNCHANGED vars
  BY <1>1, SwapIgual DEF vars, Parecida, aqui
<1>2. CASE Cae
  BY <1>2, SwapIgual DEF Cae, Parecida, aqui
<1>3. CASE DelNucleo
  BY <1>3, NucleoAparte, SwapIgual
<1>4. CASE DeLaMemoria /\ ~Cae
  <2>1. ASSUME NEW p \in Procesos, Arrancar(p) \/ Terminar(p) PROVE SwapInv'
    BY <2>1, ArrancarSwap, TerminarSwap
  <2>2. ASSUME NEW p \in Procesos, NEW b \in BloquesSwap, PedirPagina(p, b) PROVE SwapInv'
    <3>1. aqui' = DePagina("LEER_SWAP", p, b) /\ aqui.pc = "libre" /\ EnPedido
      BY <2>2, PedirPaginaTipo, AquiPrima
    <3>2. aqui'.op = "LEER_SWAP"
      BY <3>1 DEF DePagina, Pedido, Libre
    <3>3. aqui.op = "NINGUNA"
      BY <3>1, AquiTipo DEF PuntoMemoria
    <3> QED
      BY <3>1, <3>2, <3>3, SwapFuera DEF EnPedido
  <2>3. ASSUME NEW p \in Procesos, NEW b \in BloquesSwap, NEW h \in Escritores,
               MandarPagina(h, p, b)
        PROVE  SwapInv'
    <3>1. Casi(h, DePagina("ESCRIBIR_SWAP", p, b)) /\ EnPedido
      BY <2>3, MandarPaginaTipo
    <3>2. h \in Hilos \ {Memoria}
      BY Constantes
    <3> QED
      BY <3>1, <3>2, AquiAjeno, SwapIgual DEF EnPedido
  <2>4. CASE EmpezarReserva
    <3>1. aqui' = [aqui EXCEPT !.pc = "reserva"]
          /\ UNCHANGED <<bloques_libres_swap, vivos, bloques_de>>
      BY <2>4, EmpezarReservaTipo, AquiPrima
    <3> QED
      BY <3>1, PuntoSwap
  <2>5. CASE Rebobinar(Memoria)
    <3>1. aqui' = [aqui EXCEPT !.pc = aqui.luego] /\ aqui.pc = "rebobina"
          /\ UNCHANGED <<bloques_libres_swap, vivos, bloques_de>>
      BY <2>5, RebobinarTipo, AquiPrima, AquiTipo DEF Rebobinar, Ajeno
    <3>2. aqui.op = "PROCESS_STARTED" =>
            (aqui.luego = "responde" => aqui.quedan = 0) /\ aqui.luego \in {"reserva", "responde"}
      BY <3>1, AquiTipo DEF SwapInv, Reservando, Escribe, PuntoMemoria
    <3> QED
      BY <3>1, <3>2, PuntoSwap
  <2>6. ASSUME NEW h \in Hilos \ Nucleos,
               EmpezarPagina(h) \/ UbicarPagina(h) \/ Acceder(h)
        PROVE  SwapInv'
    <3>1. UNCHANGED <<bloques_libres_swap, vivos, bloques_de>>
      BY <2>6 DEF EmpezarPagina, UbicarPagina, Acceder
    <3>2. CASE h # Memoria
      <4>1. Parecida(aqui, aqui')
        BY <2>6, <3>2, EmpezarPaginaTipo, UbicarPaginaTipo, AccederTipo, AquiAjeno
      <4> QED
        BY <3>1, <4>1, SwapIgual
    <3>3. CASE h = Memoria /\ ~Acceder(h)
      <4>1. aqui.op \in {"LEER_SWAP", "ESCRIBIR_SWAP"}
        BY <2>6, <3>3, EmpezarPaginaTipo, UbicarPaginaTipo DEF aqui
      <4>2. \E q : aqui' = [aqui EXCEPT !.pc = q]
        BY <2>6, <3>3, EmpezarPaginaTipo, UbicarPaginaTipo, AquiPrima DEF aqui
      <4>3. aqui'.op = aqui.op
        BY <4>2, AquiTipo, ConPc
      <4> QED
        BY <3>1, <4>1, <4>3, SwapFuera
    <3>4. CASE h = Memoria /\ Acceder(h)
      <4>1. aqui' = Accedido(aqui) /\ aqui.pc = "accede"
        BY <3>4, AccederTipo, AquiPrima, AquiTipo
      <4>2. CASE aqui.op = "LEER_SWAP"
        <5>1. aqui'.op = "LEER_SWAP"
          BY <4>1, <4>2, AccedidoEs, AquiTipo
        <5> QED
          BY <3>1, <4>2, <5>1, SwapFuera
      <4>3. CASE aqui.op # "LEER_SWAP"
        <5>1. aqui.op = "PROCESS_STARTED"
          BY <4>1, <4>3, AquiTipo DEF PuntoMemoria
        <5>2. aqui' = [aqui EXCEPT !.pc = "rebobina"]
          BY <4>1, <5>1, AccedidoEs, AquiTipo
        <5>3. aqui.luego = "responde" => aqui.quedan = 0
          BY <4>1, <5>1 DEF SwapInv, Reservando, Escribe
        <5> QED
          BY <3>1, <5>2, <5>3, PuntoSwap
      <4> QED
        BY <4>2, <4>3
    <3> QED
      BY <3>2, <3>3, <3>4
  <2>7. ASSUME NEW h \in Hilos \ Nucleos, Entregar(h) PROVE SwapInv'
    BY <2>7, EntregarSwap
  <2> QED
    BY <1>4, <2>1, <2>2, <2>3, <2>4, <2>5, <2>6, <2>7, ReservarSwap, LiberarSwapSwap
       DEF DeLaMemoria
<1> QED
  BY <1>1, <1>2, <1>3, <1>4, Pasos

\* The invariant the two theorems on the swap rest on.
THEOREM SwapInvariante ==
  ASSUME DosPaginas PROVE Spec => []SwapInv
<1>1. Init => TipoInv /\ SwapInv
  BY TipoInicial, SwapInicial
<1>2. (TipoInv /\ SwapInv) /\ [Next]_vars => (TipoInv /\ SwapInv)'
  BY TipoPaso, SwapPaso
<1> QED
  BY <1>1, <1>2, PTL DEF Spec

\* If every process has two pages at least, the swap blocks of two processes are different and
\* stay marked until their process ends, whatever the number of processes, pages and blocks and
\* whatever the order in which they start and end (reservar_bloques_de_swap, contar_bloques).
THEOREM SwapTeorema ==
  ASSUME DosPaginas PROVE Spec => []SwapDisjunta
<1>1. SwapInv => SwapDisjunta
  BY DEF SwapInv, Repartidos, Terminando, SwapDisjunta
<1> QED
  BY <1>1, SwapInvariante, PTL

-----------------------------------------------------------------------------
(* The contents of the swap *)

LEMMA FielInicial ==
  ASSUME Init PROVE FielInv
<1>1. \A h \in Hilos : hilo[h].pc = "libre" /\ hilo[h].op = "NINGUNA"
  BY LibreTipo DEF Init
<1>2. aqui.op = "NINGUNA" /\ ~mal_leida /\ vivos = {}
  BY <1>1, Constantes DEF Init, aqui
<1>3. DeUnoEnUno
  BY <1>1, Constantes DEF DeUnoEnUno, Activo
<1>4. Guardadas
  BY <1>2 DEF Guardadas
<1>5. Situados
  BY <1>1, <1>2, Constantes DEF Situados
<1> QED
  BY <1>2, <1>3, <1>4, <1>5 DEF FielInv

\* Requests of the kernel and of the memory are apart: the former end the isolation.
LEMMA NucleoFiel ==
  ASSUME TipoInv, FielInv, DelNucleo, ~Cae PROVE FielInv'
<1>1. ASSUME aislados' PROVE FALSE
  <2>1. ASSUME NEW h \in Nucleos, NEW op, NEW f, NEW n, Pide(h, op, f, n) PROVE FALSE
    BY <1>1, <2>1 DEF Pide, Acepta, Llega
  <2>2. ASSUME NEW h \in Nucleos, hilo[h].pc # "libre", aislados' = aislados PROVE FALSE
    BY <1>1, <2>2 DEF FielInv, DeUnoEnUno, Activo
  <2>3. ASSUME NEW h \in Nucleos, PasoNucleo(h) PROVE FALSE
    BY <2>2, <2>3, NucleoAjeno, NucleoPaso DEF EnNucleo
  <2>4. ASSUME NEW h \in Nucleos, NEW g \in Nucleos, MarcarJuntos(h, g) PROVE FALSE
    BY <2>2, <2>4 DEF MarcarJuntos, CambiaBit, conexion
  <2> QED
    BY <2>1, <2>3, <2>4 DEF DelNucleo, PideAlgo
<1> QED
  BY <1>1 DEF FielInv

LEMMA FielIgual ==
  ASSUME FielInv, UNCHANGED <<hilo, vivos, bloques_de, intactos, posicion, mal_leida, aislados>>
  PROVE  FielInv'
BY DEF FielInv, DeUnoEnUno, Guardadas, Situados, Activo, EnViaje, aqui

\* With no page on its way every block has its page.
LEMMA SinViaje ==
  ASSUME Guardadas,
         \A h \in Escritores : Activo(h) => hilo[h].op # "ESCRIBIR_SWAP"
  PROVE  \A p \in vivos : bloques_de[p] \subseteq intactos
BY DEF Guardadas, EnViaje

\* The request that arrives finds no other.
LEMMA LlegaFiel ==
  ASSUME FielInv, NEW h, Llega(h), aislados'
  PROVE  /\ ~mal_leida /\ \A g \in Hilos : ~Activo(g)
         /\ \A p \in vivos : bloques_de[p] \subseteq intactos
<1>1. aislados /\ \A g \in Hilos : ~Activo(g)
  BY DEF Llega, Activo
<1>2. Guardadas /\ ~mal_leida
  BY <1>1 DEF FielInv
<1> QED
  BY <1>1, <1>2, SinViaje, Constantes

LEMMA PedidoFiel ==
  ASSUME TipoInv', FielInv, NEW h \in Hilos \ Nucleos, NEW r, Llega(h), Casi(h, r), EnPedido,
         r.pc = "nace", r.vigente,
         h = Memoria /\ r.op = "LEER_SWAP" =>
           intactos' = intactos /\ \E p \in vivos : r.bloque \in bloques_de[p],
         \A b \in intactos \ intactos' : h \in Escritores /\ r.op = "ESCRIBIR_SWAP" /\ r.bloque = b
  PROVE  FielInv'
<1> SUFFICES ASSUME aislados' PROVE ~mal_leida' /\ DeUnoEnUno' /\ Guardadas' /\ Situados'
  BY DEF FielInv
<1>1. /\ ~mal_leida /\ \A g \in Hilos : hilo[g].pc = "libre"
      /\ \A p \in vivos : bloques_de[p] \subseteq intactos
  BY LlegaFiel DEF Activo
<1>2. hilo'[h] = r /\ \A g \in Hilos : g # h => hilo'[g].pc = "libre"
  BY <1>1 DEF Casi, Parecida
<1>3. UNCHANGED <<vivos, bloques_de, posicion, mal_leida>>
  BY DEF EnPedido, memoria
<1>4. DeUnoEnUno'
  BY <1>2, Constantes DEF DeUnoEnUno, Activo
<1>5. Guardadas'
  <2>1. ASSUME NEW p \in vivos, NEW b \in bloques_de[p], b \notin intactos' PROVE EnViaje(b)'
    <3>1. h \in Escritores /\ r.op = "ESCRIBIR_SWAP" /\ r.bloque = b
      BY <1>1, <2>1
    <3> QED
      BY <1>2, <3>1 DEF EnViaje, Activo
  <2> QED
    BY <1>3, <2>1 DEF Guardadas
<1>6. Situados'
  <2>1. h # Memoria => aqui'.pc = "libre"
    BY <1>2, Constantes DEF aqui
  <2>2. h # Memoria => aqui'.op = "NINGUNA"
    BY <2>1 DEF TipoInv, Puntos, PuntoMemoria, aqui
  <2>3. h = Memoria => aqui' = r
    BY <1>2 DEF aqui
  <2>4. h = Memoria /\ r.op = "LEER_SWAP" => r.bloque \in intactos'
    BY <1>1
  <2>5. \A g \in Escritores : hilo'[g].pc # "accede"
    BY <1>2, Constantes
  <2> QED
    BY <2>2, <2>3, <2>4, <2>5 DEF Situados
<1> QED
  BY <1>1, <1>3, <1>4, <1>5, <1>6

\* While requests come one by one only one thread has something to do.
LEMMA UnHilo ==
  ASSUME TipoInv', DeUnoEnUno, NEW h \in Hilos \ Nucleos, hilo[h].pc # "libre", NEW r, Solo(h, r),
         h \in Escritores => (r.vigente = hilo[h].vigente \/ r.pc = "libre")
  PROVE  /\ DeUnoEnUno' /\ hilo'[h] = r
         /\ \A g \in Hilos : g # h => hilo[g].pc = "libre" /\ hilo'[g].pc = "libre"
         /\ h = Memoria => aqui' = r
         /\ h # Memoria => aqui'.op = "NINGUNA"
<1>1. \A g \in Hilos : g # h => hilo[g].pc = "libre" /\ hilo'[g].pc = "libre"
  BY DEF DeUnoEnUno, Activo, Solo
<1>2. hilo'[h] = r
  BY DEF Solo
<1>3. DeUnoEnUno'
  BY <1>1, <1>2, Constantes DEF DeUnoEnUno, Activo
<1>4. h # Memoria => aqui'.pc = "libre"
  BY <1>1, Constantes DEF aqui
<1>5. h # Memoria => aqui'.op = "NINGUNA"
  BY <1>4 DEF TipoInv, Puntos, PuntoMemoria, aqui
<1> QED
  BY <1>1, <1>2, <1>3, <1>5 DEF aqui

\* A thread that goes on with its request, and touches no block.
LEMMA SigueFiel ==
  ASSUME TipoInv', FielInv, NEW h \in Hilos \ Nucleos, hilo[h].pc # "libre", NEW r, Solo(h, r),
         UNCHANGED <<vivos, bloques_de, intactos, mal_leida, aislados>>,
         r.pc # "libre", r.op = hilo[h].op, r.bloque = hilo[h].bloque, r.vigente = hilo[h].vigente,
         aislados /\ r.pc = "accede" =>
           IF r.op = "PROCESS_STARTED" THEN posicion' \in r.tomados ELSE posicion' = r.bloque
  PROVE  FielInv'
<1> SUFFICES ASSUME aislados' PROVE ~mal_leida' /\ DeUnoEnUno' /\ Guardadas' /\ Situados'
  BY DEF FielInv
<1>1. aislados /\ ~mal_leida /\ DeUnoEnUno /\ Guardadas /\ Situados
  BY DEF FielInv
<1>2. /\ DeUnoEnUno' /\ hilo'[h] = r
      /\ \A g \in Hilos : g # h => hilo[g].pc = "libre" /\ hilo'[g].pc = "libre"
      /\ h = Memoria => aqui' = r
      /\ h # Memoria => aqui'.op = "NINGUNA"
  BY <1>1, UnHilo
<1>3. Guardadas'
  <2>1. ASSUME NEW b, EnViaje(b) PROVE EnViaje(b)'
    <3>1. h \in Escritores /\ r.op = "ESCRIBIR_SWAP" /\ r.bloque = b
      BY <1>2, <2>1, Constantes DEF EnViaje, Activo
    <3> QED
      BY <1>2, <3>1 DEF EnViaje, Activo
  <2> QED
    BY <1>1, <2>1 DEF Guardadas
<1>4. Situados'
  <2>1. h = Memoria /\ r.op = "LEER_SWAP" => r.bloque \in intactos
    BY <1>1 DEF Situados, aqui
  <2>2. \A g \in Escritores : g # h => hilo'[g].pc # "accede"
    BY <1>2, Constantes
  <2> QED
    BY <1>1, <1>2, <2>1, <2>2 DEF Situados
<1> QED
  BY <1>1, <1>2, <1>3, <1>4

\* What is read or written where the position is.
LEMMA ContenidoFiel ==
  ASSUME TipoInv, SwapInv, DeUnoEnUno, Guardadas, Situados, NEW h \in Hilos \ Nucleos, Acceder(h)
  PROVE  /\ mal_leida' = mal_leida
         /\ \A p \in vivos : bloques_de[p] \subseteq intactos'
         /\ hilo[h].op \in {"LEER_SWAP", "ESCRIBIR_SWAP"} => intactos \subseteq intactos'
<1>1. /\ hilo[h].pc = "accede" /\ intactos' = Contenido(h)
      /\ mal_leida' = (mal_leida \/ /\ h = Memoria /\ hilo[h].op = "LEER_SWAP"
                                    /\ ~(posicion = hilo[h].bloque /\ posicion \in intactos))
  BY DEF Acceder, En
<1>2. \A g \in Hilos : g # h => ~Activo(g)
  BY <1>1 DEF DeUnoEnUno, Activo
<1>3. CASE h = Memoria
  <2>1. hilo[h] = aqui /\ aqui.op \in {"PROCESS_STARTED", "LEER_SWAP"}
    BY <1>1, <1>3, AquiTipo DEF PuntoMemoria
  <2>2. \A p \in vivos : bloques_de[p] \subseteq intactos
    BY <1>2, <1>3, SinViaje, Constantes
  <2>3. CASE aqui.op = "PROCESS_STARTED"
    <3>1. posicion \in aqui.tomados /\ \A p \in Procesos : aqui.tomados \cap bloques_de[p] = {}
      BY <1>1, <2>1, <2>3 DEF Situados, SwapInv, Reservando
    <3>2. intactos' = intactos \ {posicion} /\ mal_leida' = mal_leida
      BY <1>1, <2>1, <2>3 DEF Contenido, TipoInv, TipoResto
    <3>3. vivos \subseteq Procesos
      BY DEF TipoInv, TipoSwap
    <3> QED
      BY <2>1, <2>2, <2>3, <3>1, <3>2, <3>3
  <2>4. CASE aqui.op = "LEER_SWAP"
    <3>1. aqui.bloque \in intactos /\ posicion = aqui.bloque
      BY <1>1, <2>1, <2>4 DEF Situados
    <3>2. intactos' = intactos /\ mal_leida' = mal_leida
      BY <1>1, <2>1, <2>4, <3>1 DEF Contenido, TipoInv, TipoResto
    <3> QED
      BY <2>2, <3>2
  <2> QED
    BY <2>1, <2>3, <2>4
<1>4. CASE h \in Escritores
  <2>1. hilo[h].op \in {"ESCRIBIR_SWAP", "LEER_SWAP"}
    BY <1>1, <1>4, HiloTipo DEF PuntoEscritor
  <2>2. mal_leida' = mal_leida
    BY <1>1, <1>4, Constantes DEF TipoInv, TipoResto
  <2>3. CASE hilo[h].op = "ESCRIBIR_SWAP"
    <3>1. hilo[h].vigente /\ posicion = hilo[h].bloque
      BY <1>1, <1>4, <2>3 DEF DeUnoEnUno, Situados, Activo
    <3>2. intactos' = intactos \cup {hilo[h].bloque}
      BY <1>1, <2>3, <3>1 DEF Contenido
    <3>3. \A b : EnViaje(b) => b = hilo[h].bloque
      BY <1>2, Constantes DEF EnViaje
    <3> QED
      BY <2>2, <3>2, <3>3 DEF Guardadas
  <2>4. CASE hilo[h].op = "LEER_SWAP"
    <3>1. \A p \in vivos : bloques_de[p] \subseteq intactos
      BY <1>2, <2>4, SinViaje, Constantes
    <3>2. intactos' = intactos
      BY <1>1, <2>4 DEF Contenido
    <3> QED
      BY <2>2, <3>1, <3>2
  <2> QED
    BY <2>1, <2>3, <2>4
<1> QED
  BY <1>3, <1>4, Constantes

LEMMA AccederFiel ==
  ASSUME TipoInv, SwapInv, FielInv, NEW h \in Hilos \ Nucleos, Acceder(h) PROVE FielInv'
<1> DEFINE y == hilo[h]
           r == Accedido(y)
<1>1. /\ TipoInv' /\ Solo(h, r) /\ y.pc = "accede" /\ y \in Fichas
      /\ UNCHANGED <<vivos, bloques_de, aislados>>
  BY AccederTipo, HiloTipo DEF Acceder, memoria, conexion
<1> SUFFICES ASSUME aislados' PROVE ~mal_leida' /\ DeUnoEnUno' /\ Guardadas' /\ Situados'
  BY DEF FielInv
<1>2. aislados /\ ~mal_leida /\ DeUnoEnUno /\ Guardadas /\ Situados
  BY <1>1 DEF FielInv
<1>3. /\ mal_leida' = mal_leida /\ \A p \in vivos : bloques_de[p] \subseteq intactos'
      /\ y.op \in {"LEER_SWAP", "ESCRIBIR_SWAP"} => intactos \subseteq intactos'
  BY <1>2, ContenidoFiel
<1> HIDE DEF y
<1>4. /\ r.vigente = y.vigente /\ r.bloque = y.bloque /\ r.pc # "accede"
      /\ r.op = IF y.op = "ESCRIBIR_SWAP" THEN "LEER_SWAP" ELSE y.op
  BY <1>1, AccedidoEs
<1> HIDE DEF r
<1>5. /\ DeUnoEnUno' /\ hilo'[h] = r
      /\ \A g \in Hilos : g # h => hilo[g].pc = "libre" /\ hilo'[g].pc = "libre"
      /\ h = Memoria => aqui' = r
      /\ h # Memoria => aqui'.op = "NINGUNA"
  BY <1>1, <1>2, <1>4, UnHilo DEF y
<1>6. Guardadas'
  BY <1>1, <1>3 DEF Guardadas
<1>7. Situados'
  <2>1. h = Memoria /\ r.op = "LEER_SWAP" => r.bloque \in intactos'
    <3> SUFFICES ASSUME h = Memoria, r.op = "LEER_SWAP" PROVE r.bloque \in intactos'
      OBVIOUS
    <3>1. y = aqui /\ aqui.op # "ESCRIBIR_SWAP"
      BY AquiTipo DEF y, PuntoMemoria
    <3>2. aqui.bloque \in intactos
      BY <1>2, <1>4, <3>1 DEF Situados
    <3> QED
      BY <1>3, <1>4, <3>1, <3>2
  <2>2. \A g \in Escritores : hilo'[g].pc # "accede"
    BY <1>4, <1>5, Constantes
  <2> QED
    BY <1>4, <1>5, <2>1, <2>2 DEF Situados
<1> QED
  BY <1>2, <1>3, <1>5, <1>6, <1>7

LEMMA EntregarFiel ==
  ASSUME TipoInv, SwapInv, FielInv, NEW h \in Hilos, Entregar(h) PROVE FielInv'
<1>1. /\ TipoInv' /\ Solo(h, Libre) /\ EnSwap /\ Entregado(h) /\ hilo[h].pc = "responde"
      /\ h \notin Nucleos /\ hilo[h].quien \in Procesos
      /\ hilo[h].op # "LEER_SWAP" => h = Memoria
  BY EntregarTipo
<1> SUFFICES ASSUME aislados' PROVE ~mal_leida' /\ DeUnoEnUno' /\ Guardadas' /\ Situados'
  BY DEF FielInv
<1>2. aislados /\ ~mal_leida /\ mal_leida' = mal_leida /\ DeUnoEnUno /\ Guardadas /\ Situados
  BY <1>1 DEF FielInv, EnSwap, conexion
<1>3. /\ DeUnoEnUno' /\ hilo'[h] = Libre
      /\ \A g \in Hilos : g # h => hilo[g].pc = "libre" /\ hilo'[g].pc = "libre"
      /\ h = Memoria => aqui' = Libre
      /\ h # Memoria => aqui'.op = "NINGUNA"
  BY <1>1, <1>2, UnHilo, LibreTipo
<1>4. \A p \in vivos : bloques_de[p] \subseteq intactos
  <2>1. \A g \in Escritores : Activo(g) => hilo[g].op # "ESCRIBIR_SWAP"
    BY <1>1, <1>3, Constantes DEF Activo
  <2> QED
    BY <1>2, <2>1, SinViaje
<1>5. \A p \in vivos' : bloques_de'[p] \subseteq intactos'
  <2> DEFINE q == hilo[h].quien
             T == hilo[h].tomados
  <2>1. q \in Procesos /\ vivos \subseteq Procesos /\ bloques_de \in [Procesos -> SUBSET BloquesSwap]
    BY <1>1 DEF TipoInv, TipoSwap
  <2>2. CASE hilo[h].op = "PROCESS_STARTED"
    <3>1. /\ vivos' = vivos \cup {q} /\ bloques_de' = [bloques_de EXCEPT ![q] = T]
          /\ intactos' = intactos \cup T
      BY <1>1, <2>2 DEF Entregado
    <3> HIDE DEF q, T
    <3> QED
      BY <1>4, <2>1, <3>1
  <2>3. CASE hilo[h].op = "PROCESS_FINISHED"
    <3>1. /\ vivos' = vivos \ {q} /\ bloques_de' = [bloques_de EXCEPT ![q] = {}]
          /\ intactos' = intactos \ bloques_de[q]
      BY <1>1, <2>3 DEF Entregado
    <3> HIDE DEF q
    <3>2. ASSUME NEW p \in vivos, p # q PROVE bloques_de'[p] \subseteq intactos'
      <4>1. bloques_de[p] \cap bloques_de[q] = {} /\ bloques_de'[p] = bloques_de[p]
        BY <2>1, <3>1, <3>2 DEF SwapInv, Repartidos
      <4> QED
        BY <1>4, <3>1, <4>1
    <3> QED
      BY <3>1, <3>2
  <2>4. CASE hilo[h].op = "LEER_SWAP"
    BY <1>1, <1>4, <2>4 DEF Entregado
  <2> QED
    BY <1>1, <2>2, <2>3, <2>4 DEF Entregado
<1>6. Guardadas'
  BY <1>5 DEF Guardadas
<1>7. Situados'
  BY <1>3, LibreTipo, Constantes DEF Situados
<1> QED
  BY <1>2, <1>3, <1>6, <1>7

LEMMA FielPaso ==
  ASSUME TipoInv, SwapInv, FielInv, [Next]_vars PROVE FielInv'
<1> USE DEF memoria
<1>1. CASE UNCHANGED vars
  BY <1>1, FielIgual DEF vars, conexion
<1>2. CASE Cae
  <2>1. UNCHANGED <<hilo, vivos, bloques_de, intactos, posicion, mal_leida>>
    BY <1>2 DEF Cae
  <2>2. UNCHANGED aislados
    BY <1>2 DEF Cae, conexion
  <2> QED
    BY <2>1, <2>2, FielIgual
<1>3. CASE DelNucleo /\ ~Cae
  BY <1>3, NucleoFiel
<1>4. CASE DeLaMemoria /\ ~Cae
  <2>0. Memoria \in Hilos \ Nucleos /\ Escritores \subseteq Hilos \ Nucleos
    BY Constantes
  <2>1. ASSUME NEW p \in Procesos, Arrancar(p) PROVE FielInv'
    <3> DEFINE r == Arrancado(p)
    <3>1. /\ TipoInv' /\ Llega(Memoria) /\ Casi(Memoria, r) /\ EnPedido /\ UNCHANGED intactos
      BY <2>1, ArrancarTipo, SoloCasi
    <3>2. r.pc = "nace" /\ r.vigente /\ r.op = "PROCESS_STARTED"
      BY DEF Arrancado, Pedido, Libre
    <3> HIDE DEF r
    <3> QED
      BY <2>0, <3>1, <3>2, PedidoFiel
  <2>2. ASSUME NEW p \in Procesos, Terminar(p) PROVE FielInv'
    <3>1. PICK s \in Liberados(bloques_de[p]) : Casi(Memoria, Terminado(p, s))
      BY <2>2, TerminarTipo
    <3> DEFINE r == Terminado(p, s)
    <3>2. /\ TipoInv' /\ Llega(Memoria) /\ Casi(Memoria, r) /\ EnPedido /\ UNCHANGED intactos
      BY <2>2, <3>1, TerminarTipo
    <3>3. r.pc = "nace" /\ r.vigente /\ r.op = "PROCESS_FINISHED"
      BY DEF Terminado, Pedido, Libre
    <3> HIDE DEF r
    <3> QED
      BY <2>0, <3>2, <3>3, PedidoFiel
  <2>3. ASSUME NEW p \in Procesos, NEW b \in BloquesSwap, PedirPagina(p, b) PROVE FielInv'
    <3> DEFINE r == DePagina("LEER_SWAP", p, b)
    <3>1. /\ TipoInv' /\ Llega(Memoria) /\ Casi(Memoria, r) /\ EnPedido /\ UNCHANGED intactos
          /\ p \in vivos /\ b \in bloques_de[p]
      BY <2>3, PedirPaginaTipo, SoloCasi
    <3>2. r.pc = "nace" /\ r.vigente /\ r.bloque = b
      BY DEF DePagina, Pedido, Libre
    <3> HIDE DEF r
    <3> QED
      BY <2>0, <3>1, <3>2, PedidoFiel
  <2>4. ASSUME NEW p \in Procesos, NEW b \in BloquesSwap, NEW h \in Escritores,
               MandarPagina(h, p, b)
        PROVE  FielInv'
    <3> DEFINE r == DePagina("ESCRIBIR_SWAP", p, b)
    <3>1. /\ TipoInv' /\ Llega(h) /\ Casi(h, r) /\ EnPedido /\ intactos' = intactos \ {b}
      BY <2>4, MandarPaginaTipo
    <3>2. r.pc = "nace" /\ r.vigente /\ r.bloque = b /\ r.op = "ESCRIBIR_SWAP"
      BY DEF DePagina, Pedido, Libre
    <3> HIDE DEF r
    <3> QED
      BY <2>0, <3>1, <3>2, PedidoFiel
  <2>5. CASE EmpezarReserva
    <3> DEFINE r == [aqui EXCEPT !.pc = "reserva"]
    <3>1. /\ TipoInv' /\ Solo(Memoria, r) /\ aqui.pc = "nace" /\ hilo[Memoria] = aqui
          /\ UNCHANGED <<vivos, bloques_de, intactos, mal_leida, aislados>>
      BY <2>5, EmpezarReservaTipo, AquiTipo DEF EnSwap, conexion
    <3>2. r.pc = "reserva" /\ r.op = aqui.op /\ r.bloque = aqui.bloque /\ r.vigente = aqui.vigente
      BY AquiTipo, ConPc
    <3> HIDE DEF r
    <3> QED
      BY <2>0, <3>1, <3>2, SigueFiel
  <2>6. CASE Reservar
    <3> DEFINE r == Reservado
               m == Min(Libres)
    <3>1. /\ TipoInv' /\ Solo(Memoria, r) /\ aqui.pc = "reserva" /\ hilo[Memoria] = aqui
          /\ aqui.op = "PROCESS_STARTED" /\ posicion' = m
          /\ UNCHANGED <<vivos, bloques_de, intactos, mal_leida, aislados>>
      BY <1>4, <2>6, ReservarTipo, AquiTipo DEF EnSwap, conexion
    <3>2. /\ r.pc = "accede" /\ r.op = aqui.op /\ r.bloque = aqui.bloque
          /\ r.vigente = aqui.vigente /\ r.tomados = aqui.tomados \cup {m}
      <4> DEFINE l == IF aqui.quedan = 1 THEN "responde" ELSE "reserva"
      <4> HIDE DEF m, l
      <4>1. r = [aqui EXCEPT !.pc = "accede", !.luego = l, !.cursor = m + 1,
                             !.quedan = aqui.quedan - 1, !.tomados = aqui.tomados \cup {m}]
        BY DEF Reservado, m, l
      <4> QED
        BY <4>1, AquiTipo DEF Fichas
    <3> HIDE DEF r, m
    <3> QED
      BY <2>0, <3>1, <3>2, SigueFiel
  <2>7. CASE LiberarSwap
    <3> DEFINE r == [aqui EXCEPT !.pc = "responde"]
    <3>1. /\ TipoInv' /\ Solo(Memoria, r) /\ aqui.pc = "nace" /\ hilo[Memoria] = aqui
          /\ UNCHANGED <<vivos, bloques_de, intactos, mal_leida, aislados>>
      BY <2>7, LiberarSwapTipo, AquiTipo DEF EnSwap, conexion, LiberarSwap, Nace, En
    <3>2. r.pc = "responde" /\ r.op = aqui.op /\ r.bloque = aqui.bloque /\ r.vigente = aqui.vigente
      BY AquiTipo, ConPc
    <3> HIDE DEF r
    <3> QED
      BY <2>0, <3>1, <3>2, SigueFiel
  <2>8. CASE Rebobinar(Memoria)
    <3> DEFINE r == [aqui EXCEPT !.pc = aqui.luego]
    <3>1. /\ TipoInv' /\ Solo(Memoria, r) /\ aqui.pc = "rebobina" /\ hilo[Memoria] = aqui
          /\ UNCHANGED <<vivos, bloques_de, intactos, mal_leida, aislados>>
      BY <2>8, RebobinarTipo, AquiTipo DEF Rebobinar, En, Ajeno, conexion
    <3>2. r.pc = aqui.luego /\ r.op = aqui.op /\ r.bloque = aqui.bloque /\ r.vigente = aqui.vigente
      BY AquiTipo, ConPc
    <3>3. aqui.luego \in {"reserva", "responde"}
      BY <3>1, AquiTipo DEF PuntoMemoria
    <3> HIDE DEF r
    <3> QED
      BY <2>0, <3>1, <3>2, <3>3, SigueFiel
  <2>9. ASSUME NEW h \in Hilos \ Nucleos, EmpezarPagina(h) \/ UbicarPagina(h) PROVE FielInv'
    <3>1. PICK q \in {"ubica", "accede"} :
            /\ TipoInv' /\ Solo(h, [hilo[h] EXCEPT !.pc = q]) /\ EnSwap
            /\ hilo[h].op \in {"LEER_SWAP", "ESCRIBIR_SWAP"}
            /\ q = "accede" => posicion' = hilo[h].bloque
            /\ UNCHANGED <<memoria, intactos>> /\ hilo[h].pc # "libre"
      <4>1. CASE EmpezarPagina(h)
        BY <4>1, EmpezarPaginaTipo DEF EmpezarPagina, Nace, En
      <4>2. CASE UbicarPagina(h)
        BY <4>2, UbicarPaginaTipo
      <4> QED
        BY <2>9, <4>1, <4>2
    <3> DEFINE y == hilo[h]
               r == [y EXCEPT !.pc = q]
    <3>2. y \in Fichas
      BY HiloTipo
    <3> HIDE DEF y
    <3>3. r.pc = q /\ r.op = y.op /\ r.bloque = y.bloque /\ r.vigente = y.vigente
      BY <3>2, ConPc
    <3>4. Solo(h, r) /\ r.pc # "libre" /\ UNCHANGED <<vivos, bloques_de, intactos, mal_leida, aislados>>
      BY <3>1, <3>3 DEF EnSwap, conexion, y
    <3> HIDE DEF r
    <3> QED
      BY <3>1, <3>3, <3>4, SigueFiel DEF y
  <2>10. ASSUME NEW h \in Hilos \ Nucleos, Acceder(h) \/ Entregar(h) PROVE FielInv'
    BY <2>10, AccederFiel, EntregarFiel
  <2> QED
    BY <1>4, <2>1, <2>2, <2>3, <2>4, <2>5, <2>6, <2>7, <2>8, <2>9, <2>10 DEF DeLaMemoria
<1> QED
  BY <1>1, <1>2, <1>3, <1>4, Pasos

\* If every process has two pages at least and requests come one by one, a page comes back from
\* the swap as it was last sent, whatever the processes that have started and ended before and
\* whoever had its block then ("trae pagina de swap", memoria.c:163).
THEOREM PaginaTeorema ==
  ASSUME DosPaginas PROVE Spec => []PaginaFiel
<1>1. Init => TipoInv /\ SwapInv /\ FielInv
  BY TipoInicial, SwapInicial, FielInicial
<1>2. (TipoInv /\ SwapInv /\ FielInv) /\ [Next]_vars => (TipoInv /\ SwapInv /\ FielInv)'
  BY TipoPaso, SwapPaso, FielPaso
<1>3. FielInv => PaginaFiel
  BY DEF FielInv, PaginaFiel
<1> QED
  BY <1>1, <1>2, <1>3, PTL DEF Spec
=============================================================================
