--------------------------- MODULE SistemaArchivos --------------------------
(***************************************************************************)
(* The file system (fileSystem/src/fileSystem.c): FCBs, the FAT and its    *)
(* bitmap, the swap bitmap, the file of blocks that both share, and one    *)
(* thread per request, none of which takes a lock.  The kernel waits for   *)
(* an OPEN and a CREATE, but not for the TRUNCATE, READ or WRITE of one    *)
(* process before it sends that of another (Nucleos); the memory waits for *)
(* its requests (Memoria) but for the pages it sends (Escritores).         *)
(*                                                                         *)
(* Each call to fseek, fread, fwrite, a bit test or a bit change is a      *)
(* step.  Sizes and offsets count blocks.  Of the contents of a block only *)
(* this is kept: whether it is still the page its owner last sent to the   *)
(* swap (intactos).                                                        *)
(***************************************************************************)
EXTENDS Integers, FiniteSets, FiniteSetsExt

CONSTANTS
  Archivos,      \* names of files
  Procesos,      \* processes of the memory
  Paginas,       \* swap blocks each process asks for; a process of none is left out: its
                 \* request takes every free block, written past an array of none (549-559)
  Nadie,
  Nucleos,       \* bound: requests of the kernel in course
  Escritores,    \* bound: ESCRIBIR_SWAP in course
  CantBloquesFat, CantBloquesSwap,
  Cupos,         \* bound: how many requests of each kind (Reparto)
  Sobras         \* bound: what the bits past the end of the two bitmaps may be

Memoria == "memoria"
Hilos   == Nucleos \cup {Memoria} \cup Escritores

\* Requests of the kernel by kind, how many of them together and with which sizes or blocks; and
\* requests of the memory but for PROCESS_FINISHED, one per process that has started.
Reparto == [crear : Nat, truncar : Nat, leer : Nat, juntos : Nat, tamanios : SUBSET Nat,
            memoria : Nat]

ASSUME SistemaOK ==
  /\ CantBloquesFat \in Nat \ {0} /\ CantBloquesSwap \in Nat
  /\ Paginas \in [Procesos -> Nat \ {0}]
  /\ Cupos \subseteq Reparto
  /\ Sobras \subseteq [fat : BOOLEAN, swap : BOOLEAN]
  /\ Nucleos \cap Escritores = {} /\ Memoria \notin Nucleos \cup Escritores
  /\ Nadie \notin Archivos \cup Procesos

Fin   == -1   \* UINT32_MAX: ultimo_bloque, and what bloque_inicial = -1 converts to
Falta == -2   \* a key an FCB does not have

\* The bitmaps are tested up to cant_bloques, one past their last bit.
BloquesFat  == 0 .. CantBloquesFat
BloquesSwap == 0 .. CantBloquesSwap

VARIABLES
  fcb,                  \* the FCB of each file
  fat,                  \* fat_file, as far as a block number or UINT32_MAX reaches
  bloques_libres_fat,   \* the bits that are set: blocks in use
  bloques_libres_swap,
  posicion_fat,         \* of fat_file
  posicion,             \* of bloques_file
  socket_cliente,       \* the accept loop's variable, whose address the threads get
  entrada,              \* descriptor 0, which socket_memoria names: the standard input, closed,
                        \* or a connection that was accepted since
  hilo,                 \* the thread of each client's request
  vivos, bloques_de,    \* processes with swap, and the blocks the memory got for each
  cupo,                 \* requests that may still come
  intactos,             \* swap blocks that hold the page their owner last sent
  mal_leida,            \* LEER_SWAP has returned something else
  aislados,             \* each request so far was of the memory and found no other in course
  solos,                \* no CREATE or TRUNCATE has had another request of the kernel beside it
  caido                 \* the process has ended

archivos == <<fcb, fat, bloques_libres_fat>>
memoria  == <<vivos, bloques_de>>
conexion == <<socket_cliente, entrada, aislados>>
vars == <<archivos, bloques_libres_swap, posicion_fat, posicion, conexion, hilo, memoria, cupo,
          intactos, mal_leida, solos, caido>>

\* nombre: whether it has its NOMBRE_ARCHIVO, the first key of those it is created with.
SinFcb == [existe |-> FALSE, nombre |-> TRUE, tamanio |-> 0, inicial |-> Fin]
Vacio  == [existe |-> TRUE, nombre |-> FALSE, tamanio |-> Falta, inicial |-> Falta]

Libre == [pc |-> "libre", op |-> "NINGUNA", luego |-> "responde", quien |-> Nadie, n |-> 0,
          inicial |-> Fin, actuales |-> 0, bloque |-> 0, anterior |-> Fin, cursor |-> 0,
          quedan |-> 0, copia |-> SinFcb, tomados |-> {}, vigente |-> TRUE]

\* The bit past the end of a bitmap is whatever the heap holds there.
Init ==
  /\ fcb = [f \in Archivos |-> SinFcb]
  /\ fat = [e \in BloquesFat \cup {Fin} |-> IF e = 0 THEN Fin ELSE 0]
  /\ \E s \in Sobras : /\ bloques_libres_fat = IF s.fat THEN {0, CantBloquesFat} ELSE {0}
                      /\ bloques_libres_swap = IF s.swap THEN {CantBloquesSwap} ELSE {}
  /\ posicion_fat = 1 /\ posicion = 0 /\ socket_cliente = Nadie /\ entrada = "ajena"
  /\ hilo = [h \in Hilos |-> Libre]
  /\ vivos = {} /\ bloques_de = [p \in Procesos |-> {}]
  /\ cupo \in Cupos
  /\ intactos = {} /\ mal_leida = FALSE /\ aislados = TRUE /\ solos = TRUE /\ caido = FALSE

-----------------------------------------------------------------------------
(* Accepting a request *)

En(h, pc) == hilo[h].pc = pc
Activo(h) == hilo[h].pc # "libre"

\* The client's message is accepted and a thread created with the address of socket_cliente.
\* No connection is closed here; a closed descriptor 0 is what the next accept may return.
Llega(h) ==
  /\ socket_cliente' = h
  /\ entrada' \in {entrada} \cup (IF entrada = "cerrada" THEN {"cliente"} ELSE {})
  /\ aislados' = (aislados /\ h \notin Nucleos /\ \A g \in Hilos : ~Activo(g))

Acepta(h, pedido) ==
  /\ En(h, "libre")
  /\ hilo' = [hilo EXCEPT ![h] = pedido]
  /\ Llega(h)

Nace(h, op) == En(h, "nace") /\ hilo[h].op = op /\ socket_cliente = h

\* exit, or an access that kills the process.  Nothing follows: the next start finds the FAT and
\* opens a bitmap file that only liberar_estructuras writes, which is never reached (628, 36).
Cae == caido' = TRUE /\ UNCHANGED <<archivos, bloques_libres_swap, posicion_fat, posicion, conexion,
                                    hilo, memoria, cupo, intactos, mal_leida, solos>>

\* The next accept came first: two threads read the same socket, this one's client gets no
\* answer, and the one that reads after the other ends the process with an unknown code.
SocketPisado(h) == En(h, "nace") /\ socket_cliente # h /\ Cae

-----------------------------------------------------------------------------
(* Requests of the kernel *)

Clase(op) ==
  CASE op \in {"OPEN", "CREATE"} -> "crear" [] op = "TRUNCATE" -> "truncar" [] OTHER -> "leer"

\* The planner waits for the answers to OPEN and CREATE, and for no other.  CREATE follows an
\* OPEN that found no FCB; the others, one that did.  A file may be open in several processes,
\* and TRUNCATE does not look at the mode.
Pide(h, op, f, n) ==
  /\ cupo[Clase(op)] > 0 /\ Cardinality({g \in Nucleos : Activo(g)}) < cupo.juntos
  /\ h = CHOOSE g \in Nucleos : ~Activo(g)
  /\ \A g \in Nucleos : hilo[g].op \notin {"OPEN", "CREATE"}
  /\ op = "OPEN" \/ (op = "CREATE" <=> ~fcb[f].existe)
  /\ Acepta(h, [Libre EXCEPT !.pc = "nace", !.op = op, !.quien = f, !.n = n])
  /\ cupo' = [cupo EXCEPT ![Clase(op)] = @ - 1]
  /\ solos' = (solos /\ \A g \in Nucleos :
                 Activo(g) => {op, hilo[g].op} \cap {"CREATE", "TRUNCATE"} = {})
  /\ UNCHANGED <<archivos, bloques_libres_swap, posicion_fat, posicion, memoria, intactos,
                 mal_leida, caido>>

Pasa(h, pc) == hilo' = [hilo EXCEPT ![h].pc = pc]

\* What the steps of these threads leave alone.
Ajeno == UNCHANGED <<bloques_libres_swap, memoria, cupo, intactos, mal_leida, solos, caido>>
EnFcb == UNCHANGED <<fat, bloques_libres_fat, posicion_fat, posicion, conexion>> /\ Ajeno
EnFat == UNCHANGED <<fcb, bloques_libres_fat, posicion, conexion>> /\ Ajeno

\* config_create: an FCB that another thread is saving may be found empty.
Leidos(h) ==
  LET f == hilo[h].quien
      guardandose == \E g \in Nucleos \ {h} :
        hilo[g].quien = f /\ hilo[g].pc \in {"graba_inicial", "graba_tamanio"}
  IN  {fcb[f]} \cup (IF guardandose THEN {Vacio} ELSE {})

\* crear_fcb
Crear(h) ==
  /\ Nace(h, "CREATE")
  /\ fcb' = [fcb EXCEPT ![hilo[h].quien] = [SinFcb EXCEPT !.existe = TRUE]]
  /\ hilo' = [hilo EXCEPT ![h] = Libre]
  /\ EnFcb

\* verificar_existencia_fcb: a size that is not there ends the process.
Abrir(h) ==
  /\ Nace(h, "OPEN")
  /\ \E c \in Leidos(h) :
       \/ c.tamanio = Falta /\ Cae
       \/ c.tamanio # Falta /\ hilo' = [hilo EXCEPT ![h] = Libre] /\ UNCHANGED fcb /\ EnFcb

\* How many entries buscar_en_fat reads for its block n, a uint32: -1 wraps to UINT32_MAX.
\* After as many steps as there are entries a walk goes round, and it may be left anywhere.
Vuelta   == CantBloquesFat + 2
Saltos(n) == IF n = -1 THEN 2 * Vuelta ELSE IF n = 0 THEN 0 ELSE n - 1

\* actualizar_tamanio_archivo and obtener_fcb: strlen of a name that is not there.
Truncar(h) ==
  /\ Nace(h, "TRUNCATE")
  /\ \E c \in Leidos(h) :
       \/ ~c.nombre /\ Cae
       \/ /\ c.nombre
          /\ LET y == [hilo[h] EXCEPT !.inicial = c.inicial, !.actuales = c.tamanio,
                                      !.bloque = c.inicial]
                 s == Saltos(y.n - 1)
             IN  hilo' = [hilo EXCEPT ![h] =
                   IF c.tamanio < y.n
                   THEN [y EXCEPT !.pc = IF c.inicial > 0 THEN "recorre" ELSE "asigna",
                                  !.quedan = y.n - c.tamanio]
                   ELSE [y EXCEPT !.pc = IF s > 0 THEN "busca" ELSE "encuentra", !.quedan = s]]
          /\ UNCHANGED fcb /\ EnFcb

-----------------------------------------------------------------------------
(* The FAT.  A thread moves the position of fat_file in a step and uses it in another. *)

Destino(y) ==
  CASE y.pc \in {"recorre", "busca", "encuentra", "libera", "limpia"} -> y.bloque
    [] y.pc = "ultimo" -> y.cursor
    [] y.pc = "vuelve" -> 0

TrasFseek(pc) ==
  CASE pc = "recorre"   -> "lee_recorre"
    [] pc = "busca"     -> "lee_busca"
    [] pc = "libera"    -> "lee_libera"
    [] pc = "encuentra" -> "corta"
    [] pc = "limpia"    -> "borra"
    [] pc = "ultimo"    -> "cierra"
    [] pc = "vuelve"    -> "relee_tamanio"

Fseek(h) ==
  /\ hilo[h].pc \in {"recorre", "busca", "encuentra", "libera", "limpia", "ultimo", "vuelve"}
  /\ posicion_fat' = Destino(hilo[h])
  /\ Pasa(h, TrasFseek(hilo[h].pc))
  /\ UNCHANGED fat /\ EnFat

Avanzada == IF posicion_fat = Fin THEN Fin ELSE posicion_fat + 1

\* The fread of leer_entrada_fat.  What lies past the table is not kept: any entry.
Leida(h, pc, v) ==
  /\ En(h, pc)
  /\ v \in (IF posicion_fat \in DOMAIN fat THEN {fat[posicion_fat]} ELSE DOMAIN fat)
  /\ posicion_fat' = Avanzada
  /\ UNCHANGED fat /\ EnFat

\* The walk to the last block, which leaves -1 behind: in bloque, and so in bloque_anterior.
Recorrer(h) ==
  \E v \in BloquesFat \cup {Fin} :
    /\ Leida(h, "lee_recorre", v)
    /\ hilo' = [hilo EXCEPT ![h].bloque = v,
                            ![h].pc = IF v = Fin THEN "asigna" ELSE "recorre"]

\* buscar_en_fat
Buscar(h) ==
  \E v \in BloquesFat \cup {Fin} :
    /\ Leida(h, "lee_busca", v)
    /\ LET y == [hilo[h] EXCEPT !.bloque = v, !.quedan = @ - 1]
           encontrado == IF y.op = "TRUNCATE" THEN "encuentra" ELSE "situa"
       IN  \/ y.quedan > 0 /\ hilo' = [hilo EXCEPT ![h] = [y EXCEPT !.pc = "busca"]]
           \/ /\ y.quedan = 0 \/ (y.op = "TRUNCATE" /\ y.n = 0 /\ y.quedan < Vuelta)
              /\ hilo' = [hilo EXCEPT ![h] = [y EXCEPT !.pc = encontrado, !.quedan = 0]]

\* The loop of liberar_bloques_en_fat, which starts from the entry it has just overwritten.
Liberar(h) ==
  \E v \in BloquesFat \cup {Fin} :
    /\ Leida(h, "lee_libera", v)
    /\ hilo' = [hilo EXCEPT ![h].bloque = v, ![h].pc = "limpia"]

\* An fwrite of fat_file: what lands past the table is not kept.
Anota(t, e, v) == IF e \in DOMAIN t THEN [t EXCEPT ![e] = v] ELSE t

Escrita(v) ==
  /\ fat' = Anota(fat, posicion_fat, v)
  /\ posicion_fat' = Avanzada
  /\ EnFat

\* Mutant of SinBloques: the loop goes one block further.
SinBloquesUnoMas(y) == y.cursor > CantBloquesFat

SinBloques(y) == y.cursor >= CantBloquesFat

\* bitarray_test_bit of the next block.
Asignar(h) ==
  /\ En(h, "asigna")
  /\ LET b == hilo[h].cursor + 1
     IN  \/ SinBloques(hilo[h]) /\ Cae
         \/ /\ ~SinBloques(hilo[h])
            /\ hilo' = [hilo EXCEPT ![h].cursor = b,
                                    ![h].pc = IF b \in bloques_libres_fat THEN @ ELSE "marca"]
            /\ UNCHANGED <<fat, posicion_fat>> /\ EnFat

\* bitarray_set_bit and bitarray_clean_bit; escribir_archivo_de_bloques comes next.
Bits(h) ==
  IF En(h, "marca") THEN bloques_libres_fat \cup {hilo[h].cursor}
                    ELSE bloques_libres_fat \ {hilo[h].bloque}

TrasBit(y) ==
  IF y.pc = "marca"
  THEN [y EXCEPT !.pc = "situa", !.luego = "engancha", !.bloque = y.cursor]
  ELSE [y EXCEPT !.pc = "situa", !.quedan = y.quedan - 1,
                 !.luego = IF y.quedan = 1 THEN "relee_tamanio" ELSE "libera"]

CambiaBit(h) == hilo[h].pc \in {"marca", "desmarca"}

\* Cleaning the bit UINT32_MAX writes outside the bitmap.
Marcar(h) ==
  /\ CambiaBit(h)
  /\ \/ hilo[h].pc = "desmarca" /\ hilo[h].bloque = Fin /\ Cae
     \/ /\ bloques_libres_fat' = Bits(h)
        /\ hilo' = [hilo EXCEPT ![h] = TrasBit(@)]
        /\ UNCHANGED <<fcb, fat, posicion_fat, posicion, conexion>> /\ Ajeno

\* Two threads change bits of one byte at once, and what g writes is lost.
MarcarJuntos(h, g) ==
  /\ g # h /\ CambiaBit(h) /\ CambiaBit(g)
  /\ bloques_libres_fat' = Bits(h)
  /\ hilo' = [hilo EXCEPT ![h] = TrasBit(@), ![g] = TrasBit(@)]
  /\ UNCHANGED <<fcb, fat, posicion_fat, posicion, conexion>> /\ Ajeno

\* Mutant of Enganchada: a block that is not the last one is not remembered.
EnganchadaSinRecordar(y) ==
  [y EXCEPT !.pc = IF y.quedan = 1 THEN "vuelve" ELSE "asigna", !.quedan = y.quedan - 1]

\* The block before the next one.
Enganchada(y) ==
  [y EXCEPT !.pc = IF y.quedan = 1 THEN "vuelve" ELSE "asigna", !.anterior = y.cursor,
            !.quedan = y.quedan - 1]

\* The first block of an empty file goes to the FCB.  Any other is linked in the FAT; after the
\* walk the fseek to -1 fails, and the link is written where the last read ended.
Enganchar(h) ==
  /\ En(h, "engancha")
  /\ LET y == hilo[h]
         z == Enganchada(y)
     IN  IF y.inicial = Fin
         THEN /\ hilo' = [hilo EXCEPT ![h] = [z EXCEPT !.pc = "relee_inicial", !.luego = z.pc,
                                                      !.inicial = y.cursor]]
              /\ posicion_fat' = posicion_fat
         ELSE /\ Pasa(h, "enlaza")
              /\ posicion_fat' = IF y.anterior = Fin THEN posicion_fat ELSE y.anterior
  /\ UNCHANGED fat /\ EnFat

\* Mutant of NumeroEnlazado: the number written is the one of the block before.
NumeroEnlazadoAnterior(y) == y.anterior

NumeroEnlazado(y) == y.cursor

Enlazar(h) ==
  /\ En(h, "enlaza")
  /\ Escrita(NumeroEnlazado(hilo[h]))
  /\ hilo' = [hilo EXCEPT ![h] =
       IF @.quedan = 1 THEN [hilo[h] EXCEPT !.pc = "ultimo"] ELSE Enganchada(hilo[h])]

\* The last one is the end of the file.
Cerrar(h) ==
  /\ En(h, "cierra")
  /\ Escrita(Fin)
  /\ Pasa(h, "vuelve")

\* liberar_bloques_en_fat up to its loop: the entry that was found is the new end, or free.
Cortar(h) ==
  /\ En(h, "corta")
  /\ Escrita(IF hilo[h].n = 0 THEN 0 ELSE Fin)
  /\ LET y == hilo[h]
         sobran == y.actuales - y.n - 1
         pc == IF sobran > 0 THEN "libera" ELSE "relee_tamanio"
     IN  hilo' = [hilo EXCEPT ![h] =
           IF y.n = 0 THEN [y EXCEPT !.pc = "relee_inicial", !.luego = pc, !.inicial = Fin,
                                     !.quedan = sobran]
                      ELSE [y EXCEPT !.pc = pc, !.quedan = sobran]]

Borrar(h) ==
  /\ En(h, "borra")
  /\ Escrita(0)
  /\ Pasa(h, "desmarca")

-----------------------------------------------------------------------------
(* The FCB.  actualizar_bloque_inicial_fcb and actualizar_tamanio_fcb read it all, and save it *)
(* with one key changed. *)

Releer(h) ==
  /\ hilo[h].pc \in {"relee_inicial", "relee_tamanio"}
  /\ \E c \in Leidos(h) :
       hilo' = [hilo EXCEPT ![h].copia = c,
         ![h].pc = IF @ = "relee_inicial" THEN "graba_inicial" ELSE "graba_tamanio"]
  /\ UNCHANGED fcb /\ EnFcb

\* Mutant of GrabarInicial: what is left with no blocks keeps its initial block.
GrabarInicialSiempre(h) ==
  /\ En(h, "graba_inicial")
  /\ LET y == hilo[h]
     IN  /\ fcb' = [fcb EXCEPT ![y.quien] =
                IF y.inicial = Fin THEN @ ELSE [y.copia EXCEPT !.inicial = y.inicial]]
         /\ hilo' = [hilo EXCEPT ![h].pc = y.luego, ![h].copia = SinFcb]
  /\ EnFcb

GrabarInicial(h) ==
  /\ En(h, "graba_inicial")
  /\ LET y == hilo[h]
     IN  /\ fcb' = [fcb EXCEPT ![y.quien] = [y.copia EXCEPT !.inicial = y.inicial]]
         /\ hilo' = [hilo EXCEPT ![h].pc = y.luego, ![h].copia = SinFcb]
  /\ EnFcb

GrabarTamanio(h) ==
  /\ En(h, "graba_tamanio")
  /\ LET y == hilo[h]
     IN  /\ fcb' = [fcb EXCEPT ![y.quien] = [y.copia EXCEPT !.tamanio = y.n]]
         /\ hilo' = [hilo EXCEPT ![h].pc = "responde", ![h].copia = SinFcb]
  /\ EnFcb

-----------------------------------------------------------------------------
(* READ and WRITE *)

LeerOEscribir(h) ==
  /\ Nace(h, "READ") \/ Nace(h, "WRITE")
  /\ Pasa(h, IF hilo[h].op = "WRITE" THEN "habla" ELSE "localiza")
  /\ UNCHANGED fcb /\ EnFcb

\* leer_bloque and escribir_bloque: block 0 of the file is not looked for in its FCB.
Localizar(h) ==
  /\ En(h, "localiza")
  /\ \E c \in Leidos(h) :
       LET y == hilo[h]
           s == IF y.n = 0 THEN 0 ELSE Saltos(y.n - 1)
       IN  \/ y.n # 0 /\ c.inicial = Falta /\ Cae
           \/ /\ y.n = 0 \/ c.inicial # Falta
              /\ hilo' = [hilo EXCEPT ![h].pc = IF s > 0 THEN "busca" ELSE "situa",
                                      ![h].bloque = IF y.n = 0 THEN 0 ELSE c.inicial,
                                      ![h].quedan = s]
              /\ UNCHANGED fcb /\ EnFcb

\* READ sends the block to socket_memoria and waits for a code; WRITE asks there for what it
\* writes.  It was never connected: it is 0.  Both go on with what they have, and READ closes
\* the descriptor on which nothing came.
Hablar(h) ==
  /\ En(h, "habla") /\ entrada # "cliente"
  /\ entrada' = IF hilo[h].op = "READ" THEN "cerrada" ELSE entrada
  /\ Pasa(h, IF hilo[h].op = "READ" THEN "responde" ELSE "localiza")
  /\ UNCHANGED <<archivos, posicion_fat, posicion, socket_cliente, aislados>> /\ Ajeno

\* Descriptor 0 is a client.  The thread goes on when that client closes, which it may never do,
\* or sends something; it may also take the code of a request that another thread is to read, or
\* give the memory blocks that do not exist, or write to a client that has gone: not followed.
HablarConCliente(h) ==
  /\ En(h, "habla") /\ entrada = "cliente"
  /\ \/ Cae
     \/ /\ \/ entrada' = entrada
           \/ hilo[h].op = "READ" /\ entrada' = "cerrada"
        /\ Pasa(h, IF hilo[h].op = "READ" THEN "responde" ELSE "localiza")
        /\ UNCHANGED <<archivos, posicion_fat, posicion, socket_cliente, aislados>> /\ Ajeno

Responder(h) ==
  /\ En(h, "responde")
  /\ hilo' = [hilo EXCEPT ![h] = Libre]
  /\ UNCHANGED fcb /\ EnFcb

-----------------------------------------------------------------------------
(* The file of blocks *)

Situar(h) ==
  /\ En(h, "situa")
  /\ posicion' = hilo[h].bloque
  /\ hilo' = [hilo EXCEPT ![h].pc = "accede",
       ![h].luego = CASE hilo[h].op = "READ"  -> "habla"
                      [] hilo[h].op = "WRITE" -> "responde"
                      [] OTHER -> @]
  /\ UNCHANGED <<archivos, posicion_fat, conexion>> /\ Ajeno

\* fread or fwrite where the position is now.
Contenido(h) ==
  CASE hilo[h].op \in {"READ", "LEER_SWAP"} -> intactos
    [] hilo[h].op = "ESCRIBIR_SWAP" /\ hilo[h].vigente /\ posicion = hilo[h].bloque
         -> intactos \cup {posicion}
    [] OTHER -> intactos \ {posicion}

\* ESCRIBIR_SWAP falls through into LEER_SWAP: its client has closed, and the block is read
\* again for nobody.
Acceder(h) ==
  /\ En(h, "accede")
  /\ intactos' = Contenido(h)
  /\ mal_leida' = (mal_leida \/ /\ h = Memoria /\ hilo[h].op = "LEER_SWAP"
                                /\ ~(posicion = hilo[h].bloque /\ posicion \in intactos))
  /\ posicion' = IF posicion = Fin THEN Fin ELSE posicion + 1
  /\ hilo' = [hilo EXCEPT ![h] =
       CASE @.op = "ESCRIBIR_SWAP" -> [@ EXCEPT !.pc = "ubica", !.op = "LEER_SWAP"]
         [] @.op = "LEER_SWAP" -> [@ EXCEPT !.pc = "responde"]
         [] OTHER -> [@ EXCEPT !.pc = "rebobina"]]
  /\ UNCHANGED <<archivos, bloques_libres_swap, posicion_fat, conexion, memoria, cupo, solos, caido>>

\* The fseek to 0 that ends leer_bloque and escribir_archivo_de_bloques.
Rebobinar(h) ==
  /\ En(h, "rebobina")
  /\ posicion' = 0
  /\ hilo' = [hilo EXCEPT ![h].pc = hilo[h].luego]
  /\ UNCHANGED <<archivos, posicion_fat, conexion>> /\ Ajeno

-----------------------------------------------------------------------------
(* Requests of the memory *)

EnSwap == UNCHANGED <<archivos, posicion_fat, conexion, cupo, mal_leida, solos, caido>>
aqui == hilo[Memoria]

\* pedir_swap
Arrancar(p) ==
  /\ p \notin vivos /\ cupo.memoria > 0
  /\ Acepta(Memoria, [Libre EXCEPT !.pc = "nace", !.op = "PROCESS_STARTED", !.quien = p,
                                   !.n = Paginas[p], !.quedan = Paginas[p]])
  /\ cupo' = [cupo EXCEPT !.memoria = @ - 1]
  /\ UNCHANGED <<archivos, bloques_libres_swap, posicion_fat, posicion, memoria, intactos,
                 mal_leida, solos, caido>>

\* Mutant of Liberados: contar_bloques says three.
LiberadosTres(B) ==
  IF Cardinality(B) >= 3 THEN {{b \in B : Cardinality({c \in B : c < b}) < 3}}
  ELSE {B \cup basura : basura \in {s \in SUBSET BloquesSwap : Cardinality(s) <= 3}}

\* contar_bloques says two whatever the process has: of its blocks the first two, and if there
\* are fewer, also what follows the array in the heap.
Liberados(B) ==
  IF Cardinality(B) >= 2 THEN {{b \in B : Cardinality({c \in B : c < b}) < 2}}
  ELSE {B \cup basura : basura \in {s \in SUBSET BloquesSwap : Cardinality(s) <= 2}}

\* liberar_swap.  A page of p still being written is nobody's any more.
Terminar(p) ==
  /\ p \in vivos
  /\ \E s \in Liberados(bloques_de[p]) :
       /\ En(Memoria, "libre")
       /\ hilo' = [h \in Hilos |->
            IF h = Memoria THEN [Libre EXCEPT !.pc = "nace", !.op = "PROCESS_FINISHED",
                                              !.quien = p, !.tomados = s]
            ELSE [hilo[h] EXCEPT !.vigente = @ /\ hilo[h].quien # p]]
       /\ Llega(Memoria)
  /\ UNCHANGED <<archivos, bloques_libres_swap, posicion_fat, posicion, memoria, cupo, intactos,
                 mal_leida, solos, caido>>

\* enviar_bloque_de_swap_a_leer_fs
PedirPagina(p, b) ==
  /\ cupo.memoria > 0 /\ p \in vivos /\ b \in bloques_de[p]
  /\ Acepta(Memoria, [Libre EXCEPT !.pc = "nace", !.op = "LEER_SWAP", !.quien = p, !.bloque = b])
  /\ cupo' = [cupo EXCEPT !.memoria = @ - 1]
  /\ UNCHANGED <<archivos, bloques_libres_swap, posicion_fat, posicion, memoria, intactos,
                 mal_leida, solos, caido>>

\* mandar_a_escribir_bloques_swap_fs sends the page and closes.
MandarPagina(h, p, b) ==
  /\ cupo.memoria > 0 /\ p \in vivos /\ b \in bloques_de[p] /\ En(Memoria, "libre")
  /\ hilo[h].pc = "libre"
  /\ hilo' = [g \in Hilos |->
       IF g = h THEN [Libre EXCEPT !.pc = "nace", !.op = "ESCRIBIR_SWAP", !.quien = p,
                                   !.bloque = b]
       ELSE [hilo[g] EXCEPT !.vigente = @ /\ ~(hilo[g].op = "ESCRIBIR_SWAP"
                                               /\ hilo[g].bloque = b)]]
  /\ Llega(h)
  /\ cupo' = [cupo EXCEPT !.memoria = @ - 1]
  /\ intactos' = intactos \ {b}
  /\ UNCHANGED <<archivos, bloques_libres_swap, posicion_fat, posicion, memoria, mal_leida, solos,
                 caido>>

EmpezarReserva ==
  /\ Nace(Memoria, "PROCESS_STARTED")
  /\ hilo' = [hilo EXCEPT ![Memoria].pc = "reserva"]
  /\ UNCHANGED <<bloques_libres_swap, posicion, memoria, intactos>> /\ EnSwap

\* reservar_bloques_de_swap, one block per step.
Reservar ==
  /\ En(Memoria, "reserva")
  /\ LET libres == (aqui.cursor .. CantBloquesSwap) \ bloques_libres_swap
     IN  \/ /\ libres # {}
            /\ bloques_libres_swap' = bloques_libres_swap \cup {Min(libres)}
            /\ posicion' = Min(libres)
            /\ hilo' = [hilo EXCEPT ![Memoria] =
                 [aqui EXCEPT !.pc = "accede",
                              !.luego = IF aqui.quedan = 1 THEN "responde" ELSE "reserva",
                              !.cursor = Min(libres) + 1, !.quedan = aqui.quedan - 1,
                              !.tomados = @ \cup {Min(libres)}]]
            /\ UNCHANGED <<memoria, intactos>> /\ EnSwap
         \/ libres = {} /\ Cae

\* liberar_bloques_swap
LiberarSwap ==
  /\ Nace(Memoria, "PROCESS_FINISHED")
  /\ bloques_libres_swap' = bloques_libres_swap \ aqui.tomados
  /\ hilo' = [hilo EXCEPT ![Memoria].pc = "responde"]
  /\ UNCHANGED <<posicion, memoria, intactos>> /\ EnSwap

EmpezarPagina(h) ==
  /\ Nace(h, "LEER_SWAP") \/ Nace(h, "ESCRIBIR_SWAP")
  /\ hilo' = [hilo EXCEPT ![h].pc = "ubica"]
  /\ UNCHANGED <<bloques_libres_swap, posicion, memoria, intactos>> /\ EnSwap

\* Mutant of UbicarPagina: the block is counted from one.
UbicarPaginaDesdeUno(h) ==
  /\ En(h, "ubica")
  /\ posicion' = hilo[h].bloque + 1
  /\ hilo' = [hilo EXCEPT ![h].pc = "accede"]
  /\ UNCHANGED <<bloques_libres_swap, memoria, intactos>> /\ EnSwap

\* The fseek of leer_bloque_swap and escribir_bloque_swap.
UbicarPagina(h) ==
  /\ En(h, "ubica")
  /\ posicion' = hilo[h].bloque
  /\ hilo' = [hilo EXCEPT ![h].pc = "accede"]
  /\ UNCHANGED <<bloques_libres_swap, memoria, intactos>> /\ EnSwap

\* The answer reaches the memory; the one to a page it sent reaches nobody.
Entregar(h) ==
  /\ En(h, "responde") /\ h \notin Nucleos
  /\ hilo' = [hilo EXCEPT ![h] = Libre]
  /\ LET p == hilo[h].quien
     IN  CASE hilo[h].op = "PROCESS_STARTED" ->
                /\ vivos' = vivos \cup {p}
                /\ bloques_de' = [bloques_de EXCEPT ![p] = hilo[h].tomados]
                /\ intactos' = intactos \cup hilo[h].tomados
           [] hilo[h].op = "PROCESS_FINISHED" ->
                /\ vivos' = vivos \ {p}
                /\ bloques_de' = [bloques_de EXCEPT ![p] = {}]
                /\ intactos' = intactos \ bloques_de[p]
           [] OTHER -> UNCHANGED <<memoria, intactos>>
  /\ UNCHANGED <<bloques_libres_swap, posicion>> /\ EnSwap

-----------------------------------------------------------------------------
Clientes ==
  \/ \E h \in Nucleos, f \in Archivos :
       \/ \E op \in {"OPEN", "CREATE"} : Pide(h, op, f, 0)
       \/ \E n \in cupo.tamanios : Pide(h, "TRUNCATE", f, n)
       \/ \E n \in cupo.tamanios, op \in {"READ", "WRITE"} : Pide(h, op, f, n)
  \/ \E p \in Procesos : \/ Arrancar(p) \/ Terminar(p)
                         \/ \E b \in BloquesSwap :
                              PedirPagina(p, b) \/ \E h \in Escritores : MandarPagina(h, p, b)

HiloNucleo(h) ==
  \/ SocketPisado(h) \/ Crear(h) \/ Abrir(h) \/ Truncar(h)
  \/ Fseek(h) \/ Recorrer(h) \/ Buscar(h) \/ Liberar(h)
  \/ Asignar(h) \/ Marcar(h) \/ Enganchar(h) \/ Enlazar(h) \/ Cerrar(h) \/ Cortar(h) \/ Borrar(h)
  \/ Releer(h) \/ GrabarInicial(h) \/ GrabarTamanio(h)
  \/ LeerOEscribir(h) \/ Localizar(h) \/ Hablar(h) \/ Responder(h)
  \/ Situar(h) \/ Acceder(h) \/ Rebobinar(h)

HilosNucleo ==
  \E h \in Nucleos : HiloNucleo(h) \/ HablarConCliente(h) \/ \E g \in Nucleos : MarcarJuntos(h, g)

HiloMemoria(h) ==
  \/ SocketPisado(h) \/ EmpezarPagina(h) \/ UbicarPagina(h) \/ Acceder(h) \/ Entregar(h)

HiloSwap ==
  \/ EmpezarReserva \/ Reservar \/ LiberarSwap \/ Rebobinar(Memoria)
  \/ \E h \in Hilos \ Nucleos : HiloMemoria(h)

Next == ~caido /\ (Clientes \/ HilosNucleo \/ HiloSwap)

Spec == Init /\ [][Next]_vars

\* Every request has a thread of its own, and none waits for another, but the one that listens
\* to a client on descriptor 0.
Equidad == \A h \in Nucleos : WF_vars(~caido /\ Activo(h) /\ HiloNucleo(h))

EspecificacionJusta == Spec /\ Equidad

-----------------------------------------------------------------------------
Fcbs ==
  [existe : BOOLEAN, nombre : {TRUE}, tamanio : Nat, inicial : BloquesFat \cup {Fin}]
    \cup [existe : BOOLEAN, nombre : {FALSE}, tamanio : Nat \cup {Falta},
          inicial : BloquesFat \cup {Fin, Falta}]

TipoOK ==
  /\ fcb \in [Archivos -> Fcbs]
  /\ fat \in [BloquesFat \cup {Fin} -> BloquesFat \cup {Fin}]
  /\ bloques_libres_fat \subseteq BloquesFat /\ bloques_libres_swap \subseteq BloquesSwap
  /\ posicion_fat \in Nat \cup {Fin} /\ posicion \in Nat \cup {Fin}
  /\ socket_cliente \in Hilos \cup {Nadie} /\ entrada \in {"ajena", "cerrada", "cliente"}
  /\ hilo \in [Hilos ->
       [pc : {"libre", "nace", "recorre", "lee_recorre", "asigna", "marca", "engancha", "enlaza",
              "ultimo", "cierra", "vuelve", "busca", "lee_busca", "encuentra", "corta", "libera",
              "lee_libera", "limpia", "borra", "desmarca", "relee_inicial", "graba_inicial",
              "relee_tamanio", "graba_tamanio", "localiza", "habla", "situa", "accede",
              "rebobina", "responde", "reserva", "ubica"},
        op : {"NINGUNA", "OPEN", "CREATE", "TRUNCATE", "READ", "WRITE", "PROCESS_STARTED",
              "PROCESS_FINISHED", "LEER_SWAP", "ESCRIBIR_SWAP"},
        luego : {"responde", "engancha", "libera", "reserva", "habla", "asigna", "vuelve",
                 "relee_tamanio"},
        quien : Archivos \cup Procesos \cup {Nadie}, n : Nat, inicial : BloquesFat \cup {Fin},
        actuales : Nat, bloque : Nat \cup {Fin}, anterior : Nat \cup {Fin}, cursor : Nat,
        quedan : Int, copia : Fcbs, tomados : SUBSET BloquesSwap, vigente : BOOLEAN]]
  /\ vivos \subseteq Procesos /\ bloques_de \in [Procesos -> SUBSET BloquesSwap]
  /\ cupo \in Reparto
  /\ intactos \subseteq BloquesSwap
  /\ {mal_leida, aislados, solos, caido} \subseteq BOOLEAN

-----------------------------------------------------------------------------
(* Properties *)

\* The blocks of two processes are different, and they are marked as in use until the process
\* ends, whatever the order in which processes start and end.
SwapDisjunta ==
  /\ \A p \in vivos : ~(aqui.op = "PROCESS_FINISHED" /\ aqui.quien = p)
                       => bloques_de[p] \subseteq bloques_libres_swap
  /\ \A p, q \in Procesos : p # q => bloques_de[p] \cap bloques_de[q] = {}

\* Chains of the FAT go forward: however files have grown and shrunk, no walk can go round,
\* except through entry 0; as long as every CREATE and TRUNCATE has been alone among the requests
\* of the kernel, whatever the memory was doing.  Two TRUNCATEs, or one and a READ, move the
\* position of fat_file between fseek and fwrite of each other.  Only the block being added may
\* point to itself, until the next link is written.
CadenasAvanzan ==
  solos => \A e \in BloquesFat \ {0} :
    \/ fat[e] \in {0, Fin} \/ fat[e] > e
    \/ fat[e] = e /\ \E h \in Nucleos : Activo(h) /\ e \in {hilo[h].anterior, hilo[h].cursor}

\* While no request on it is in course a file has an initial block if and only if it is not
\* empty, and that block is marked and is not the initial block of another; as long as every
\* CREATE and TRUNCATE has been alone.  Two TRUNCATEs may test a bit before either sets it, or
\* save the FCB they both read.
FcbCoherente ==
  solos => \A f \in Archivos : (\A h \in Nucleos : hilo[h].quien # f) =>
    /\ fcb[f].tamanio = 0 <=> fcb[f].inicial = Fin
    /\ fcb[f].inicial # Fin => fcb[f].inicial \in bloques_libres_fat
    /\ \A g \in Archivos \ {f} : fcb[f].inicial = fcb[g].inicial => fcb[f].inicial = Fin

\* A page comes back from the swap as it was last sent ("trae pagina de swap", memoria.c:163),
\* however processes have started and ended, while requests come one by one.  It does not when
\* two meet, or when the files have been used: they write on the same blocks.
PaginaFiel == aislados => ~mal_leida

\* Every request of the kernel is answered, or the process ends.  The exceptions: the walk of a
\* TRUNCATE goes round for ever once entry 0 has been overwritten, or may once a CREATE or a
\* TRUNCATE has not been alone; and when a client has got descriptor 0, READ and WRITE listen to
\* it, and take what it sends before its own thread reads it.
PedidoAtendido ==
  \A h \in Nucleos :
    Activo(h) ~>
      \/ ~Activo(h) \/ caido
      \/ hilo[h].op = "TRUNCATE" /\ (fat[0] # Fin \/ ~solos)
      \/ entrada = "cliente" /\ (hilo[h].op \in {"READ", "WRITE"} \/ En(h, "nace"))
=============================================================================
