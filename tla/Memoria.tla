------------------------------- MODULE Memoria ------------------------------
(***************************************************************************)
(* The memory module (memoria/src/memoria.c): page tables, frames, FIFO    *)
(* and LRU replacement, and the two threads that serve the CPU and the     *)
(* kernel under the semaphores mutex_procesos and mutex_memoria.           *)
(*                                                                         *)
(* The bytes of a page are abstracted to where its last contents are:      *)
(* in its frame, in its swap block, in both or in neither (copia).  What   *)
(* uses a NULL pointer, freed memory or an address outside the frames is   *)
(* a crash (fallo).                                                        *)
(***************************************************************************)
EXTENDS Integers, Sequences, FiniteSets, FiniteSetsExt, SequencesExt

CONSTANTS
  MaxProcesos,      \* bound: processes created
  CantPaginas,      \* pages of each process (size / tam_paginas)
  CantMarcos,       \* cant_marcos
  Algoritmos,       \* algorithms to consider
  MaxTraducciones,  \* bound: SOLICITAR_VALOR requests
  MaxReloj          \* bound: seconds that time(NULL) counts

ASSUME MemoriaOK ==
  /\ MaxProcesos \in Nat /\ CantMarcos \in Nat \ {0}
  /\ CantPaginas \in [0 .. MaxProcesos - 1 -> Nat \ {0}]
  /\ Algoritmos \subseteq {"FIFO", "LRU"}
  /\ MaxTraducciones \in Nat /\ MaxReloj \in Nat

Pid     == 0 .. MaxProcesos - 1
Nulo    == -1
NroPag(p) == 0 .. CantPaginas[p] - 1
Paginas == UNION {{<<p, n>> : n \in NroPag(p)} : p \in Pid}
Marcos  == 0 .. CantMarcos - 1

VARIABLES
  algoritmo,           \* algoritmo_reemplazo
  id,                  \* of the next process
  procesos,            \* the list of processes
  tp,                  \* page table of each process; <<>> before it exists and after it is freed
  marcos_libres,       \* the bits that are set in marcos_libres: the frames in use
  proximas_victimas,   \* candidates for FIFO, as pages
  pid_comparador,      \* whom list_find is looking for
  mutex_procesos, mutex_memoria,
  reloj,               \* time(NULL)
  nucleo,              \* the thread that serves the kernel
  cpu,                 \* the thread that serves the CPU
  creados,             \* processes whose CREAR_PROCESO has been sent
  estado, pagina_pf,   \* what each process is doing, and the page it faulted on
  traducciones,        \* SOLICITAR_VALOR requests so far
  copia,               \* by page, where its last contents are
  cruzadas,            \* pages whose contents an access or a load mixed up with another's
  confundido,          \* a search whose result decides on frames found another process
  fallo

tablas   == <<id, procesos, tp, marcos_libres, proximas_victimas>>
cerrojos == <<mutex_procesos, mutex_memoria>>
externo  == <<creados, estado, pagina_pf, traducciones>>
datos    == <<copia, cruzadas>>
vars == <<algoritmo, tablas, pid_comparador, cerrojos, reloj, nucleo, cpu, externo, datos,
          confundido, fallo>>

Ocioso == [pc |-> "libre", p |-> Nulo, n |-> 0, origen |-> Nulo, q |-> Nulo, m |-> -1]
Libre  == [pc |-> "libre", op |-> "INSTRUCCION", p |-> Nulo, n |-> 0, q |-> Nulo, m |-> -1]
EntradaNueva == [marco |-> -1, presente |-> FALSE, modificado |-> FALSE, ultimo_acceso |-> 0]

Init ==
  /\ algoritmo \in Algoritmos
  /\ id = 0 /\ procesos = <<>> /\ tp = [p \in Pid |-> <<>>]
  /\ marcos_libres = {} /\ proximas_victimas = <<>>
  /\ pid_comparador = Nulo
  /\ mutex_procesos = 1 /\ mutex_memoria = 1
  /\ reloj = 0
  /\ nucleo = Ocioso /\ cpu = Libre
  /\ creados = 0 /\ estado = [p \in Pid |-> "listo"] /\ pagina_pf = [p \in Pid |-> 0]
  /\ traducciones = 0
  /\ copia = [g \in Paginas |-> {"swap"}] /\ cruzadas = {}
  /\ confundido = FALSE /\ fallo = FALSE

-----------------------------------------------------------------------------
(* Searches *)

\* sem_wait(&mutex_procesos), and buscar_proceso_por_pid up to its list_find.
Busca(p) ==
  /\ mutex_procesos > 0 /\ mutex_procesos' = mutex_procesos - 1
  /\ pid_comparador' = p

\* What list_find may return: if another search has overwritten pid_comparador it compares
\* with the one value up to some element and with the other from there.
Hallados(p) ==
  LET vivos == ToSet(procesos)
  IN  IF pid_comparador # p THEN (vivos \cap {p, pid_comparador}) \cup {Nulo}
      ELSE IF p \in vivos THEN {p} ELSE {Nulo}

\* The entry of page n can be read: neither the process nor list_get is NULL.
TieneTabla(r, n) == r # Nulo /\ n \in DOMAIN tp[r]

Confunde(p, r) == confundido' = (confundido \/ p # r)

Cae == fallo' = TRUE /\ UNCHANGED <<algoritmo, tablas, pid_comparador, cerrojos, reloj, nucleo,
                                    cpu, externo, datos, confundido>>

Instantes == {t \in {reloj, reloj + 1} : t <= MaxReloj}

Entrada(g) == tp[g[1]][g[2]]
Vivas == {g \in Paginas : tp[g[1]] # <<>>}
Presentes(r) == {n \in DOMAIN tp[r] : tp[r][n].presente}
ConMarco == {g \in Vivas : Entrada(g).marco # -1}

-----------------------------------------------------------------------------
(* The thread of the CPU *)

EnCpu(p) == cpu.pc # "libre" /\ cpu.p = p

\* INSTRUCCION or SOLICITAR_VALOR of the process at the CPU.  That CREAR_PROCESO has been sent
\* is enough for it to be there: the kernel does not wait for an answer.
CpuPide(op, p, n) ==
  /\ cpu.pc = "libre" /\ p < creados /\ estado[p] = "listo" /\ nucleo.p # p
  /\ op = "INSTRUCCION" \/ traducciones < MaxTraducciones
  /\ traducciones' = IF op = "INSTRUCCION" THEN traducciones ELSE traducciones + 1
  /\ Busca(p)
  /\ cpu' = [Libre EXCEPT !.pc = "busca", !.op = op, !.p = p, !.n = n]
  /\ UNCHANGED <<algoritmo, tablas, mutex_memoria, reloj, nucleo, creados, estado, pagina_pf,
                 datos, confundido, fallo>>

\* The answer is PAGE_FAULT, and the kernel is to ask for the page.
FallaPagina == estado' = [estado EXCEPT ![cpu.p] = "falta"]
               /\ pagina_pf' = [pagina_pf EXCEPT ![cpu.p] = cpu.n]
               /\ cpu' = Libre

\* obtener_instruccion; acceder_a_tp_del_proceso until it lets mutex_procesos go.
CpuEncuentra ==
  /\ cpu.pc = "busca"
  /\ \E r \in Hallados(cpu.p) :
       \/ ~TieneTabla(r, cpu.n) /\ Cae
       \/ /\ TieneTabla(r, cpu.n)
          /\ mutex_procesos' = mutex_procesos + 1
          /\ \/ /\ cpu.op = "INSTRUCCION" /\ cpu' = Libre
                /\ UNCHANGED <<estado, pagina_pf, confundido>>
             \/ /\ cpu.op = "SOLICITAR_VALOR" /\ ~tp[r][cpu.n].presente /\ FallaPagina
                /\ Confunde(cpu.p, r)
             \/ /\ cpu.op = "SOLICITAR_VALOR" /\ tp[r][cpu.n].presente
                /\ cpu' = [cpu EXCEPT !.pc = "responde", !.q = r]
                /\ Confunde(cpu.p, r)
                /\ UNCHANGED <<estado, pagina_pf>>
          /\ UNCHANGED <<algoritmo, tablas, pid_comparador, mutex_memoria, reloj, nucleo,
                         creados, traducciones, datos, fallo>>

\* It reads the frame again to return it, after letting mutex_procesos go.
CpuResponde ==
  /\ cpu.pc = "responde"
  /\ \/ ~TieneTabla(cpu.q, cpu.n) /\ Cae
     \/ /\ TieneTabla(cpu.q, cpu.n)
        /\ LET m == tp[cpu.q][cpu.n].marco
           IN  \/ m = -1 /\ FallaPagina
               \/ /\ m # -1
                  /\ cpu' = [cpu EXCEPT !.pc = "traducida", !.m = m]
                  /\ UNCHANGED <<estado, pagina_pf>>
        /\ UNCHANGED <<algoritmo, tablas, pid_comparador, cerrojos, reloj, nucleo, creados,
                       traducciones, datos, confundido, fallo>>

\* READ or WRITE at the address translated.
CpuAccede(op) ==
  /\ cpu.pc = "traducida"
  /\ Busca(cpu.p)
  /\ cpu' = [cpu EXCEPT !.pc = "marca", !.op = op]
  /\ UNCHANGED <<algoritmo, tablas, mutex_memoria, reloj, nucleo, externo, datos, confundido,
                 fallo>>

\* modificado, ultimo_acceso.
CpuMarca ==
  /\ cpu.pc = "marca"
  /\ \E r \in Hallados(cpu.p) :
       \/ ~TieneTabla(r, cpu.n) /\ Cae
       \/ /\ TieneTabla(r, cpu.n)
          /\ \E t \in Instantes :
               /\ reloj' = t
               /\ tp' = [tp EXCEPT ![r][cpu.n] = [@ EXCEPT
                           !.modificado = tp[r][cpu.n].modificado \/ cpu.op = "WRITE",
                           !.ultimo_acceso = t]]
          /\ cpu' = [cpu EXCEPT !.pc = "copia", !.q = r]
          /\ mutex_procesos' = mutex_procesos + 1
          /\ UNCHANGED <<algoritmo, id, procesos, marcos_libres, proximas_victimas,
                         pid_comparador, mutex_memoria, nucleo, externo, datos, confundido,
                         fallo>>

\* memcpy from or to the frame, whoever has it now.
CpuCopia ==
  /\ cpu.pc = "copia" /\ mutex_memoria > 0
  /\ LET g == <<cpu.p, cpu.n>>
         pisadas == {h \in ConMarco : Entrada(h).marco = cpu.m} \cup {g}
         propia  == pisadas = {g} /\ g \in ConMarco /\ Entrada(g).marco = cpu.m /\ cpu.q = cpu.p
     IN  /\ copia' = IF cpu.op = "WRITE" /\ propia THEN [copia EXCEPT ![g] = {"marco"}] ELSE copia
         /\ cruzadas' = IF cpu.op = "WRITE" /\ ~propia THEN cruzadas \cup pisadas ELSE cruzadas
  /\ cpu' = Libre
  /\ UNCHANGED <<algoritmo, tablas, pid_comparador, cerrojos, reloj, nucleo, externo, confundido,
                 fallo>>

-----------------------------------------------------------------------------
(* The thread of the kernel *)

\* INICIAR_PROCESO: the message is sent and the process may be admitted at once.
IniciarProceso ==
  /\ creados < MaxProcesos /\ creados' = creados + 1
  /\ UNCHANGED <<algoritmo, tablas, pid_comparador, cerrojos, reloj, nucleo, cpu, estado,
                 pagina_pf, traducciones, datos, confundido, fallo>>

\* crear_proceso: ids follow the order of the messages.
CrearProceso ==
  /\ nucleo.pc = "libre" /\ id < creados /\ mutex_procesos > 0
  /\ id' = id + 1
  /\ procesos' = Append(procesos, id)
  /\ tp' = [tp EXCEPT ![id] = [n \in NroPag(id) |-> EntradaNueva]]
  /\ UNCHANGED <<algoritmo, marcos_libres, proximas_victimas, pid_comparador, cerrojos, reloj,
                 nucleo, cpu, externo, datos, confundido, fallo>>

\* PAGE_FAULT searches for the process twice: for the block to read from swap and, with the
\* contents read, for its table.  PROCESS_FINISHED does it once.
NucleoBusca(p) ==
  /\ \/ /\ nucleo.pc = "libre" /\ estado[p] = "falta"
        /\ nucleo' = [Ocioso EXCEPT !.pc = "busca1", !.p = p, !.n = pagina_pf[p]]
     \/ /\ nucleo.pc = "lee" /\ p = nucleo.p
        /\ nucleo' = [nucleo EXCEPT !.pc = "busca2"]
     \/ /\ nucleo.pc = "libre" /\ p < id /\ estado[p] = "listo" /\ ~EnCpu(p)
        /\ nucleo' = [Ocioso EXCEPT !.pc = "fin", !.p = p]
  /\ Busca(p)
  /\ UNCHANGED <<algoritmo, tablas, mutex_memoria, reloj, cpu, externo, datos, confundido,
                 fallo>>

NucleoHalla ==
  /\ nucleo.pc \in {"busca1", "busca2", "fin"}
  /\ \E r \in Hallados(nucleo.p) :
       \/ ~TieneTabla(r, nucleo.n) /\ Cae
       \/ /\ TieneTabla(r, nucleo.n)
          /\ \/ /\ nucleo.pc = "busca1"
                /\ nucleo' = [nucleo EXCEPT !.pc = "lee", !.origen = r]
                /\ UNCHANGED confundido
             \/ /\ nucleo.pc # "busca1"
                /\ nucleo' = [nucleo EXCEPT !.pc = IF nucleo.pc = "fin" THEN "libera" ELSE "trae",
                                           !.q = r]
                /\ Confunde(nucleo.p, r)
          /\ mutex_procesos' = mutex_procesos + 1
          /\ UNCHANGED <<algoritmo, tablas, pid_comparador, mutex_memoria, reloj, cpu, externo,
                         datos, fallo>>

-----------------------------------------------------------------------------
(* traer_pagina_a_memoria *)

TraerToma ==
  /\ nucleo.pc = "trae" /\ mutex_procesos > 0
  /\ mutex_procesos' = mutex_procesos - 1
  /\ nucleo' = [nucleo EXCEPT !.pc = "elige"]
  /\ UNCHANGED <<algoritmo, tablas, pid_comparador, mutex_memoria, reloj, cpu, externo, datos,
                 confundido, fallo>>

Nueva == <<nucleo.q, nucleo.n>>

\* With a free frame mutex_procesos is let go here already.
TraerLibre ==
  /\ nucleo.pc = "elige" /\ mutex_memoria > 0 /\ marcos_libres # Marcos
  /\ LET m == Min(Marcos \ marcos_libres)
     IN  /\ tp' = [tp EXCEPT ![nucleo.q][nucleo.n].marco = m]
         /\ nucleo' = [nucleo EXCEPT !.pc = "escribe", !.m = m]
  /\ proximas_victimas' = IF algoritmo = "FIFO" THEN Append(proximas_victimas, Nueva)
                                                ELSE proximas_victimas
  /\ mutex_memoria' = mutex_memoria - 1 /\ mutex_procesos' = mutex_procesos + 1
  /\ UNCHANGED <<algoritmo, id, procesos, marcos_libres, pid_comparador, reloj, cpu, externo,
                 datos, confundido, fallo>>

\* Mutant of VictimasFIFO: the candidate is taken from the other end.
VictimasFIFOPrimera ==
  IF proximas_victimas = <<>> THEN {} ELSE {Head(proximas_victimas)} \cap ConMarco

\* The last of the candidates, who stays in the list.
VictimasFIFO ==
  IF proximas_victimas = <<>> THEN {} ELSE {Last(proximas_victimas)} \cap ConMarco

\* The pages in memory of the i-th process; that the position is compared with an id is
\* the code's.
Candidatas(i) ==
  LET r == procesos[i]
  IN  {<<r, n>> : n \in Presentes(r)} \ (IF i - 1 = nucleo.q THEN {Nueva} ELSE {})

\* The page accessed longest ago, the first in the order of the lists among equals.  The
\* first process gives the first value to compare with: without pages there is none.
VictimasLRU ==
  LET orden == {x \in (DOMAIN procesos) \X Paginas : x[2] \in Candidatas(x[1])}
      Antes(x, y) == \/ Entrada(x[2]).ultimo_acceso < Entrada(y[2]).ultimo_acceso
                     \/ /\ Entrada(x[2]).ultimo_acceso = Entrada(y[2]).ultimo_acceso
                        /\ x[1] < y[1] \/ (x[1] = y[1] /\ x[2][2] <= y[2][2])
  IN  IF procesos = <<>> \/ Candidatas(1) = {} THEN {}
      ELSE {x[2] : x \in {z \in orden : \A y \in orden : Antes(z, y)}}

Victimas == (IF algoritmo = "FIFO" THEN VictimasFIFO ELSE VictimasLRU) \ {Nueva}

\* Mutant of AlSalir: pages are written to swap when they have not been modified.
AlSalirInvertida(g) ==
  IF Entrada(g).modificado THEN copia[g] \ {"marco"}
  ELSE IF "marco" \in copia[g] THEN {"swap"} ELSE {}

\* Where the last contents of a page are after it leaves its frame.
AlSalir(g) ==
  IF ~Entrada(g).modificado THEN copia[g] \ {"marco"}
  ELSE IF "marco" \in copia[g] THEN {"swap"} ELSE {}

\* Without one: seleccionar_pagina_victima_y_reemplazar.
TraerReemplaza ==
  /\ nucleo.pc = "elige" /\ mutex_memoria > 0 /\ marcos_libres = Marcos
  /\ \/ Victimas = {} /\ Cae
     \/ \E v \in Victimas :
          /\ tp' = [p \in Pid |-> [n \in DOMAIN tp[p] |->
                      IF <<p, n>> = v THEN [EntradaNueva EXCEPT
                        !.modificado = tp[p][n].modificado,
                        !.ultimo_acceso = IF algoritmo = "LRU" THEN 0 ELSE tp[p][n].ultimo_acceso]
                      ELSE IF <<p, n>> = Nueva THEN [tp[p][n] EXCEPT !.marco = Entrada(v).marco]
                      ELSE tp[p][n]]]
          /\ nucleo' = [nucleo EXCEPT !.pc = "escribe", !.m = Entrada(v).marco]
          /\ copia' = [copia EXCEPT ![v] = AlSalir(v)]
          /\ proximas_victimas' = IF algoritmo = "FIFO" THEN Append(proximas_victimas, Nueva)
                                                        ELSE proximas_victimas
          /\ mutex_memoria' = mutex_memoria - 1
          /\ UNCHANGED <<algoritmo, id, procesos, marcos_libres, pid_comparador, mutex_procesos,
                         reloj, cpu, externo, cruzadas, confundido, fallo>>

\* Mutant of SueltaAlTerminar: the second of the two posts of mutex_procesos is taken out.
SueltaMemoria == mutex_memoria' = mutex_memoria + 1 /\ mutex_procesos' = mutex_procesos

\* Mutant of SueltaAlTerminar: it is mutex_memoria that is posted twice.
SueltaMemoriaDosVeces ==
  mutex_memoria' = mutex_memoria + 2 /\ mutex_procesos' = mutex_procesos + 1

\* mutex_procesos is posted here again when TraerLibre has let it go.
SueltaAlTerminar == mutex_memoria' = mutex_memoria + 1 /\ mutex_procesos' = mutex_procesos + 1

\* escribir_en_memoria, presente, ultimo_acceso, and the answer.
TraerEscribe ==
  /\ nucleo.pc = "escribe"
  /\ marcos_libres' = marcos_libres \cup {nucleo.m}
  /\ \E t \in Instantes :
       /\ reloj' = t
       /\ tp' = [tp EXCEPT ![nucleo.q][nucleo.n] = [@ EXCEPT
                   !.presente = TRUE, !.ultimo_acceso = t]]
  /\ SueltaAlTerminar
  /\ LET limpia == nucleo.origen = nucleo.p /\ nucleo.q = nucleo.p
     IN  /\ cruzadas' = IF limpia THEN cruzadas ELSE cruzadas \cup {Nueva}
         /\ copia' = [copia EXCEPT ![Nueva] =
                        IF ~limpia THEN @
                        ELSE IF "swap" \in @ THEN {"marco", "swap"} ELSE @ \ {"marco"}]
  /\ estado' = [estado EXCEPT ![nucleo.p] = "listo"]
  /\ pagina_pf' = [pagina_pf EXCEPT ![nucleo.p] = 0]
  /\ nucleo' = Ocioso
  /\ UNCHANGED <<algoritmo, id, procesos, proximas_victimas, pid_comparador, cpu, creados,
                 traducciones, confundido, fallo>>

-----------------------------------------------------------------------------
(* PROCESS_FINISHED *)

\* Mutant of MarcosDe: the frame of the last page is not given back.
MarcosDeMenosUno(r) == {tp[r][n].marco : n \in Presentes(r) \ {CantPaginas[r] - 1}}

MarcosDe(r) == {tp[r][n].marco : n \in Presentes(r)}

\* list_remove_by_condition with distinta_pagina: the first candidate that is another page.
OtraFuera(vs, g) == RemoveFirstMatch(vs, LAMBDA v : v # g)

\* The candidates once it has been called for each page of r that is in memory.
Restantes(r) ==
  LET tras[n \in 0 .. CantPaginas[r]] ==
        IF n = 0 THEN proximas_victimas
        ELSE IF n - 1 \in Presentes(r) THEN OtraFuera(tras[n - 1], <<r, n - 1>>)
        ELSE tras[n - 1]
  IN  tras[CantPaginas[r]]

\* liberar_tabla: per page in memory its frame, and a candidate.
LiberarTabla ==
  /\ nucleo.pc = "libera" /\ mutex_procesos > 0
  /\ LET r == nucleo.q
     IN  /\ marcos_libres' = marcos_libres \ MarcosDe(r)
         /\ proximas_victimas' = Restantes(r)
         /\ tp' = [tp EXCEPT ![r] = <<>>]
         /\ copia' = [g \in Paginas |-> IF g[1] = r THEN {"swap"} ELSE copia[g]]
         /\ cruzadas' = {g \in cruzadas : g[1] # r}
  /\ nucleo' = [nucleo EXCEPT !.pc = "quita"]
  /\ UNCHANGED <<algoritmo, id, procesos, pid_comparador, cerrojos, reloj, cpu, externo,
                 confundido, fallo>>

\* list_remove_element: a search that is walking the list meanwhile may step on what is freed.
FinQuita ==
  /\ nucleo.pc = "quita" /\ mutex_procesos > 0
  /\ procesos' = RemoveFirst(procesos, nucleo.q)
  /\ fallo' \in IF cpu.pc \in {"busca", "marca"} THEN BOOLEAN ELSE {FALSE}
  /\ estado' = [estado EXCEPT ![nucleo.p] = "fin"]
  /\ nucleo' = Ocioso
  /\ UNCHANGED <<algoritmo, id, tp, marcos_libres, proximas_victimas, pid_comparador, cerrojos,
                 reloj, cpu, creados, pagina_pf, traducciones, datos, confundido>>

-----------------------------------------------------------------------------
HiloCpu ==
  \/ \E g \in Paginas : CpuPide("SOLICITAR_VALOR", g[1], g[2])
  \/ \E p \in Pid : CpuPide("INSTRUCCION", p, 0)
  \/ \E op \in {"READ", "WRITE"} : CpuAccede(op)
  \/ CpuEncuentra \/ CpuResponde \/ CpuMarca \/ CpuCopia

HiloNucleo ==
  \/ CrearProceso
  \/ \E p \in Pid : NucleoBusca(p)
  \/ NucleoHalla
  \/ TraerToma \/ TraerLibre \/ TraerReemplaza \/ TraerEscribe
  \/ LiberarTabla \/ FinQuita

Next == ~fallo /\ (IniciarProceso \/ HiloCpu \/ HiloNucleo)

Spec == Init /\ [][Next]_vars

\* Both threads run.  The thread of the kernel is not passed over for ever at a semaphore: the
\* CPU's sleeps after each request with the semaphores free (retardo_en_ms, tiempo_espera_ms).
Equidad ==
  /\ SF_vars(~fallo /\ HiloNucleo)
  /\ WF_vars(~fallo /\ (CpuEncuentra \/ CpuResponde \/ CpuMarca \/ CpuCopia))

EspecificacionJusta == Spec /\ Equidad

-----------------------------------------------------------------------------
Entradas == [marco : Marcos \cup {-1}, presente : BOOLEAN, modificado : BOOLEAN,
             ultimo_acceso : Nat]

TipoOK ==
  /\ algoritmo \in Algoritmos
  /\ id \in 0 .. MaxProcesos /\ procesos \in Seq(Pid)
  /\ \A p \in Pid : tp[p] = <<>> \/ tp[p] \in [NroPag(p) -> Entradas]
  /\ marcos_libres \subseteq Marcos /\ proximas_victimas \in Seq(Paginas)
  /\ pid_comparador \in Pid \cup {Nulo}
  /\ mutex_procesos \in Nat /\ mutex_memoria \in {0, 1} /\ reloj \in Nat
  /\ nucleo \in [pc : {"libre", "busca1", "lee", "busca2", "trae", "elige", "escribe", "fin",
                       "libera", "quita"},
                 p : Pid \cup {Nulo}, n : Nat, origen : Pid \cup {Nulo}, q : Pid \cup {Nulo},
                 m : Marcos \cup {-1}]
  /\ cpu \in [pc : {"libre", "busca", "responde", "traducida", "marca", "copia"},
              op : {"INSTRUCCION", "SOLICITAR_VALOR", "READ", "WRITE"},
              p : Pid \cup {Nulo}, n : Nat, q : Pid \cup {Nulo}, m : Marcos \cup {-1}]
  /\ creados \in 0 .. MaxProcesos /\ estado \in [Pid -> {"listo", "falta", "fin"}]
  /\ pagina_pf \in [Pid -> Nat] /\ traducciones \in 0 .. MaxTraducciones
  /\ copia \in [Paginas -> SUBSET {"marco", "swap"}] /\ cruzadas \subseteq Paginas
  /\ confundido \in BOOLEAN /\ fallo \in BOOLEAN

-----------------------------------------------------------------------------
(* Properties *)

\* A frame in use belongs to exactly one page of a live process, and a page in memory has a
\* frame; until a search has found the wrong process.
MarcosCoherentes ==
  ~confundido =>
    /\ {Entrada(g).marco : g \in ConMarco}
         = marcos_libres \cup (IF nucleo.pc = "escribe" THEN {nucleo.m} ELSE {})
    /\ \A g, h \in ConMarco : Entrada(g).marco = Entrada(h).marco => g = h
    /\ \A g \in Vivas : Entrada(g).presente
                         <=> g \in ConMarco /\ ~(nucleo.pc = "escribe" /\ g = Nueva)

\* FIFO replaces a page that is in memory and whose process is alive, though liberar_tabla
\* leaves candidates of finished processes in the list and takes others out.
VictimaViva ==
  algoritmo = "FIFO" /\ marcos_libres = Marcos /\ ~confundido => VictimasFIFO # {}

\* What was last written in a page is in its frame, or in its swap block while it is out;
\* except in pages where an access or a load and another's replacement have crossed.
NadaSePierde ==
  ~confundido =>
    \A g \in Vivas \ cruzadas :
      IF Entrada(g).presente THEN "marco" \in copia[g] ELSE "swap" \in copia[g]

\* Every page fault is answered, whatever the CPU asks meanwhile, unless the module crashes.
FaltaAtendida == \A p \in Pid : estado[p] = "falta" ~> (estado[p] # "falta" \/ fallo)
=============================================================================
