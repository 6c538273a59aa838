---------------------------- MODULE TablaArchivos ---------------------------
(***************************************************************************)
(* Open files of the kernel (kernel/src/scheduler.c): F_OPEN and F_CLOSE   *)
(* as the short-term planner serves them, the global table and the table   *)
(* of each process, the reader/writer lock of each entry, the threads in   *)
(* which a process waits for a lock, and the end of a process.             *)
(*                                                                         *)
(* Entries are never taken out of tabla_archivos_global, so a pointer to   *)
(* one is its place in the list.  Memory that was freed may be noticed or  *)
(* not when it is used: the kernel crashes (fallo) or passes it over.      *)
(***************************************************************************)
EXTENDS Integers, Sequences, FiniteSets, FiniteSetsExt, SequencesExt

CONSTANTS
  Procesos,       \* processes, created and admitted
  Nadie,          \* no process
  Archivos,       \* file names
  MaxAperturas    \* bound: F_OPEN instructions executed

ASSUME ArchivosOK == MaxAperturas \in Nat /\ IsFiniteSet(Procesos) /\ Nadie \notin Procesos

Modos == {"R", "W"}

VARIABLES
  listos,        \* processes in READY
  bloqueados,    \* processes in plani_block for a file
  tabla_archivos_global,   \* of [archivo, lectores, escritores, lock]
  liberadas,     \* places of the global table whose entry has been freed
  abiertos,      \* tabla_archivos_abiertos of each process, of [e, modo, libre]
  espera,        \* by process, the thread that waits for a lock on its behalf
  corto,         \* the short-term planner: pc, the process, the file, its entry
  saliendo,      \* processes whose exit thread has not got to their table
  aperturas,     \* F_OPEN instructions executed so far
  fallo          \* freed memory was used, and the kernel crashed

vars == <<listos, bloqueados, tabla_archivos_global, liberadas, abiertos, espera, corto,
          saliendo, aperturas, fallo>>

Reposo == [pc |-> "elige", pcb |-> Nadie, e |-> 0, modo |-> "R"]
Quieto == [pc |-> "nada", e |-> 0, modo |-> "R"]

Init ==
  /\ listos = Procesos
  /\ bloqueados = {}
  /\ tabla_archivos_global = <<>>
  /\ liberadas = {}
  /\ abiertos = [p \in Procesos |-> <<>>]
  /\ espera = [p \in Procesos |-> Quieto]
  /\ corto = Reposo
  /\ saliendo = {}
  /\ aperturas = 0
  /\ fallo = FALSE

-----------------------------------------------------------------------------
(* Tables *)

Entrada(k) == tabla_archivos_global[k]

\* buscar_archivo_tabla_global: the first entry of that name, 0 for NULL.
BuscarGlobal(f) ==
  LET iguales == {k \in DOMAIN tabla_archivos_global : k \notin liberadas /\ Entrada(k).archivo = f}
  IN  IF iguales = {} THEN 0 ELSE Min(iguales)

\* buscar_archivo_tabla_pcb.  The entry of a lock that had to be waited for was added to the
\* list too, as if it were one of these (modo "G").
BuscarPcb(p, f) ==
  LET iguales == {i \in DOMAIN abiertos[p] :
                    LET a == abiertos[p][i]
                    IN  a.modo # "G" /\ ~a.libre /\ Entrada(a.e).archivo = f}
  IN  IF iguales = {} THEN 0 ELSE Min(iguales)

\* A search compares the names of all the entries before the one it returns.
PisaGlobal(k)  == \E j \in liberadas : k = 0 \/ j < k
PisaPcb(p, i)  ==
  \E j \in 1 .. i - 1 : LET a == abiertos[p][j]
                        IN  a.libre \/ (a.modo = "G" /\ a.e \in liberadas)

Usa(pisa) == fallo' \in IF pisa THEN BOOLEAN ELSE {FALSE}

-----------------------------------------------------------------------------
(* The lock of an entry *)

\* Mutant of Ocupado: a writer looks at the other writers only.
OcupadoPorEscritores(k, modo) == Entrada(k).escritores > 0

\* What keeps a reader or a writer out.  Those who wait are counted as well.
Ocupado(k, modo) == Entrada(k).escritores > 0 \/ (modo = "W" /\ Entrada(k).lectores > 0)

\* Mutant of Cuenta: the two counters are swapped when a lock is given back.
CuentaCruzada(x, modo, n) ==
  IF (modo = "R") = (n > 0) THEN [x EXCEPT !.lectores = @ + n] ELSE [x EXCEPT !.escritores = @ + n]

Cuenta(x, modo, n) ==
  IF modo = "R" THEN [x EXCEPT !.lectores = @ + n] ELSE [x EXCEPT !.escritores = @ + n]

Durmiendo(k, modo) ==
  {p \in Procesos : espera[p].pc = "duerme" /\ espera[p].e = k /\ espera[p].modo = modo}

\* pthread_cond_signal on cola_lectura or cola_escritura: one sleeper of the queue, if any.
Avisados(k, modo) ==
  LET s == Durmiendo(k, modo) IN IF s = {} THEN {{}} ELSE {{p} : p \in s}

\* Mutant of AvisosAlSoltar: a writer that leaves signals the writers only.
AvisosAlSoltarEscritores(k, modo) == Avisados(k, "W")

\* Whom eliminar_lock_lectura and eliminar_lock_escritura signal; the reader looks before it
\* is discounted.
AvisosAlSoltar(k, modo) ==
  IF modo = "W" THEN {r \cup w : r \in Avisados(k, "R"), w \in Avisados(k, "W")}
  ELSE IF Entrada(k).lectores = 0 THEN Avisados(k, "W") ELSE {{}}

-----------------------------------------------------------------------------
(* The short-term planner *)

\* With the file it was looking at behind it.
Sigue(l) == corto' = [Reposo EXCEPT !.pc = l, !.pcb = corto.pcb]

CortoElige(p) ==
  /\ corto.pc = "elige" /\ p \in listos
  /\ listos' = listos \ {p}
  /\ corto' = [corto EXCEPT !.pc = "ejecuta", !.pcb = p]
  /\ UNCHANGED <<bloqueados, tabla_archivos_global, liberadas, abiertos, espera, saliendo,
                 aperturas, fallo>>

\* F_OPEN of a file the process does not have open: the entries first, ...
CortoAbre(f, modo) ==
  /\ corto.pc = "ejecuta"
  /\ aperturas < MaxAperturas /\ aperturas' = aperturas + 1
  /\ LET p == corto.pcb
         k == BuscarGlobal(f)
         e == IF k = 0 THEN Len(tabla_archivos_global) + 1 ELSE k
     IN  /\ BuscarPcb(p, f) = 0
         /\ tabla_archivos_global' =
              IF k # 0 THEN tabla_archivos_global
              ELSE Append(tabla_archivos_global,
                          [archivo |-> f, lectores |-> 0, escritores |-> 0, lock |-> FALSE])
         /\ abiertos' = [abiertos EXCEPT ![p] = Append(@, [e |-> e, modo |-> modo, libre |-> FALSE])]
         /\ corto' = [corto EXCEPT !.pc = "abre", !.e = e, !.modo = modo]
         /\ Usa(PisaGlobal(k))
  /\ UNCHANGED <<listos, bloqueados, liberadas, espera, saliendo>>

\* ... then crear_lock_lectura or crear_lock_escritura.  Whoever has to wait is counted, and
\* the function returns with the mutex locked: the new thread is to release it.
CortoCreaLock ==
  /\ corto.pc = "abre" /\ ~Entrada(corto.e).lock
  /\ LET k == corto.e
         ocupado == Ocupado(k, corto.modo)
     IN  /\ tabla_archivos_global' = [tabla_archivos_global EXCEPT
              ![k] = [Cuenta(@, corto.modo, 1) EXCEPT !.lock = ocupado]]
         /\ espera' = IF ocupado
                      THEN [espera EXCEPT ![corto.pcb] = [pc |-> "mira", e |-> k, modo |-> corto.modo]]
                      ELSE espera
         /\ Sigue(IF ocupado THEN "bloquea" ELSE "ejecuta")
         /\ Usa(k \in liberadas)
  /\ UNCHANGED <<listos, bloqueados, liberadas, abiertos, saliendo, aperturas>>

\* BLOQUEADO, agregar_a_block.
CortoBloquea ==
  /\ corto.pc = "bloquea"
  /\ bloqueados' = bloqueados \cup {corto.pcb}
  /\ corto' = Reposo
  /\ UNCHANGED <<listos, tabla_archivos_global, liberadas, abiertos, espera, saliendo, aperturas,
                 fallo>>

\* F_CLOSE of a file the process has open.
CortoCierra(f) ==
  /\ corto.pc = "ejecuta"
  /\ LET p == corto.pcb
         i == BuscarPcb(p, f)
     IN  /\ i # 0
         /\ corto' = [corto EXCEPT !.pc = "cierra", !.e = i, !.modo = abiertos[p][i].modo]
         /\ Usa(PisaPcb(p, i))
  /\ UNCHANGED <<listos, bloqueados, tabla_archivos_global, liberadas, abiertos, espera, saliendo,
                 aperturas>>

CerradaSinEscritores(x) == x.lectores = 0

\* Nobody is left, whether inside or waiting.
Cerrada(x) == x.lectores = 0 /\ x.escritores = 0

\* The lock is given back; the entry of the process is freed and stays in its list; so does
\* the global entry when nobody is left.
CortoEliminaLock ==
  /\ corto.pc = "cierra"
  /\ LET p == corto.pcb
         k == abiertos[p][corto.e].e
         x == Cuenta(Entrada(k), corto.modo, -1)
     IN  /\ ~Entrada(k).lock
         /\ \E s \in AvisosAlSoltar(k, corto.modo) :
              espera' = [q \in Procesos |-> IF q \in s THEN [espera[q] EXCEPT !.pc = "despierta"]
                                                       ELSE espera[q]]
         /\ tabla_archivos_global' = [tabla_archivos_global EXCEPT ![k] = x]
         /\ abiertos' = [abiertos EXCEPT ![p][corto.e].libre = TRUE]
         /\ liberadas' = IF Cerrada(x) THEN liberadas \cup {k} ELSE liberadas
         /\ Usa(k \in liberadas)
  /\ Sigue("ejecuta")
  /\ UNCHANGED <<listos, bloqueados, saliendo, aperturas>>

\* EXIT, and F_WRITE of a file open for reading.
CortoFinaliza ==
  /\ corto.pc = "ejecuta"
  /\ saliendo' = saliendo \cup {corto.pcb}
  /\ corto' = Reposo
  /\ UNCHANGED <<listos, bloqueados, tabla_archivos_global, liberadas, abiertos, espera, aperturas,
                 fallo>>

\* DESALOJO, and the requests that take the process through BLOCK and back.
CortoDesaloja ==
  /\ corto.pc = "ejecuta"
  /\ listos' = listos \cup {corto.pcb}
  /\ corto' = Reposo
  /\ UNCHANGED <<bloqueados, tabla_archivos_global, liberadas, abiertos, espera, saliendo,
                 aperturas, fallo>>

-----------------------------------------------------------------------------
(* encolar_lock_lectura, encolar_lock_escritura *)

\* Mutant of EncolarLock: the thread sleeps without releasing the mutex.
EncolarLockSinSoltar(p) ==
  /\ espera[p].pc = "mira" \/ (espera[p].pc = "despierta" /\ ~Entrada(espera[p].e).lock)
  /\ Ocupado(espera[p].e, espera[p].modo)
  /\ espera' = [espera EXCEPT ![p].pc = "duerme"]
  /\ Usa(espera[p].e \in liberadas)
  /\ UNCHANGED <<listos, bloqueados, tabla_archivos_global, liberadas, abiertos, corto, saliendo,
                 aperturas>>

\* The while.  As long as the condition holds pthread_cond_wait releases the mutex: the first
\* time the one that the planner locked.  In the end the global entry goes into the list of the
\* process, which goes to READY, and the mutex stays locked.
EncolarLock(p) ==
  LET k == espera[p].e
      ocupado == Ocupado(k, espera[p].modo)
  IN
  /\ espera[p].pc = "mira" \/ (espera[p].pc = "despierta" /\ ~Entrada(k).lock)
  /\ tabla_archivos_global' = [tabla_archivos_global EXCEPT ![k].lock = ~ocupado]
  /\ \/ /\ ocupado
        /\ espera' = [espera EXCEPT ![p].pc = "duerme"]
        /\ UNCHANGED <<listos, bloqueados, abiertos>>
     \/ /\ ~ocupado
        /\ espera' = [espera EXCEPT ![p] = Quieto]
        /\ abiertos' = [abiertos EXCEPT ![p] = Append(@, [e |-> k, modo |-> "G", libre |-> FALSE])]
        /\ bloqueados' = bloqueados \ {p}
        /\ listos' = listos \cup {p}
  /\ Usa(k \in liberadas)
  /\ UNCHANGED <<liberadas, corto, saliendo, aperturas>>

\* POSIX lets pthread_cond_wait return without a signal.
EncolarEspurio(p) ==
  /\ espera[p].pc = "duerme"
  /\ espera' = [espera EXCEPT ![p].pc = "despierta"]
  /\ UNCHANGED <<listos, bloqueados, tabla_archivos_global, liberadas, abiertos, corto, saliendo,
                 aperturas, fallo>>

-----------------------------------------------------------------------------
\* borrar_tabla_archivos_abiertos_pcb frees whatever the list has, global entries and freed
\* ones included.  Locks are not given back.
BorrarTabla(p) ==
  /\ p \in saliendo
  /\ saliendo' = saliendo \ {p}
  /\ LET a == ToSet(abiertos[p])
         globales == {x.e : x \in {y \in a : y.modo = "G"}}
     IN  /\ liberadas' = liberadas \cup globales
         /\ Usa((\E x \in a : x.libre) \/ globales \cap liberadas # {})
  /\ abiertos' = [abiertos EXCEPT ![p] = [i \in DOMAIN @ |-> [@[i] EXCEPT !.libre = TRUE]]]
  /\ UNCHANGED <<listos, bloqueados, tabla_archivos_global, espera, corto, aperturas>>

-----------------------------------------------------------------------------
Corto ==
  \/ \E p \in Procesos : CortoElige(p)
  \/ \E f \in Archivos, modo \in Modos : CortoAbre(f, modo)
  \/ \E f \in Archivos : CortoCierra(f)
  \/ CortoCreaLock \/ CortoBloquea \/ CortoEliminaLock \/ CortoFinaliza \/ CortoDesaloja

Next ==
  /\ ~fallo
  /\ Corto \/ \E p \in Procesos : EncolarLock(p) \/ EncolarEspurio(p) \/ BorrarTabla(p)

Spec == Init /\ [][Next]_vars

\* The threads run when they can.  Spurious wake-ups may happen and need not.
Equidad == WF_vars(~fallo /\ Corto) /\ \A p \in Procesos : WF_vars(~fallo /\ EncolarLock(p))

EspecificacionJusta == Spec /\ Equidad

-----------------------------------------------------------------------------
TipoOK ==
  /\ listos \subseteq Procesos /\ bloqueados \subseteq Procesos /\ saliendo \subseteq Procesos
  /\ tabla_archivos_global \in
       Seq([archivo : Archivos, lectores : Nat, escritores : Nat, lock : BOOLEAN])
  /\ liberadas \subseteq DOMAIN tabla_archivos_global
  /\ abiertos \in [Procesos -> Seq([e : DOMAIN tabla_archivos_global, modo : Modos \cup {"G"},
                                    libre : BOOLEAN])]
  /\ espera \in [Procesos -> [pc : {"nada", "mira", "duerme", "despierta"},
                              e : DOMAIN tabla_archivos_global \cup {0}, modo : Modos]]
  /\ corto \in [pc : {"elige", "ejecuta", "abre", "bloquea", "cierra"},
                pcb : Procesos \cup {Nadie}, e : Nat, modo : Modos]
  /\ aperturas \in 0 .. MaxAperturas /\ fallo \in BOOLEAN

-----------------------------------------------------------------------------
(* Properties *)

\* p has been let in to entry k: it is not asking for the lock any more.
Dentro(p, k, modo) ==
  /\ \E i \in DOMAIN abiertos[p] : LET a == abiertos[p][i]
                                   IN  a.e = k /\ a.modo = modo /\ ~a.libre
  /\ ~(espera[p].pc # "nada" /\ espera[p].e = k)
  /\ ~(corto.pc = "abre" /\ corto.pcb = p /\ corto.e = k)

\* Somebody who waited for the lock of k got it.
Entregado(k) == \E p \in Procesos : \E i \in DOMAIN abiertos[p] :
                  abiertos[p][i].e = k /\ abiertos[p][i].modo = "G"

\* A file that one process has open for writing is open for nobody else, though one name may
\* have had several entries; until an entry is handed to a waiter, whose process frees it when
\* it ends, with others inside or not.
EscrituraExclusiva ==
  \A p, q \in Procesos : \A j, k \in DOMAIN tabla_archivos_global : \A m \in Modos :
    /\ Dentro(p, j, "W") /\ Dentro(q, k, m) /\ Entrada(j).archivo = Entrada(k).archivo
    /\ j = k \/ ~(Entregado(j) \/ Entregado(k))
    => p = q

\* An entry lives as long as somebody has the file open or waits for it, until the lock is
\* handed to a waiter (whose process frees the entry when it ends).
EntradaViva ==
  \A k \in liberadas : ~Entregado(k) =>
    \A p \in Procesos :
      /\ ~(espera[p].pc # "nada" /\ espera[p].e = k)
      /\ \A i \in DOMAIN abiertos[p] : abiertos[p][i].e = k => abiertos[p][i].libre

\* No wake-up is lost: when no writer is left, of the readers who wait one at least is awake.
\* The states after the lock has been handed to a waiter are exempt: the thread that let it in
\* has kept the mutex.
LectorDespierto ==
  \A k \in DOMAIN tabla_archivos_global :
    LET lectores == {p \in Procesos : espera[p].pc # "nada" /\ espera[p].e = k /\ espera[p].modo = "R"}
    IN  Entrada(k).escritores = 0 /\ lectores # {} /\ ~Entregado(k) =>
          \E p \in lectores : espera[p].pc # "duerme"

\* The mutex with which crear_lock returns is released by the thread it created: the planner,
\* who serves every process, waits for a mutex for ever only after a waiter was let in.
PlanificadorSigue ==
  LET k == IF corto.pc = "cierra" THEN abiertos[corto.pcb][corto.e].e ELSE corto.e
  IN  corto.pc \in {"abre", "cierra"} ~>
        (corto.pc \notin {"abre", "cierra"} \/ Entregado(k) \/ fallo)
=============================================================================
