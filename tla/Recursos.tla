------------------------------ MODULE Recursos ------------------------------
(***************************************************************************)
(* Resources and deadlock detection of the kernel (kernel/src/scheduler.c):*)
(* WAIT and SIGNAL as the short-term planner serves them, the threads that *)
(* destroy a process and return what it holds, the threads those create to *)
(* hand a returned instance to a waiter, the detector, and the operator    *)
(* who kills a process the detector reported.                              *)
(*                                                                         *)
(* The processes have been created and admitted; READY is the set of those *)
(* that may be dispatched (Planificador says how it is served).            *)
(***************************************************************************)
EXTENDS Integers, Sequences, FiniteSets, SequencesExt

CONSTANTS
  NProcesos,    \* processes in the system
  NRecursos,    \* entries of RECURSOS in the configuration
  Instancias,   \* INSTANCIAS_RECURSOS, by resource
  MaxWaits,     \* bound: WAIT instructions executed
  MaxMuertes    \* bound: FINALIZAR_PROCESO commands

Procesos == 0 .. NProcesos - 1
Recursos == 1 .. NRecursos
Nadie    == -1
Ninguno  == 0    \* recurso_requerido == NULL

ASSUME ConstantesOK ==
  /\ NProcesos \in Nat /\ NRecursos \in Nat /\ MaxWaits \in Nat /\ MaxMuertes \in Nat
  /\ Instancias \in [Recursos -> Nat]

VARIABLES
  listos,              \* processes in READY
  estado,              \* state field of each t_pcb
  total_pcbs,          \* the processes whose t_pcb is allocated, in the order of creation
  vector_recursos,     \* semaphore of each resource
  colas_recursos,      \* processes blocked on each resource
  asignados, pedidos, requerido, block_recurso,   \* fields of the t_pcb
  recursos_disponibles,   \* the detector's work vector
  deadlock,               \* processes of the last report: the flag is deadlock # {}
  aguardar_deadlock,      \* semaphore
  esperando,              \* by resource, threads asleep in aguardar_solucion_deadlock
  fin_por_consola,        \* processes the operator has killed
  hilo,                   \* the short-term planner and the thread that hands over
  fin,                    \* by process, its agregar_a_exit thread
  waits,                  \* WAIT instructions executed so far
  fallo                   \* the kernel used a t_pcb after free()

campos   == <<asignados, pedidos, requerido, block_recurso>>
detector == <<recursos_disponibles, deadlock>>
avisos   == <<aguardar_deadlock, esperando>>
vars     == <<listos, estado, total_pcbs, vector_recursos, colas_recursos, campos, detector,
              avisos, fin_por_consola, hilo, fin, waits, fallo>>

Hilos   == {"corto", "reparto"}
SinNada == [r \in Recursos |-> 0]

\* A thread between two pieces of work: its local variables are dead.
Reposo(h) == [pc |-> IF h = "corto" THEN "elige" ELSE "libre",
              pcb |-> Nadie, rec |-> Ninguno, otro |-> Nadie]
FinReposo == [pc |-> "libre", i |-> 1, j |-> 0]

Init ==
  /\ listos = Procesos
  /\ estado = [p \in Procesos |-> "READY"]
  /\ total_pcbs = [i \in 1 .. NProcesos |-> i - 1]
  /\ vector_recursos = Instancias
  /\ colas_recursos = [r \in Recursos |-> <<>>]
  /\ asignados = [p \in Procesos |-> SinNada]
  /\ pedidos = [p \in Procesos |-> {}]
  /\ requerido = [p \in Procesos |-> Ninguno]
  /\ block_recurso = {}
  /\ recursos_disponibles = SinNada
  /\ deadlock = {}
  /\ aguardar_deadlock = 0
  /\ esperando = SinNada
  /\ fin_por_consola = {}
  /\ hilo = [h \in Hilos |-> Reposo(h)]
  /\ fin = [p \in Procesos |-> FinReposo]
  /\ waits = 0
  /\ fallo = FALSE

-----------------------------------------------------------------------------
(* Threads and locks *)

En(h, l)    == hilo[h].pc = l
Pcb         == hilo["corto"].pcb
Rec(h)      == hilo[h].rec
Sigue(h, l) == hilo' = [hilo EXCEPT ![h].pc = l]
SigueFin(p, l) == fin' = [fin EXCEPT ![p].pc = l]

Vivo(p) == p \in ToSet(total_pcbs)

\* A thread asleep on a resource keeps sem_inst_recursos; every post to a resource needs it.
InstLibre == \A h \in Hilos : hilo[h].pc \notin {"duerme_wait", "duerme"}

\* sem_block_recursos, held by sacar_de_block_recurso from the list to agregar_a_ready.
ColasLibres == \A h \in Hilos : hilo[h].pc \notin {"toma", "duerme", "entrega"}

\* mutex_deteccion_deadlock.
DeteccionLibre == ~En("corto", "evalua") /\ \A p \in Procesos : fin[p].pc # "evalua"

Toma(r)   == vector_recursos' = [vector_recursos EXCEPT ![r] = @ - 1]
Suelta(r) == vector_recursos' = [vector_recursos EXCEPT ![r] = @ + 1]

-----------------------------------------------------------------------------
(* detectar_deadlock_recursos *)

SinAsignados(p) == \A r \in Recursos : asignados[p][r] = 0

\* filtrar_sin_recursos on list_filter(total_pcbs, bloqueado_por_recurso).  The index advances
\* after a removal too, so the blocked process behind one that was removed is never looked
\* at: sacado[k] says that the last one up to place k was.  (Whoever is blocked has a request.)
Filtrados ==
  LET bloqueado(k) == total_pcbs[k] \in block_recurso
      sacado[k \in 0 .. Len(total_pcbs)] ==
        k > 0 /\ IF bloqueado(k) THEN SinAsignados(total_pcbs[k]) /\ ~sacado[k - 1]
                                ELSE sacado[k - 1]
  IN  {total_pcbs[k] : k \in {i \in DOMAIN total_pcbs : bloqueado(i) /\ ~sacado[i]}}

Disponible(r, terminados) ==
  recursos_disponibles[r] + SumFunction([p \in terminados |-> asignados[p][r]])

\* Mutant of PuedeFinalizar: the vector is compared before the request is subtracted.
PuedeFinalizarSinRestar(p, terminados) == \A r \in pedidos[p] : Disponible(r, terminados) >= 0

PuedeFinalizar(p, terminados) == \A r \in pedidos[p] : Disponible(r, terminados) >= 1

\* The while over list_find takes out of the list whoever can finish and adds what it holds
\* to the vector, which only grows: in any order, what stays is the largest part of the list
\* in which nobody can finish with what those outside it return.
Resto ==
  UNION {s \in SUBSET Filtrados : \A p \in s : ~PuedeFinalizar(p, Filtrados \ s)}

LeeDisponibles ==
  /\ DeteccionLibre
  /\ recursos_disponibles' = vector_recursos
  /\ UNCHANGED <<listos, estado, total_pcbs, vector_recursos, colas_recursos, campos, deadlock,
                 avisos, fin_por_consola, waits, fallo>>

\* The verdict, under sem_total_pcbs; without deadlock the planner is signalled.  What is
\* left in the work vector is overwritten before it is read again.
Evalua ==
  /\ deadlock' = Resto
  /\ recursos_disponibles' = SinNada
  /\ UNCHANGED <<listos, estado, total_pcbs, vector_recursos, colas_recursos, campos,
                 avisos, fin_por_consola, waits, fallo>>

-----------------------------------------------------------------------------
(* sacar_de_block_recurso, run by the planner after a SIGNAL and by the thread that hands over *)

\* Its end: the planner answers OK and the process goes on, the other thread ends.
Vuelve(h) ==
  hilo' = [hilo EXCEPT ![h] =
             IF h = "corto" THEN [@ EXCEPT !.pc = "ejecuta", !.rec = Ninguno, !.otro = Nadie]
                            ELSE Reposo(h)]

\* Mutant of Saca: list_get where the code has list_remove.
SacaSinSacar(h) ==
  /\ En(h, "saca") /\ ColasLibres
  /\ LET cola == colas_recursos[Rec(h)]
     IN  IF cola = <<>> THEN Vuelve(h)
         ELSE hilo' = [hilo EXCEPT ![h].pc = "toma", ![h].otro = Last(cola)]
  /\ UNCHANGED <<listos, estado, total_pcbs, vector_recursos, colas_recursos, campos, detector,
                 avisos, fin_por_consola, fin, waits, fallo>>

\* The last one that came is the first one served.
Saca(h) ==
  /\ En(h, "saca") /\ ColasLibres
  /\ LET cola == colas_recursos[Rec(h)]
     IN  IF cola = <<>>
         THEN Vuelve(h) /\ UNCHANGED colas_recursos
         ELSE /\ colas_recursos' = [colas_recursos EXCEPT ![Rec(h)] = Front(cola)]
              /\ hilo' = [hilo EXCEPT ![h].pc = "toma", ![h].otro = Last(cola)]
  /\ UNCHANGED <<listos, estado, total_pcbs, vector_recursos, campos, detector, avisos,
                 fin_por_consola, fin, waits, fallo>>

\* sem_wait(&vector_recursos[recurso]) with sem_block_recursos and sem_inst_recursos held.
TomaInstancia(h) ==
  /\ En(h, "toma") /\ InstLibre
  /\ IF vector_recursos[Rec(h)] > 0
     THEN Toma(Rec(h)) /\ Sigue(h, "entrega")
     ELSE Sigue(h, "duerme") /\ UNCHANGED vector_recursos
  /\ UNCHANGED <<listos, estado, total_pcbs, colas_recursos, campos, detector, avisos,
                 fin_por_consola, fin, waits, fallo>>

Entrega(h) ==
  /\ En(h, "entrega")
  /\ LET p == hilo[h].otro
     IN  /\ asignados' = [asignados EXCEPT ![p][Rec(h)] = @ + 1]
         /\ block_recurso' = block_recurso \ {p}
         /\ listos' = listos \cup {p}
         /\ estado' = [estado EXCEPT ![p] = "READY"]
         /\ fallo' = ~Vivo(p)
  /\ Vuelve(h)
  /\ UNCHANGED <<total_pcbs, vector_recursos, colas_recursos, pedidos, requerido, detector,
                 avisos, fin_por_consola, fin, waits>>

-----------------------------------------------------------------------------
(* The short-term planner *)

CortoElige(p) ==
  /\ En("corto", "elige") /\ p \in listos
  /\ listos' = listos \ {p}
  /\ estado' = [estado EXCEPT ![p] = "EXEC"]
  /\ hilo' = [hilo EXCEPT !["corto"].pc = "ejecuta", !["corto"].pcb = p]
  /\ fallo' = ~Vivo(p)
  /\ UNCHANGED <<total_pcbs, vector_recursos, colas_recursos, campos, detector, avisos,
                 fin_por_consola, fin, waits>>

\* WAIT looks at the value under sem_inst_recursos, lets go, ...
CortoWait(r) ==
  /\ En("corto", "ejecuta") /\ InstLibre
  /\ waits < MaxWaits /\ waits' = waits + 1
  /\ hilo' = [hilo EXCEPT !["corto"].rec = r,
                          !["corto"].pc = IF vector_recursos[r] > 0 THEN "toma_wait" ELSE "encola"]
  /\ UNCHANGED <<listos, estado, total_pcbs, vector_recursos, colas_recursos, campos, detector,
                 avisos, fin_por_consola, fin, fallo>>

\* ... and takes it again to wait for the instance.
CortoToma ==
  /\ En("corto", "toma_wait") /\ InstLibre
  /\ IF vector_recursos[Rec("corto")] > 0
     THEN /\ Toma(Rec("corto"))
          /\ asignados' = [asignados EXCEPT ![Pcb][Rec("corto")] = @ + 1]
          /\ Vuelve("corto")
     ELSE Sigue("corto", "duerme_wait") /\ UNCHANGED <<vector_recursos, asignados>>
  /\ UNCHANGED <<listos, estado, total_pcbs, colas_recursos, pedidos, requerido, block_recurso,
                 detector, avisos, fin_por_consola, fin, waits, fallo>>

\* agregar_a_block_recurso: the queue first, ...
CortoEncola ==
  /\ En("corto", "encola") /\ ColasLibres
  /\ requerido' = [requerido EXCEPT ![Pcb] = Rec("corto")]
  /\ colas_recursos' = [colas_recursos EXCEPT ![Rec("corto")] = Append(@, Pcb)]
  /\ Sigue("corto", "marca")
  /\ UNCHANGED <<listos, estado, total_pcbs, vector_recursos, asignados, pedidos, block_recurso,
                 detector, avisos, fin_por_consola, fin, waits, fallo>>

\* ... the fields afterwards, without a lock.
CortoMarca ==
  /\ En("corto", "marca")
  /\ pedidos' = [pedidos EXCEPT ![Pcb] = @ \cup {Rec("corto")}]
  /\ block_recurso' = block_recurso \cup {Pcb}
  /\ estado' = [estado EXCEPT ![Pcb] = "BLOCK"]
  /\ hilo' = [hilo EXCEPT !["corto"] = [Reposo("corto") EXCEPT !.pc = "lee"]]
  /\ UNCHANGED <<listos, total_pcbs, vector_recursos, colas_recursos, asignados, requerido,
                 detector, avisos, fin_por_consola, fin, waits, fallo>>

\* ciclo_deteccion_deadlock.
CortoLee    == En("corto", "lee") /\ LeeDisponibles /\ Sigue("corto", "evalua") /\ UNCHANGED fin
CortoEvalua == En("corto", "evalua") /\ Evalua /\ Sigue("corto", "espera") /\ UNCHANGED fin

\* pthread_cond_wait(&condition, &mutex_deadlock) while the flag is up.
CortoContinua ==
  /\ En("corto", "espera") /\ deadlock = {}
  /\ hilo' = [hilo EXCEPT !["corto"] = Reposo("corto")]
  /\ UNCHANGED <<listos, estado, total_pcbs, vector_recursos, colas_recursos, campos, detector,
                 avisos, fin_por_consola, fin, waits, fallo>>

\* Mutant of CortoSignal: pcb->recursos_asignados[i] is not looked at.
CortoSignalSinMirar(r) ==
  /\ En("corto", "ejecuta") /\ InstLibre
  /\ Suelta(r)
  /\ asignados' = [asignados EXCEPT ![Pcb][r] = @ - 1]
  /\ IF colas_recursos[r] = <<>>
     THEN UNCHANGED hilo
     ELSE hilo' = [hilo EXCEPT !["corto"].pc = "saca", !["corto"].rec = r]
  /\ UNCHANGED <<listos, estado, total_pcbs, colas_recursos, pedidos, requerido, block_recurso,
                 detector, avisos, fin_por_consola, fin, waits, fallo>>

\* Mutant of CortoSignal: no sacar_de_block_recurso.
CortoSignalSinDespertar(r) ==
  /\ En("corto", "ejecuta") /\ asignados[Pcb][r] > 0 /\ InstLibre
  /\ Suelta(r)
  /\ asignados' = [asignados EXCEPT ![Pcb][r] = @ - 1]
  /\ UNCHANGED <<listos, estado, total_pcbs, colas_recursos, pedidos, requerido, block_recurso,
                 detector, avisos, fin_por_consola, hilo, fin, waits, fallo>>

\* The queue is looked at without its lock.
CortoSignal(r) ==
  /\ En("corto", "ejecuta") /\ asignados[Pcb][r] > 0 /\ InstLibre
  /\ Suelta(r)
  /\ asignados' = [asignados EXCEPT ![Pcb][r] = @ - 1]
  /\ IF colas_recursos[r] = <<>>
     THEN UNCHANGED hilo
     ELSE hilo' = [hilo EXCEPT !["corto"].pc = "saca", !["corto"].rec = r]
  /\ UNCHANGED <<listos, estado, total_pcbs, colas_recursos, pedidos, requerido, block_recurso,
                 detector, avisos, fin_por_consola, fin, waits, fallo>>

\* EXIT, WAIT of a resource that does not exist, SIGNAL of one that is not held.
CortoFinaliza ==
  /\ En("corto", "ejecuta")
  /\ estado' = [estado EXCEPT ![Pcb] = "FIN"]
  /\ fallo' = (fin[Pcb].pc # "libre")
  /\ SigueFin(Pcb, "quita")
  /\ hilo' = [hilo EXCEPT !["corto"] = Reposo("corto")]
  /\ UNCHANGED <<listos, total_pcbs, vector_recursos, colas_recursos, campos, detector, avisos,
                 fin_por_consola, waits>>

\* DESALOJO, and any request that takes the process through BLOCK and back.
CortoDesaloja ==
  /\ En("corto", "ejecuta")
  /\ listos' = IF estado[Pcb] # "FIN" THEN listos \cup {Pcb} ELSE listos
  /\ estado' = IF estado[Pcb] # "FIN" THEN [estado EXCEPT ![Pcb] = "READY"] ELSE estado
  /\ hilo' = [hilo EXCEPT !["corto"] = Reposo("corto")]
  /\ UNCHANGED <<total_pcbs, vector_recursos, colas_recursos, campos, detector, avisos,
                 fin_por_consola, fin, waits, fallo>>

-----------------------------------------------------------------------------
(* agregar_a_exit *)

\* FINALIZAR_PROCESO, given to get out of a deadlock: a process the detector reported, while
\* the planner waits, one at a time.
Finalizar(p) ==
  /\ En("corto", "espera") /\ p \in deadlock /\ estado[p] # "FIN"
  /\ Cardinality(fin_por_consola) < MaxMuertes
  /\ \A q \in fin_por_consola : fin[q].pc = "libre"
  /\ fin_por_consola' = fin_por_consola \cup {p}
  /\ SigueFin(p, "mata")
  /\ UNCHANGED <<listos, estado, total_pcbs, vector_recursos, colas_recursos, campos, detector,
                 avisos, hilo, waits, fallo>>

\* The switch on the state: the planner dispatches nobody meanwhile, so it is READY or BLOCK;
\* a process blocked by a resource is not in plani_block.
FinMata(p) ==
  /\ fin[p].pc = "mata"
  /\ listos' = IF estado[p] = "READY" THEN listos \ {p} ELSE listos
  /\ estado' = [estado EXCEPT ![p] = "FIN"]
  /\ SigueFin(p, "quita")
  /\ UNCHANGED <<total_pcbs, vector_recursos, colas_recursos, campos, detector, avisos,
                 fin_por_consola, hilo, waits, fallo>>

\* liberar_recursos_asignados: out of the queue it last entered, whether it is there or not, ...
FinQuita(p) ==
  /\ fin[p].pc = "quita"
  /\ IF requerido[p] = Ninguno THEN UNCHANGED colas_recursos
     ELSE /\ ColasLibres
          /\ colas_recursos' = [colas_recursos EXCEPT ![requerido[p]] = RemoveFirst(@, p)]
  /\ SigueFin(p, "devuelve")
  /\ UNCHANGED <<listos, estado, total_pcbs, vector_recursos, campos, detector, avisos,
                 fin_por_consola, hilo, waits, fallo>>

\* Mutant of FinDevuelve: j <= recursos_asignados[i].
FinDevuelveDeMas(p) ==
  /\ fin[p].pc = "devuelve"
  /\ LET f == fin[p]
         faltan == {r \in Recursos : \/ r = f.i /\ f.j <= asignados[p][r]
                                     \/ r > f.i}
     IN  \/ /\ faltan = {}
            /\ SigueFin(p, "borra") /\ UNCHANGED <<vector_recursos, esperando>>
         \/ \E i \in faltan :
              /\ \A k \in faltan : i <= k
              /\ InstLibre
              /\ Suelta(i)
              /\ esperando' = [esperando EXCEPT ![i] = @ + 1]
              /\ fin' = [fin EXCEPT ![p].i = i, ![p].j = IF i = f.i THEN @ + 1 ELSE 1]
  /\ UNCHANGED <<listos, estado, total_pcbs, colas_recursos, campos, detector,
                 aguardar_deadlock, fin_por_consola, hilo, waits, fallo>>

\* ... and one post, and one thread that waits for aguardar_deadlock, per instance held: the
\* loops over the resources (i) and over recursos_asignados[i] (j).
FinDevuelve(p) ==
  /\ fin[p].pc = "devuelve"
  /\ LET f == fin[p]
         faltan == {r \in Recursos : \/ r = f.i /\ f.j < asignados[p][r]
                                     \/ r > f.i /\ asignados[p][r] > 0}
     IN  \/ /\ faltan = {}
            /\ SigueFin(p, "borra") /\ UNCHANGED <<vector_recursos, esperando>>
         \/ \E i \in faltan :
              /\ \A k \in faltan : i <= k
              /\ InstLibre
              /\ Suelta(i)
              /\ esperando' = [esperando EXCEPT ![i] = @ + 1]
              /\ fin' = [fin EXCEPT ![p].i = i, ![p].j = IF i = f.i THEN @ + 1 ELSE 1]
  /\ UNCHANGED <<listos, estado, total_pcbs, colas_recursos, campos, detector,
                 aguardar_deadlock, fin_por_consola, hilo, waits, fallo>>

\* Mutant of FinBorra: aguardar_deadlock is posted for every process that ends.
FinBorraAvisa(p) ==
  /\ fin[p].pc = "borra"
  /\ total_pcbs' = RemoveFirst(total_pcbs, p)
  /\ asignados' = [asignados EXCEPT ![p] = SinNada]
  /\ pedidos' = [pedidos EXCEPT ![p] = {}]
  /\ requerido' = [requerido EXCEPT ![p] = Ninguno]
  /\ block_recurso' = block_recurso \ {p}
  /\ fin' = [fin EXCEPT ![p] =
               [FinReposo EXCEPT !.pc = IF p \in fin_por_consola THEN "lee" ELSE "avisa"]]
  /\ UNCHANGED <<listos, estado, vector_recursos, colas_recursos, detector, avisos,
                 fin_por_consola, hilo, waits, fallo>>

\* Out of total_pcbs, free(pcb), and fin_por_consola read once more.  The fields of a freed
\* t_pcb are not followed: whoever uses them afterwards sets fallo.
FinBorra(p) ==
  /\ fin[p].pc = "borra"
  /\ total_pcbs' = RemoveFirst(total_pcbs, p)
  /\ asignados' = [asignados EXCEPT ![p] = SinNada]
  /\ pedidos' = [pedidos EXCEPT ![p] = {}]
  /\ requerido' = [requerido EXCEPT ![p] = Ninguno]
  /\ block_recurso' = block_recurso \ {p}
  /\ fin' = [fin EXCEPT ![p] =
               [FinReposo EXCEPT !.pc = IF p \in fin_por_consola THEN "lee" ELSE "libre"]]
  /\ UNCHANGED <<listos, estado, vector_recursos, colas_recursos, detector, avisos,
                 fin_por_consola, hilo, waits, fallo>>

FinLee(p)    == fin[p].pc = "lee" /\ LeeDisponibles /\ SigueFin(p, "evalua") /\ UNCHANGED hilo
FinEvalua(p) == fin[p].pc = "evalua" /\ Evalua /\ SigueFin(p, "avisa") /\ UNCHANGED hilo

FinAvisa(p) ==
  /\ fin[p].pc = "avisa"
  /\ aguardar_deadlock' = aguardar_deadlock + 1
  /\ SigueFin(p, "libre")
  /\ UNCHANGED <<listos, estado, total_pcbs, vector_recursos, colas_recursos, campos, detector,
                 esperando, fin_por_consola, hilo, waits, fallo>>

-----------------------------------------------------------------------------
\* aguardar_solucion_deadlock.  One thread at a time is followed past its sem_wait: the others
\* would queue for sem_block_recursos.
RepartoDespierta(r) ==
  /\ En("reparto", "libre") /\ aguardar_deadlock > 0 /\ esperando[r] > 0
  /\ aguardar_deadlock' = aguardar_deadlock - 1
  /\ esperando' = [esperando EXCEPT ![r] = @ - 1]
  /\ hilo' = [hilo EXCEPT !["reparto"].pc = "saca", !["reparto"].rec = r]
  /\ UNCHANGED <<listos, estado, total_pcbs, vector_recursos, colas_recursos, campos, detector,
                 fin_por_consola, fin, waits, fallo>>

SacarDeBlockRecurso(h) == Saca(h) \/ TomaInstancia(h) \/ Entrega(h)

Corto ==
  \/ \E p \in Procesos : CortoElige(p)
  \/ \E r \in Recursos : CortoWait(r) \/ CortoSignal(r)
  \/ CortoToma \/ CortoEncola \/ CortoMarca \/ CortoLee \/ CortoEvalua \/ CortoContinua
  \/ CortoFinaliza \/ CortoDesaloja \/ SacarDeBlockRecurso("corto")

AgregarAExit(p) ==
  FinMata(p) \/ FinQuita(p) \/ FinDevuelve(p) \/ FinBorra(p) \/ FinLee(p) \/ FinEvalua(p)
    \/ FinAvisa(p)

Reparto == SacarDeBlockRecurso("reparto") \/ \E r \in Recursos : RepartoDespierta(r)

Next ==
  /\ ~fallo
  /\ \/ Corto \/ Reparto
     \/ \E p \in Procesos : AgregarAExit(p) \/ Finalizar(p)

Spec == Init /\ [][Next]_vars

-----------------------------------------------------------------------------
Etapas    == {"elige", "ejecuta", "toma_wait", "duerme_wait", "encola", "marca", "lee", "evalua",
              "espera", "saca", "toma", "duerme", "entrega", "libre"}
EtapasFin == {"libre", "mata", "quita", "devuelve", "borra", "lee", "evalua", "avisa"}

TipoOK ==
  /\ listos \subseteq Procesos /\ estado \in [Procesos -> {"READY", "EXEC", "BLOCK", "FIN"}]
  /\ total_pcbs \in Seq(Procesos)
  /\ vector_recursos \in [Recursos -> Nat] /\ recursos_disponibles \in [Recursos -> Nat]
  /\ colas_recursos \in [Recursos -> Seq(Procesos)]
  /\ asignados \in [Procesos -> [Recursos -> Nat]]
  /\ pedidos \in [Procesos -> SUBSET Recursos]
  /\ requerido \in [Procesos -> Recursos \cup {Ninguno}]
  /\ block_recurso \subseteq Procesos /\ deadlock \subseteq Procesos
  /\ aguardar_deadlock \in Nat /\ esperando \in [Recursos -> Nat]
  /\ fin_por_consola \subseteq Procesos
  /\ hilo \in [Hilos -> [pc : Etapas, pcb : Procesos \cup {Nadie},
                         rec : Recursos \cup {Ninguno}, otro : Procesos \cup {Nadie}]]
  /\ fin \in [Procesos -> [pc : EtapasFin, i : Recursos \cup {1}, j : Nat]]
  /\ waits \in Nat /\ fallo \in BOOLEAN

-----------------------------------------------------------------------------
(* Properties *)

\* What p holds that its exit thread has not returned yet.
EnPoder(p, r) ==
  CASE fin[p].pc \in {"libre", "mata", "quita"} -> asignados[p][r]
    [] fin[p].pc = "devuelve" /\ r = fin[p].i   -> asignados[p][r] - fin[p].j
    [] fin[p].pc = "devuelve" /\ r > fin[p].i   -> asignados[p][r]
    [] OTHER                                    -> 0

\* Taken from the semaphore for a waiter that does not have it yet.
EnCamino(r) == Cardinality({h \in Hilos : En(h, "entrega") /\ Rec(h) = r})

\* Instances are conserved: WAIT, SIGNAL, the hand-over and the exit threads move them
\* between the semaphore and the processes without creating or losing any.
InstanciasConservadas ==
  \A r \in Recursos :
    vector_recursos[r] + SumFunction([p \in Procesos |-> EnPoder(p, r)]) + EnCamino(r)
      = Instancias[r]

\* The processes of a real deadlock: each waits for a resource all whose instances are held
\* by processes of the set.  Everybody else may still return what it has.
EnCola(p) == requerido[p] # Ninguno /\ p \in ToSet(colas_recursos[requerido[p]])

Interbloqueados ==
  UNION {s \in SUBSET {p \in ToSet(total_pcbs) : EnCola(p)} :
           \A p \in s : SumFunction([q \in s |-> asignados[q][requerido[p]]])
                          = Instancias[requerido[p]]}

\* No real deadlock goes unreported: from the planner's verdict on, whoever is in one and holds
\* something is named, so the planner does not go on planning around it.
DeadlockReportado ==
  hilo["corto"].pc \in {"elige", "ejecuta", "espera"} =>
    {p \in Interbloqueados : ~SinAsignados(p)} \subseteq deadlock

\* Every process reported holds some resource.
ReportaConRecursos == \A p \in deadlock : ~SinAsignados(p)

\* As long as nobody is killed, no thread falls asleep on a resource with its mutexes held:
\* the value WAIT looked at is still there when it takes the instance, and the instance of
\* a SIGNAL goes to the waiter it was posted for.
NadieDuerme == fin_por_consola = {} => InstLibre

\* As long as nobody is killed, no wake-up is lost: a waiter beside a free instance has a
\* thread that was created, or is about, to hand it over.
EntregaPendiente ==
  fin_por_consola = {} =>
    \A r \in Recursos :
      vector_recursos[r] > 0 /\ colas_recursos[r] # <<>> =>
        esperando[r] > 0 \/ \E h \in Hilos : hilo[h].pc \in {"saca", "toma"} /\ Rec(h) = r

\* Who is in the queue of a resource waits for that resource and for no other, once, is not
\* ready, and has not been freed.
ColaCoherente ==
  \A r \in Recursos :
    /\ IsInjective(colas_recursos[r])
    /\ \A p \in ToSet(colas_recursos[r]) : requerido[p] = r /\ p \notin listos /\ Vivo(p)
=============================================================================
