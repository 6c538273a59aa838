---------------------------- MODULE Finalizacion ----------------------------
(***************************************************************************)
(* FINALIZAR_PROCESO (kernel/src/kernel.c, agregar_a_exit in scheduler.c): *)
(* the console marks the t_pcb and starts an exit thread, which waits      *)
(* until the planner is not handling the process's context, looks where    *)
(* the process is, takes it out of there, and frees it.  Nothing tells the *)
(* planners, the sleeping threads or the CPU.  The module adds that thread *)
(* to Planificador, whose steps it takes as they are but for the ones that *)
(* look at the two flags of the t_pcb.                                     *)
(*                                                                         *)
(* The model stops where the program's behaviour is no longer defined: at  *)
(* the first step after which a queue or a thread holds a freed t_pcb      *)
(* (Colgado), and when the planner has read words of the dispatch socket   *)
(* meant as something else (confundido).                                   *)
(***************************************************************************)
EXTENDS Planificador

CONSTANT MaxMuertes   \* bound: FINALIZAR_PROCESO commands the console issues

ASSUME MuertesOK == MaxMuertes \in Nat

VARIABLES
  fin_por_consola,      \* flag of the t_pcb: the console has asked for its end
  manejando_contexto,   \* flag of the t_pcb: its context is being handled
  estado_aux,           \* local of each exit thread: the state it found at its start
  muertes,              \* FINALIZAR_PROCESO commands issued
  confundido            \* the planner has taken one word of the socket for another

banderas == <<fin_por_consola, manejando_contexto, estado_aux, muertes, confundido>>
varsF    == <<vars, banderas>>

\* crear_proceso sets fin_por_consola but not manejando_contexto, which keeps whatever
\* malloc found.
InitF ==
  /\ Init
  /\ fin_por_consola = [p \in Procesos |-> FALSE]
  /\ manejando_contexto \in [Procesos -> BOOLEAN]
  /\ estado_aux = [h \in Auxiliares |-> NULO]
  /\ muertes = 0
  /\ confundido = FALSE

-----------------------------------------------------------------------------
(* The planners, with the flags they set and look at *)

Igual(A) == A /\ UNCHANGED banderas

Maneja(p, valor) ==
  /\ manejando_contexto' = [manejando_contexto EXCEPT ![p] = valor]
  /\ UNCHANGED <<fin_por_consola, estado_aux, muertes, confundido>>

\* Bound: a page fault waits until the previous one's thread has read params, whose
\* overwriting is Planificador's subject.
PfSinLeer == {h \in Auxiliares : En(h, "lee_params")}

\* recibir_contexto_y_actualizar_pcb raises the flag ...
CortoRecibeF == CortoRecibe /\ Maneja(Pcb("corto"), TRUE)

\* ... and the case of the request lowers it, unless it is a granted OPEN (371-375,
\* 388-392) or a SIGNAL of an unknown resource (310-314); the case of DESALOJO does it
\* after agregar_a_ready.
CortoAtiendeF ==
  \/ (CortoFinaliza \/ CortoContinua) /\ (Maneja(Pcb("corto"), FALSE) \/ UNCHANGED banderas)
  \/ (CortoDuerme \/ CortoPideFS) /\ Maneja(Pcb("corto"), FALSE)
  \/ PfSinLeer = {} /\ CortoPageFault /\ Maneja(Pcb("corto"), FALSE)
  \/ /\ CortoDesaloja
     /\ IF hilo'["corto"].pc = "espera_ready" THEN Maneja(Pcb("corto"), FALSE)
        ELSE UNCHANGED banderas

ListaF(h) ==
  /\ Lista(h)
  /\ IF h = "corto" THEN Maneja(Pcb(h), FALSE) ELSE UNCHANGED banderas

\* handle_pf leaves a process that the console has ended where it is.
ResuelvePfF(h) ==
  \/ Igual(ResuelvePf(h)) /\ ~fin_por_consola[Pcb(h)]
  \/ /\ En(h, "pide_pagina") /\ fin_por_consola[Pcb(h)]
     /\ Va(h, "libre", NULO)
     /\ UNCHANGED <<config, colas, pcbs, sem, params, maquina, pausa, fallo, banderas>>

-----------------------------------------------------------------------------
(* Mutants *)

\* The exit thread keeps the motive where it should keep the state.
SaleConMotivo(h) ==
  \/ Igual(SaleDelSistema(h)) /\ ~fin_por_consola[Pcb(h)]
  \/ /\ En(h, "sale") /\ fin_por_consola[Pcb(h)]
     /\ estado_aux' = [estado_aux EXCEPT ![h] = "Finalizado por consola."]
     /\ Sigue(h, "espera_manejo")
     /\ UNCHANGED <<config, colas, pcbs, sem, params, maquina, pausa, fallo,
                    fin_por_consola, manejando_contexto, muertes, confundido>>

\* while(!pcb->manejando_contexto).
EsperaManejoInvertida(h) ==
  /\ En(h, "espera_manejo") /\ manejando_contexto[Pcb(h)]
  /\ Sigue(h, "segun_estado")
  /\ UNCHANGED <<config, colas, pcbs, sem, params, maquina, pausa, fallo, banderas>>

\* list_remove(plani_new, 0) where sacar_de_new_particular has list_remove_element.
SegunEstadoPrimero(h) ==
  LET p == Pcb(h) IN
  /\ En(h, "segun_estado")
  /\ interrupt_pid' = IF estado[p] = "EXEC" THEN p ELSE interrupt_pid
  /\ plani_new'   = IF estado[p] = "NEW" /\ plani_new # <<>>
                    THEN Tail(plani_new) ELSE plani_new
  /\ plani_ready' = IF estado[p] = "READY" THEN RemoveFirst(plani_ready, p) ELSE plani_ready
  /\ plani_block' = IF estado[p] = "BLOCK" THEN plani_block \ {p} ELSE plani_block
  /\ Sigue(h, IF estado[p] = "EXEC" THEN "recibe" ELSE "termina")
  /\ UNCHANGED <<config, plani_exec, plani_exit, pcbs, sem, params, cpu, mensaje, quantum,
                 pausa, fallo, banderas>>

\* sem_post(&multiprog_disponible) in both branches and once more after them.
AgregaExitDoble(h) ==
  /\ En(h, "devuelve") \/ En(h, "agrega_exit")
  /\ sem' = [sem EXCEPT !["multiprog_disponible"] = @ + 2]
  /\ plani_exit' = plani_exit \cup {Pcb(h)}
  /\ Sigue(h, "libera")
  /\ UNCHANGED <<config, plani_new, plani_ready, plani_exec, plani_block, pcbs, params,
                 maquina, pausa, fallo, banderas>>

-----------------------------------------------------------------------------
(* The console and the exit thread *)

\* FINALIZAR_PROCESO: a pid that buscar_pcb_por_pid does not find gives a NULL whose estado
\* is read; a process already finishing is left alone, but not one being ended by an
\* earlier command.
FinalizarProceso(p) ==
  /\ muertes < MaxMuertes /\ p < pid_global
  /\ muertes' = muertes + 1
  /\ \/ /\ p \notin total_pcbs /\ fallo' = TRUE
        /\ UNCHANGED <<hilo, fin_por_consola>>
     \/ /\ p \in total_pcbs /\ estado[p] # "FIN"
        /\ fin_por_consola' = [fin_por_consola EXCEPT ![p] = TRUE]
        /\ Libres # {}
        /\ LET a == CHOOSE x \in Libres : TRUE IN Va(a, "sale", p)
        /\ UNCHANGED fallo
  /\ UNCHANGED <<config, colas, pcbs, sem, params, maquina, pausa, manejando_contexto,
                 estado_aux, confundido>>

\* agregar_a_exit, whoever started it, looks at the flag of the t_pcb.
SaleF(h) ==
  \/ Igual(SaleDelSistema(h)) /\ ~fin_por_consola[Pcb(h)]
  \/ /\ En(h, "sale") /\ fin_por_consola[Pcb(h)]
     /\ estado_aux' = [estado_aux EXCEPT ![h] = estado[Pcb(h)]]
     /\ Sigue(h, "espera_manejo")
     /\ UNCHANGED <<config, colas, pcbs, sem, params, maquina, pausa, fallo,
                    fin_por_consola, manejando_contexto, muertes, confundido>>

EsperaManejo(h) ==
  /\ En(h, "espera_manejo") /\ ~manejando_contexto[Pcb(h)]
  /\ Sigue(h, "segun_estado")
  /\ UNCHANGED <<config, colas, pcbs, sem, params, maquina, pausa, fallo, banderas>>

\* The switch on pcb->estado, which may be behind the queues or ahead of them.
SegunEstado(h) ==
  LET p == Pcb(h) IN
  /\ En(h, "segun_estado")
  /\ interrupt_pid' = IF estado[p] = "EXEC" THEN p ELSE interrupt_pid
  /\ plani_new'   = IF estado[p] = "NEW" THEN RemoveFirst(plani_new, p) ELSE plani_new
  /\ plani_ready' = IF estado[p] = "READY" THEN RemoveFirst(plani_ready, p) ELSE plani_ready
  /\ plani_block' = IF estado[p] = "BLOCK" THEN plani_block \ {p} ELSE plani_block
  /\ fallo' \in {FALSE, (plani_ready' # plani_ready) /\ AlguienRecorre}
  /\ Sigue(h, IF estado[p] = "EXEC" THEN "recibe" ELSE "termina")
  /\ UNCHANGED <<config, plani_exec, plani_exit, pcbs, sem, params, cpu, mensaje, quantum,
                 pausa, fin_por_consola, manejando_contexto, estado_aux, muertes, confundido>>

\* recibir_contexto on the socket on which the planner is waiting too.  The seven words it
\* takes, or the first of them, are missing to the planner, which waits for as many again
\* from a CPU that has nothing more to send; where the request brings arguments they may
\* instead be read as the rest of the context and the code.
ConArgumentos == {"SLEEP", "FS", "PAGE_FAULT", "CONTINUA"}

RecibeContexto(h) ==
  /\ En(h, "recibe") /\ mensaje # NULO
  /\ En("corto", "espera_cpu") \/ mensaje \in ConArgumentos
  /\ mensaje' = NULO
  /\ Sigue(h, "termina") \/ UNCHANGED hilo
  /\ manejando_contexto' \in {manejando_contexto,
                              [manejando_contexto EXCEPT ![Pcb("corto")] = TRUE]}
  /\ confundido' \in {FALSE, (mensaje \in ConArgumentos)}
  /\ UNCHANGED <<config, colas, pcbs, sem, params, cpu, interrupt_pid, quantum, pausa, fallo,
                 fin_por_consola, estado_aux, muertes>>

\* cambiar_estado_pcb(pcb, FIN).
Termina(h) ==
  /\ En(h, "termina")
  /\ estado' = [estado EXCEPT ![Pcb(h)] = "FIN"]
  /\ Sigue(h, IF estado_aux[h] = "EXEC" THEN "mira_grado" ELSE "devuelve")
  /\ UNCHANGED <<config, colas, pid_global, total_pcbs, prioridad, sem, params, maquina,
                 pausa, fallo, banderas>>

\* A process that was in EXEC when the thread started gives its place back only if that
\* leaves another one taken; mutex_multiprog is held from the look to the post.
MiraGrado(h) ==
  /\ En(h, "mira_grado")
  /\ ~ \E g \in Auxiliares : En(g, "devuelve") /\ estado_aux[g] = "EXEC"
  /\ Sigue(h, IF multiprogramacion > sem["multiprog_disponible"] + 1
              THEN "devuelve" ELSE "agrega_exit")
  /\ UNCHANGED <<config, colas, pcbs, sem, params, maquina, pausa, fallo, banderas>>

AgregaExit(h) ==
  /\ \/ En(h, "devuelve") /\ V("multiprog_disponible")
     \/ En(h, "agrega_exit") /\ UNCHANGED sem
  /\ plani_exit' = plani_exit \cup {Pcb(h)}
  /\ estado_aux' = [estado_aux EXCEPT ![h] = NULO]
  /\ Sigue(h, "libera")
  /\ UNCHANGED <<config, plani_new, plani_ready, plani_exec, plani_block, pcbs, params,
                 maquina, pausa, fallo, fin_por_consola, manejando_contexto, muertes,
                 confundido>>

HiloExit(h) ==
  \/ SaleF(h) \/ EsperaManejo(h) \/ SegunEstado(h) \/ RecibeContexto(h)
  \/ Termina(h) \/ MiraGrado(h) \/ AgregaExit(h) \/ Igual(Libera(h))

-----------------------------------------------------------------------------
\* A freed t_pcb is in a queue or in the hands of a thread that will use it.
Colgado ==
  \/ ~(ToSet(plani_new) \cup ToSet(plani_ready) \subseteq total_pcbs)
  \/ \E h \in Hilos : /\ Pcb(h) \notin total_pcbs \cup {NULO}
                      /\ hilo[h].pc \notin {"espera_ready", "espera_ejecutar", "elige"}

LargoF == Igual(Largo \/ AgregarAReady("largo"))

CortoF ==
  \/ Igual(CortoEsperaReady \/ CortoEsperaEjecutar \/ CortoElige \/ CortoAgregaExec
             \/ CortoDespacha \/ CortoRedespacha \/ CortoSacaExec)
  \/ CortoRecibeF \/ CortoAtiendeF
  \/ Igual(MiraExec("corto") \/ Compara("corto") \/ Encola("corto") \/ Marca("corto"))
  \/ ListaF("corto")

AuxiliarF(h) ==
  \/ Igual(SaleDeBlock(h) \/ LeeParams(h) \/ AgregarAReady(h))
  \/ ResuelvePfF(h) \/ HiloExit(h)

CpuF == Igual(CpuDesaloja \/ \E c \in Servicios : CpuDevuelve(c))

\* The commands that stop planning or change the degree are left to Planificador.
ConsolaF ==
  \/ \E prio \in IF algoritmo_plani = "PRIORIDADES" THEN Prioridades ELSE {-1} :
       Igual(IniciarProceso(prio))
  \/ \E p \in Procesos : FinalizarProceso(p)

Definido == ~fallo /\ ~Colgado /\ ~confundido

NextF ==
  /\ Definido
  /\ \/ LargoF \/ CortoF \/ CpuF \/ ConsolaF
     \/ \E h \in Auxiliares : AuxiliarF(h)
     \/ \E p \in Procesos : Igual(VenceQuantum(p))

\* The fairness of Planificador; the exit thread, which polls once a second, sees a flag
\* that stays down.
SpecF ==
  /\ InitF /\ [][NextF]_varsF
  /\ WF_varsF(Definido /\ LargoF) /\ WF_varsF(Definido /\ CortoF) /\ WF_varsF(Definido /\ CpuF)
  /\ \A h \in Auxiliares : WF_varsF(Definido /\ AuxiliarF(h))
  /\ \A p \in Procesos : SF_varsF(Definido /\ cpu = p /\ Igual(CpuDevuelve("EXIT")))

-----------------------------------------------------------------------------
(* Properties *)

\* Places of the exit thread of a process ended by the console.
EnSalida == {"espera_manejo", "segun_estado", "recibe", "termina", "mira_grado", "devuelve",
             "agrega_exit"}

\* The flags, the locals and the places of the threads keep their types.
TipoFinOK ==
  /\ \A h \in Hilos : hilo[h].pc \in EnEspera \cup EnMano \cup EnCola \cup EnSalida
  /\ fin_por_consola \in [Procesos -> BOOLEAN] /\ manejando_contexto \in [Procesos -> BOOLEAN]
  /\ estado_aux \in [Auxiliares -> Estados \cup {NULO}]
  /\ muertes \in 0 .. MaxMuertes /\ confundido \in BOOLEAN

Lugares(p) ==
  Cardinality({i \in DOMAIN plani_new : plani_new[i] = p})
    + Cardinality({i \in DOMAIN plani_ready : plani_ready[i] = p})
    + Cardinality({h \in Hilos : \/ Posee(h) /\ Pcb(h) = p
                                 \/ En(h, "lee_params") /\ params = p})

\* Ending a process takes the others nowhere: one the console has not ended is still in
\* exactly one place, a queue the planners read or the hands of one thread.
AjenosIntactos == \A p \in total_pcbs : ~fin_por_consola[p] => Lugares(p) = 1

Plazas == sem["multiprog_disponible"] + Cardinality(Admitidos)
            + (IF hilo["largo"].pc \in {"compuerta", "saca_new"} THEN 1 ELSE 0)

\* The places of the degree, free or taken, whatever the console ends: each command shifts
\* their number by one at most.  It gains one when the process is found in NEW, where it has
\* taken none, or when it is finishing too and both exit threads give its place back; it
\* loses one when the process was in EXEC and the only one admitted.
GradoConMuertes == /\ Plazas <= multiprogramacion + muertes
                   /\ Plazas >= multiprogramacion - muertes

PlanificadorMudo == hilo["corto"].pc \in {"espera_cpu", "atiende"} /\ cpu = NULO /\ mensaje = NULO
EnElSocket(p) == \E h \in Auxiliares : En(h, "recibe") /\ Pcb(h) = p
FlagArriba(p) == estado[p] = "FIN" /\ manejando_contexto[p]

\* A process the console ends leaves the system, unless its exit thread found it in EXEC
\* and waits on the dispatch socket, such a thread has left the planner without an answer,
\* or the flag the thread waits for was left up by a SIGNAL of an unknown resource.
MuertoSale ==
  \A p \in Procesos :
    fin_por_consola[p] ~> \/ p \notin total_pcbs \/ ~Definido
                          \/ PlanificadorMudo \/ EnElSocket(p) \/ FlagArriba(p)
=============================================================================
