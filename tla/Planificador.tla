---------------------------- MODULE Planificador ----------------------------
(***************************************************************************)
(* The kernel's process scheduler (kernel/src/scheduler.c and the console  *)
(* of kernel/src/kernel.c): the long-term planner that admits processes up *)
(* to the multiprogramming degree, the short-term planner that dispatches  *)
(* them to the only CPU under FIFO, RR or PRIORIDADES, and the helper      *)
(* threads that bring a blocked process back to READY or destroy a         *)
(* finished one.  The threads share five queues and synchronise with POSIX *)
(* semaphores; every action is what one thread does between two points at  *)
(* which another thread can see or change what it uses.                    *)
(*                                                                         *)
(* FINALIZAR_PROCESO, resources and file locks are not part of this        *)
(* module: a program's request is here only what it is to the planner.     *)
(***************************************************************************)
EXTENDS Integers, Sequences, FiniteSets, SequencesExt

CONSTANTS
  MaxProcesos,   \* bound: INICIAR_PROCESO commands the console issues
  GradoInicial,  \* GRADO_MULTIPROGRAMACION_INI of the configuration
  Grados,        \* degrees a MULTIPROGRAMACION command may ask for
  Prioridades,   \* priorities a process may be created with
  Algoritmos,    \* planning algorithms a configuration may choose
  Comandos,      \* planning commands the console issues
  Servicios,     \* requests with which a program returns to the kernel
  Auxiliares,    \* bound: slots for the detached helper threads
  MaxQuantum,    \* bound: quantum timers pending for one process
  MaxCompuerta,  \* bound: times a pause gate can be opened in excess
  NULO           \* no process

Procesos   == 0 .. MaxProcesos - 1
Hilos      == {"largo", "corto"} \cup Auxiliares
Compuertas == {"sem_detener_planificacion", "sem_detener_new_ready",
               "sem_detener_block_ready", "sem_detener_block", "sem_detener_execute"}
Semaforos  == {"multiprog_disponible", "pcbs_en_new", "pcbs_en_ready", "puede_ejecutar"}
                \cup Compuertas

\* A program returns with EXIT (or is expelled for an error), SLEEP, FS (F_READ, F_WRITE,
\* F_TRUNCATE), PAGE_FAULT, or a request that leaves it running: CONTINUA (F_SEEK, F_CLOSE,
\* granted WAIT, SIGNAL, F_OPEN).
TodosLosServicios == {"EXIT", "SLEEP", "FS", "PAGE_FAULT", "CONTINUA"}
Estados == {"NEW", "READY", "EXEC", "BLOCK", "FIN"}

ASSUME ConstantesOK ==
  /\ MaxProcesos \in Nat
  /\ GradoInicial \in Nat /\ Grados \subseteq Nat
  /\ Prioridades \subseteq Int
  /\ Algoritmos \subseteq {"FIFO", "RR", "PRIORIDADES"}
  /\ Comandos \subseteq {"DETENER_PLANIFICACION", "INICIAR_PLANIFICACION", "MULTIPROGRAMACION"}
  /\ Servicios \subseteq TodosLosServicios
  /\ Auxiliares \cap {"largo", "corto"} = {} /\ IsFiniteSet(Auxiliares)
  /\ MaxQuantum \in Nat /\ MaxCompuerta \in Nat
  /\ NULO \notin Procesos /\ NULO \notin TodosLosServicios \cup {"DESALOJO"}

VARIABLES
  algoritmo_plani, multiprogramacion,                           \* configuration in force
  plani_new, plani_ready, plani_exec, plani_block, plani_exit,  \* the queues
  pid_global, total_pcbs,   \* next pid; processes whose t_pcb is allocated
  estado, prioridad,        \* fields of the t_pcb
  sem,                      \* value of every semaphore
  hilo,                     \* what each thread is about to do, and its local pcb
  params,                   \* the stack cell handed to the page-fault threads
  cpu, mensaje,             \* process on the CPU; request waiting on the dispatch socket
  interrupt_pid, quantum,   \* the CPU's interrupt slot; pending quantum timers
  consola, pausada,         \* gates DETENER has taken; what the console last announced
  fallo                     \* the kernel has crashed

config   == <<algoritmo_plani, multiprogramacion>>
colas    == <<plani_new, plani_ready, plani_exec, plani_block, plani_exit>>
pcbs     == <<pid_global, total_pcbs, estado, prioridad>>
maquina  == <<cpu, mensaje, interrupt_pid, quantum>>
pausa    == <<consola, pausada>>
vars     == <<config, colas, pcbs, sem, hilo, params, maquina, pausa, fallo>>

Init ==
  /\ algoritmo_plani \in Algoritmos
  /\ multiprogramacion = GradoInicial
  /\ plani_new = <<>> /\ plani_ready = <<>> /\ plani_exec = <<>>
  /\ plani_block = {} /\ plani_exit = {}
  /\ pid_global = 0 /\ total_pcbs = {}
  /\ estado = [p \in Procesos |-> "NEW"]
  /\ prioridad = [p \in Procesos |-> -1]
  /\ sem = [s \in Semaforos |-> CASE s = "multiprog_disponible" -> GradoInicial
                                  [] s \in Compuertas -> 1
                                  [] OTHER -> 0]
  /\ hilo = [h \in Hilos |-> [pc  |-> CASE h = "largo" -> "espera_new"
                                        [] h = "corto" -> "espera_ready"
                                        [] OTHER -> "libre",
                              pcb |-> NULO]]
  /\ params = NULO
  /\ cpu = NULO /\ mensaje = NULO /\ interrupt_pid = NULO
  /\ quantum = [p \in Procesos |-> 0]
  /\ consola = 0 /\ pausada = FALSE
  /\ fallo = FALSE

-----------------------------------------------------------------------------
(* Semaphores and threads *)

\* Mutant of Cruza: the gate is looked at with sem_trywait, its answer ignored.
CruzaSinEsperar(s) == UNCHANGED sem

P(s) == sem[s] > 0 /\ sem' = [sem EXCEPT ![s] = @ - 1]
V(s) == sem' = [sem EXCEPT ![s] = @ + 1]

\* sem_wait followed by sem_post: the gate is crossed only while it is open.
Cruza(s) == sem[s] > 0 /\ UNCHANGED sem

En(h, l)     == hilo[h].pc = l
Pcb(h)       == hilo[h].pcb
Sigue(h, l)  == hilo' = [hilo EXCEPT ![h].pc = l]
Va(h, l, p)  == hilo' = [hilo EXCEPT ![h] = [pc |-> l, pcb |-> p]]

Libres == {a \in Auxiliares : En(a, "libre")}

\* pthread_create and pthread_detach by the short-term planner, which then plans again.
Lanza(l, p) ==
  /\ Libres # {}
  /\ LET a == CHOOSE x \in Libres : TRUE
     IN  hilo' = [hilo EXCEPT ![a] = [pc |-> l, pcb |-> p],
                              !["corto"] = [pc |-> "espera_ready", pcb |-> NULO]]

\* Using a t_pcb after free() may go unnoticed or bring the kernel down.
Toca(p) == fallo' \in {FALSE, p \notin total_pcbs}

\* Where a thread starts agregar_a_ready.
EntradaReady == IF algoritmo_plani = "PRIORIDADES" THEN "mira_exec" ELSE "encola"

-----------------------------------------------------------------------------
(* Mutants: slips of the kind this code invites, none of them in it.  Each takes the place *)
(* of the action it is named after to show that a property of this module can fail.        *)

\* agregar_a_ready without its sem_post(&puede_ejecutar).
ListaSinPost(h) ==
  /\ En(h, "lista")
  /\ Va(h, CASE h = "largo" -> "espera_new" [] h = "corto" -> "espera_ready"
             [] OTHER -> "libre", NULO)
  /\ UNCHANGED <<config, colas, pcbs, sem, params, maquina, pausa, fallo>>

\* The degree looked at (sem_getvalue, as on line 872) and not taken.
LargoEsperaMultiSinTomar ==
  /\ En("largo", "espera_multi")
  /\ sem["multiprog_disponible"] > 0
  /\ Sigue("largo", "compuerta")
  /\ UNCHANGED <<config, colas, pcbs, sem, params, maquina, pausa, fallo>>

\* NEW used as a stack.
LargoSacaUltimo ==
  /\ En("largo", "saca_new") /\ plani_new # <<>>
  /\ plani_new' = Front(plani_new)
  /\ Va("largo", EntradaReady, Last(plani_new))
  /\ UNCHANGED <<config, plani_ready, plani_exec, plani_block, plani_exit, pcbs, sem, params,
                 maquina, pausa, fallo>>

\* The leftover of plani_exec not dropped.
CortoEsperaEjecutarSinSacar ==
  /\ En("corto", "espera_ejecutar")
  /\ P("puede_ejecutar")
  /\ Sigue("corto", "elige")
  /\ UNCHANGED <<config, colas, pcbs, params, maquina, pausa, fallo>>

\* list_get where sacar_de_ready has list_remove.
CortoEligeSinSacar ==
  /\ En("corto", "elige") /\ plani_ready # <<>>
  /\ Va("corto", "agrega_exec", Head(plani_ready))
  /\ UNCHANGED <<config, colas, pcbs, sem, params, maquina, pausa, fallo>>

\* The test of DESALOJO inverted: pcb->estado == FIN.
CortoDesalojaInvertido ==
  /\ En("corto", "atiende") /\ mensaje = "DESALOJO" /\ mensaje' = NULO
  /\ Sigue("corto", IF estado[Pcb("corto")] = "FIN" THEN EntradaReady ELSE "espera_ready")
  /\ UNCHANGED <<config, colas, pcbs, sem, params, cpu, interrupt_pid, quantum, pausa, fallo>>

\* agregar_a_exit without its sem_post(&multiprog_disponible).
SaleSinDevolver(h) ==
  /\ En(h, "sale")
  /\ plani_exit' = plani_exit \cup {Pcb(h)}
  /\ Sigue(h, "libera")
  /\ UNCHANGED <<config, plani_new, plani_ready, plani_exec, plani_block, pcbs, sem, params,
                 maquina, pausa, fallo>>

\* The id taken after pid_global++.
IniciarProcesoTarde(prio) ==
  /\ consola = 0
  /\ pid_global < MaxProcesos
  /\ pid_global' = pid_global + 1
  /\ total_pcbs' = total_pcbs \cup {pid_global'}
  /\ estado' = estado
  /\ prioridad' = prioridad
  /\ plani_new' = Append(plani_new, pid_global')
  /\ V("pcbs_en_new")
  /\ UNCHANGED <<config, plani_ready, plani_exec, plani_block, plani_exit, hilo, params,
                 maquina, pausa, fallo>>

-----------------------------------------------------------------------------
(* agregar_a_ready, run by any thread *)

\* Under PRIORIDADES the size of plani_exec is read under sem_exec ...
MiraExec(h) ==
  /\ En(h, "mira_exec")
  /\ Sigue(h, IF plani_exec = <<>> THEN "encola" ELSE "compara")
  /\ UNCHANGED <<config, colas, pcbs, sem, params, maquina, pausa, fallo>>

\* ... and its first element afterwards, without the lock: it may be gone, and then the
\* NULL that list_get answers is dereferenced; or it may already have been freed.
Compara(h) ==
  /\ En(h, "compara")
  /\ Sigue(h, "encola")
  /\ IF plani_exec = <<>>
     THEN fallo' = TRUE /\ UNCHANGED interrupt_pid
     ELSE LET e == Head(plani_exec)
          IN  /\ Toca(e)
              /\ interrupt_pid' \in
                   IF e \notin total_pcbs THEN {e, interrupt_pid}
                   ELSE IF prioridad[e] > prioridad[Pcb(h)] THEN {e} ELSE {interrupt_pid}
  /\ UNCHANGED <<config, colas, pcbs, sem, params, cpu, mensaje, quantum, pausa>>

Encola(h) ==
  /\ En(h, "encola")
  /\ plani_ready' = Append(plani_ready, Pcb(h))
  /\ V("pcbs_en_ready")
  /\ Sigue(h, "marca")
  /\ UNCHANGED <<config, plani_new, plani_exec, plani_block, plani_exit, pcbs, params,
                 maquina, pausa, fallo>>

\* cambiar_estado_pcb(pcb, READY) comes after the process is visible in READY: by now it
\* may have been dispatched with another adder's puede_ejecutar, even have finished.
Marca(h) ==
  /\ En(h, "marca")
  /\ Toca(Pcb(h))
  /\ estado' = IF Pcb(h) \in total_pcbs THEN [estado EXCEPT ![Pcb(h)] = "READY"] ELSE estado
  /\ Sigue(h, "lista")
  /\ UNCHANGED <<config, colas, pid_global, total_pcbs, prioridad, sem, params, maquina, pausa>>

\* The end of mostrar_log_agregado_ready (see AlguienRecorre) and of agregar_a_ready.
Lista(h) ==
  /\ En(h, "lista")
  /\ V("puede_ejecutar")
  /\ Va(h, CASE h = "largo" -> "espera_new" [] h = "corto" -> "espera_ready"
             [] OTHER -> "libre", NULO)
  /\ UNCHANGED <<config, colas, pcbs, params, maquina, pausa, fallo>>

AgregarAReady(h) == MiraExec(h) \/ Compara(h) \/ Encola(h) \/ Marca(h) \/ Lista(h)

-----------------------------------------------------------------------------
(* inicio_plani_largo_plazo *)

LargoEsperaNew ==
  /\ En("largo", "espera_new")
  /\ P("pcbs_en_new")
  /\ Sigue("largo", "espera_multi")
  /\ UNCHANGED <<config, colas, pcbs, params, maquina, pausa, fallo>>

\* sem_wait(&multiprog_disponible), which sleeps in the kernel when no permit is left.
LargoEsperaMulti ==
  /\ \/ /\ En("largo", "espera_multi") \/ En("largo", "bloqueado")
        /\ P("multiprog_disponible")
        /\ Sigue("largo", "compuerta")
     \/ /\ En("largo", "espera_multi")
        /\ sem["multiprog_disponible"] = 0
        /\ Sigue("largo", "bloqueado")
        /\ UNCHANGED sem
  /\ UNCHANGED <<config, colas, pcbs, params, maquina, pausa, fallo>>

LargoCompuerta ==
  /\ En("largo", "compuerta")
  /\ Cruza("sem_detener_new_ready")
  /\ Sigue("largo", "saca_new")
  /\ UNCHANGED <<config, colas, pcbs, params, maquina, pausa, fallo>>

\* sacar_siguiente_de_new: list_remove of an empty list answers NULL, whose id is logged.
LargoSaca ==
  /\ En("largo", "saca_new")
  /\ IF plani_new = <<>>
     THEN fallo' = TRUE /\ UNCHANGED <<plani_new, hilo>>
     ELSE /\ plani_new' = Tail(plani_new)
          /\ Va("largo", EntradaReady, Head(plani_new))
          /\ UNCHANGED fallo
  /\ UNCHANGED <<config, plani_ready, plani_exec, plani_block, plani_exit, pcbs, sem, params,
                 maquina, pausa>>

-----------------------------------------------------------------------------
(* inicio_plani_corto_plazo *)

CortoEsperaReady ==
  /\ En("corto", "espera_ready")
  /\ P("pcbs_en_ready")
  /\ Sigue("corto", "espera_ejecutar")
  /\ UNCHANGED <<config, colas, pcbs, params, maquina, pausa, fallo>>

\* Whatever the previous round left in plani_exec is dropped.
CortoEsperaEjecutar ==
  /\ En("corto", "espera_ejecutar")
  /\ P("puede_ejecutar")
  /\ plani_exec' = IF plani_exec = <<>> THEN <<>> ELSE Tail(plani_exec)
  /\ Sigue("corto", "elige")
  /\ UNCHANGED <<config, plani_new, plani_ready, plani_block, plani_exit, pcbs, params,
                 maquina, pausa, fallo>>

\* list_get_minimum with comparar_prioridad: among equals the last one wins ...
Minimo(i) ==
  \A j \in DOMAIN plani_ready :
    \/ prioridad[plani_ready[i]] < prioridad[plani_ready[j]]
    \/ prioridad[plani_ready[i]] = prioridad[plani_ready[j]] /\ j <= i

\* ... and list_remove_element takes that process out at its first occurrence.
Elegido(i) ==
  IF algoritmo_plani # "PRIORIDADES" THEN i = 1
  ELSE /\ \E k \in DOMAIN plani_ready : Minimo(k) /\ plani_ready[k] = plani_ready[i]
       /\ \A j \in 1 .. i - 1 : plani_ready[j] # plani_ready[i]

\* mostrar_log_agregado_ready walks plani_ready without sem_ready: a removal under a walk
\* can leave it with a NULL element or a freed node.
AlguienRecorre == \E h \in Hilos : En(h, "lista")

\* sacar_de_ready.
CortoElige ==
  /\ En("corto", "elige")
  /\ IF plani_ready = <<>>
     THEN Sigue("corto", "espera_ready") /\ UNCHANGED <<plani_ready, fallo>>
     ELSE \E i \in DOMAIN plani_ready :
            /\ Elegido(i)
            /\ plani_ready' = RemoveAt(plani_ready, i)
            /\ Va("corto", "agrega_exec", plani_ready[i])
            /\ fallo' \in {FALSE, AlguienRecorre}
  /\ UNCHANGED <<config, plani_new, plani_exec, plani_block, plani_exit, pcbs, sem, params,
                 maquina, pausa>>

CortoAgregaExec ==
  /\ En("corto", "agrega_exec")
  /\ plani_exec' = Append(plani_exec, Pcb("corto"))
  /\ Sigue("corto", "despacha")
  /\ UNCHANGED <<config, plani_new, plani_ready, plani_block, plani_exit, pcbs, sem, params,
                 maquina, pausa, fallo>>

\* armar_y_enviar_contexto, and under RR one more timer, for a redispatch as well.
Envia(p) ==
  /\ cpu' = p
  /\ quantum' = IF algoritmo_plani = "RR" THEN [quantum EXCEPT ![p] = @ + 1] ELSE quantum
  /\ Va("corto", "espera_cpu", p)
  /\ UNCHANGED <<mensaje, interrupt_pid>>

CortoDespacha ==
  /\ En("corto", "despacha")
  /\ Toca(Pcb("corto"))
  /\ estado' = [estado EXCEPT ![Pcb("corto")] = "EXEC"]
  /\ Envia(Pcb("corto"))
  /\ UNCHANGED <<config, colas, pid_global, total_pcbs, prioridad, sem, params, pausa>>

\* replanificar == false: whoever heads plani_exec gets the CPU back.
CortoRedespacha ==
  /\ En("corto", "redespacha")
  /\ IF plani_exec = <<>>
     THEN fallo' = TRUE /\ UNCHANGED <<hilo, maquina>>
     ELSE Envia(Head(plani_exec)) /\ UNCHANGED fallo
  /\ UNCHANGED <<config, colas, pcbs, sem, params, pausa>>

\* The context and the code arrive; the planner handles them once the gate is open.
CortoRecibe ==
  /\ En("corto", "espera_cpu")
  /\ mensaje # NULO
  /\ Cruza("sem_detener_execute")
  /\ Sigue("corto", "atiende")
  /\ UNCHANGED <<config, colas, pcbs, params, maquina, pausa, fallo>>

Atiende(codigo) == En("corto", "atiende") /\ mensaje = codigo /\ mensaje' = NULO

\* The process stays in plani_exec until the next one is chosen.
CortoFinaliza ==
  /\ Atiende("EXIT")
  /\ estado' = [estado EXCEPT ![Pcb("corto")] = "FIN"]
  /\ Lanza("sale", Pcb("corto"))
  /\ UNCHANGED <<config, colas, pid_global, total_pcbs, prioridad, sem, params, cpu,
                 interrupt_pid, quantum, pausa, fallo>>

Bloquea(p) ==
  /\ plani_block' = plani_block \cup {p}
  /\ estado' = [estado EXCEPT ![p] = "BLOCK"]

CortoSacaExec ==
  /\ Atiende("SLEEP")
  /\ plani_exec' = Tail(plani_exec)
  /\ Va("corto", "bloquea", Head(plani_exec))
  /\ UNCHANGED <<config, plani_new, plani_ready, plani_block, plani_exit, pcbs, sem, params,
                 cpu, interrupt_pid, quantum, pausa, fallo>>

CortoDuerme ==
  /\ En("corto", "bloquea")
  /\ Bloquea(Pcb("corto"))
  /\ Lanza("espera", Pcb("corto"))
  /\ UNCHANGED <<config, plani_new, plani_ready, plani_exec, plani_exit, pid_global,
                 total_pcbs, prioridad, sem, params, maquina, pausa, fallo>>

CortoPideFS ==
  /\ Atiende("FS")
  /\ Bloquea(Pcb("corto"))
  /\ Lanza("espera", Pcb("corto"))
  /\ UNCHANGED <<config, plani_new, plani_ready, plani_exec, plani_exit, pid_global,
                 total_pcbs, prioridad, sem, params, cpu, interrupt_pid, quantum, pausa, fallo>>

\* handle_pf gets the address of an array in the planner's stack frame.
CortoPageFault ==
  /\ Atiende("PAGE_FAULT")
  /\ params' = Pcb("corto")
  /\ Bloquea(Pcb("corto"))
  /\ Lanza("lee_params", NULO)
  /\ UNCHANGED <<config, plani_new, plani_ready, plani_exec, plani_exit, pid_global,
                 total_pcbs, prioridad, sem, cpu, interrupt_pid, quantum, pausa, fallo>>

CortoContinua ==
  /\ Atiende("CONTINUA")
  /\ Sigue("corto", "redespacha")
  /\ UNCHANGED <<config, colas, pcbs, sem, params, cpu, interrupt_pid, quantum, pausa, fallo>>

CortoDesaloja ==
  /\ Atiende("DESALOJO")
  /\ Sigue("corto", IF estado[Pcb("corto")] # "FIN" THEN EntradaReady ELSE "espera_ready")
  /\ UNCHANGED <<config, colas, pcbs, sem, params, cpu, interrupt_pid, quantum, pausa, fallo>>

-----------------------------------------------------------------------------
(* Helper threads *)

\* bloquear_proceso_sleep once the time is over, esperar_fs once the file system answered:
\* sacar_de_block, behind the pause gate.
SaleDeBlock(h) ==
  /\ En(h, "espera")
  /\ Cruza("sem_detener_block")
  /\ plani_block' = plani_block \ {Pcb(h)}
  /\ Sigue(h, EntradaReady)
  /\ UNCHANGED <<config, plani_new, plani_ready, plani_exec, plani_exit, pcbs, params,
                 maquina, pausa, fallo>>

\* handle_pf: what params holds when the thread gets to run may be a later fault's pid;
\* a pid that is no longer in total_pcbs yields NULL.
LeeParams(h) ==
  /\ En(h, "lee_params")
  /\ IF params \in total_pcbs
     THEN Va(h, "pide_pagina", params) /\ UNCHANGED fallo
     ELSE fallo' = TRUE /\ UNCHANGED hilo
  /\ UNCHANGED <<config, colas, pcbs, sem, params, maquina, pausa>>

\* The page is in memory: sacar_de_block_por_id does not look at any pause gate.
ResuelvePf(h) ==
  /\ En(h, "pide_pagina")
  /\ Toca(Pcb(h))
  /\ plani_block' = plani_block \ {Pcb(h)}
  /\ Sigue(h, EntradaReady)
  /\ UNCHANGED <<config, plani_new, plani_ready, plani_exec, plani_exit, pcbs, sem, params,
                 maquina, pausa>>

\* agregar_a_exit without fin_por_consola: the degree is given back and the process enters
\* plani_exit.  The two (880 and 885) are one step: no thread of the module reads plani_exit.
SaleDelSistema(h) ==
  /\ En(h, "sale")
  /\ V("multiprog_disponible")
  /\ plani_exit' = plani_exit \cup {Pcb(h)}
  /\ Sigue(h, "libera")
  /\ UNCHANGED <<config, plani_new, plani_ready, plani_exec, plani_block, pcbs, params,
                 maquina, pausa, fallo>>

\* Once the memory module has answered, the t_pcb is freed; a second free aborts.
Libera(h) ==
  /\ En(h, "libera")
  /\ total_pcbs' = total_pcbs \ {Pcb(h)}
  /\ fallo' = (Pcb(h) \notin total_pcbs)
  /\ Va(h, "libre", NULO)
  /\ UNCHANGED <<config, colas, pid_global, estado, prioridad, sem, params, maquina, pausa>>

\* iniciar_quantum: the pid is compared with the pcb's own id, freed or not.
VenceQuantum(p) ==
  /\ quantum[p] > 0
  /\ quantum' = [quantum EXCEPT ![p] = @ - 1]
  /\ interrupt_pid' \in IF p \in total_pcbs THEN {p} ELSE {p, interrupt_pid}
  /\ UNCHANGED <<config, colas, pcbs, sem, hilo, params, cpu, mensaje, pausa, fallo>>

-----------------------------------------------------------------------------
(* The CPU, as the scheduler sees it: instruction_cycle of cpu.c *)

\* A request ends the burst.  EXIT clears the interrupt slot whoever it was for; after any
\* other request the slot is compared with the id in a context already freed.
CpuDevuelve(c) ==
  /\ cpu # NULO
  /\ quantum[cpu] < MaxQuantum \/ c = "EXIT"
  /\ mensaje' = c
  /\ cpu' = NULO
  /\ interrupt_pid' \in IF c = "EXIT" THEN {NULO}
                        ELSE IF interrupt_pid = cpu THEN {NULO, interrupt_pid}
                        ELSE {interrupt_pid}
  /\ UNCHANGED <<config, colas, pcbs, sem, hilo, params, quantum, pausa, fallo>>

CpuDesaloja ==
  /\ cpu # NULO /\ interrupt_pid = cpu
  /\ quantum[cpu] < MaxQuantum
  /\ mensaje' = "DESALOJO"
  /\ cpu' = NULO /\ interrupt_pid' = NULO
  /\ UNCHANGED <<config, colas, pcbs, sem, hilo, params, quantum, pausa, fallo>>

-----------------------------------------------------------------------------
(* The console thread *)

\* crear_proceso and agregar_a_new.
IniciarProceso(prio) ==
  /\ consola = 0
  /\ pid_global < MaxProcesos
  /\ pid_global' = pid_global + 1
  /\ total_pcbs' = total_pcbs \cup {pid_global}
  /\ estado' = [estado EXCEPT ![pid_global] = "NEW"]
  /\ prioridad' = [prioridad EXCEPT ![pid_global] = prio]
  /\ plani_new' = Append(plani_new, pid_global)
  /\ V("pcbs_en_new")
  /\ UNCHANGED <<config, plani_ready, plani_exec, plani_block, plani_exit, hilo, params,
                 maquina, pausa, fallo>>

\* detener_planificacion takes the gates one at a time and may sleep on any of them.
OrdenDetener == <<"sem_detener_planificacion", "sem_detener_new_ready",
                  "sem_detener_block_ready", "sem_detener_block", "sem_detener_execute">>

DetenerPlanificacion ==
  /\ "DETENER_PLANIFICACION" \in Comandos
  /\ sem[OrdenDetener[consola + 1]] > 0
  /\ consola' = (consola + 1) % 5
  /\ pausada' = (pausada \/ consola = 4)
  /\ sem' = [s \in Semaforos |->
               CASE s = OrdenDetener[consola + 1] -> sem[s] - 1
                 [] s = "sem_detener_planificacion" /\ consola = 4 -> sem[s] + 1
                 [] OTHER -> sem[s]]
  /\ UNCHANGED <<config, colas, pcbs, hilo, params, maquina, fallo>>

IniciarPlanificacion ==
  /\ "INICIAR_PLANIFICACION" \in Comandos
  /\ consola = 0
  /\ \A s \in Compuertas \ {"sem_detener_planificacion"} : sem[s] < MaxCompuerta
  /\ sem["sem_detener_planificacion"] > 0
  /\ sem' = [s \in Semaforos |-> IF s \in Compuertas \ {"sem_detener_planificacion"}
                                 THEN sem[s] + 1 ELSE sem[s]]
  /\ pausada' = FALSE
  /\ UNCHANGED <<config, colas, pcbs, hilo, params, maquina, consola, fallo>>

\* crear_nuevo_semaforo_multiprog.  sem_init forgets the sleeper of LargoEsperaMulti: no
\* later sem_post finds it.
CambiarMultiprogramacion(n) ==
  /\ "MULTIPROGRAMACION" \in Comandos
  /\ consola = 0
  /\ multiprogramacion' = n
  /\ sem' = [sem EXCEPT !["multiprog_disponible"] = n]
  /\ IF En("largo", "bloqueado") THEN Sigue("largo", "perdido") ELSE UNCHANGED hilo
  /\ UNCHANGED <<algoritmo_plani, colas, pcbs, params, maquina, pausa, fallo>>

-----------------------------------------------------------------------------
Largo == LargoEsperaNew \/ LargoEsperaMulti \/ LargoCompuerta \/ LargoSaca

Corto ==
  \/ CortoEsperaReady \/ CortoEsperaEjecutar \/ CortoElige \/ CortoAgregaExec
  \/ CortoDespacha \/ CortoRedespacha \/ CortoRecibe
  \/ CortoFinaliza \/ CortoSacaExec \/ CortoDuerme \/ CortoPideFS \/ CortoPageFault
  \/ CortoContinua \/ CortoDesaloja

Auxiliar(h) ==
  SaleDeBlock(h) \/ LeeParams(h) \/ ResuelvePf(h) \/ SaleDelSistema(h) \/ Libera(h)

Consola ==
  \/ \E prio \in IF algoritmo_plani = "PRIORIDADES" THEN Prioridades ELSE {-1} :
       IniciarProceso(prio)
  \/ DetenerPlanificacion \/ IniciarPlanificacion
  \/ \E n \in Grados : CambiarMultiprogramacion(n)

Next ==
  /\ ~fallo
  /\ \/ Largo \/ Corto \/ Consola \/ CpuDesaloja
     \/ \E h \in Hilos : AgregarAReady(h)
     \/ \E h \in Auxiliares : Auxiliar(h)
     \/ \E p \in Procesos : VenceQuantum(p)
     \/ \E c \in Servicios : CpuDevuelve(c)

Spec == Init /\ [][Next]_vars

\* Every thread of the kernel runs whenever it can, sleeps end, the memory and file-system
\* modules answer, the CPU module goes on and programs reach their EXIT.  The operator's
\* commands are not fair, and a quantum timer may take as long as it likes.
Equidad ==
  /\ WF_vars(~fallo /\ (Largo \/ AgregarAReady("largo")))
  /\ WF_vars(~fallo /\ (Corto \/ AgregarAReady("corto")))
  /\ \A h \in Auxiliares : WF_vars(~fallo /\ (Auxiliar(h) \/ AgregarAReady(h)))
  /\ WF_vars(~fallo /\ (CpuDesaloja \/ \E c \in Servicios : CpuDevuelve(c)))
  /\ \A p \in Procesos : SF_vars(~fallo /\ cpu = p /\ CpuDevuelve("EXIT"))

SpecJusta == Spec /\ Equidad

-----------------------------------------------------------------------------
(* Where a process is *)

EnEspera == {"libre", "espera_new", "espera_multi", "bloqueado", "perdido", "compuerta",
             "saca_new", "espera_ready", "espera_ejecutar", "elige", "lee_params"}
EnMano   == {"mira_exec", "compara", "encola", "agrega_exec", "despacha", "redespacha",
             "espera_cpu", "atiende", "bloquea", "espera", "pide_pagina", "sale", "libera"}
EnCola   == {"marca", "lista"}   \* the process is in READY, agregar_a_ready is not over

\* Thread h alone has the process, no queue the planners read holds it.
Posee(h)  == hilo[h].pc \in EnMano
Creados   == 0 .. pid_global - 1

\* Processes that hold a place of the multiprogramming degree.
Admitidos == Creados \ (ToSet(plani_new) \cup plani_exit)

TipoOK ==
  /\ algoritmo_plani \in Algoritmos /\ multiprogramacion \in Nat
  /\ plani_new \in Seq(Procesos) /\ plani_ready \in Seq(Procesos)
  /\ plani_exec \in Seq(Procesos)
  /\ plani_block \subseteq Procesos /\ plani_exit \subseteq Procesos
  /\ pid_global \in 0 .. MaxProcesos /\ total_pcbs \subseteq Creados
  /\ estado \in [Procesos -> Estados] /\ prioridad \in [Procesos -> Int]
  /\ sem \in [Semaforos -> Nat]
  /\ hilo \in [Hilos -> [pc : EnEspera \cup EnMano \cup EnCola, pcb : Procesos \cup {NULO}]]
  /\ params \in Procesos \cup {NULO}
  /\ cpu \in Procesos \cup {NULO} /\ mensaje \in Servicios \cup {"DESALOJO", NULO}
  /\ interrupt_pid \in Procesos \cup {NULO} /\ quantum \in [Procesos -> Nat]
  /\ consola \in 0 .. 4 /\ pausada \in BOOLEAN /\ fallo \in BOOLEAN

-----------------------------------------------------------------------------
(* Properties *)

\* The multiprogramming degree: never more admitted, unfinished processes than
\* multiprogramacion.  The permit a process occupies is taken by the long-term planner
\* (line 126) and given back by a thread of its own (line 880).
GradoRespetado == Cardinality(Admitidos) <= multiprogramacion

\* No process is duplicated: each is in NEW, in READY, or in the hands of one thread.
\* The queues and the pcb pointers the threads carry are never reconciled by the code.
SinDuplicados ==
  /\ IsInjective(plani_new) /\ IsInjective(plani_ready)
  /\ ToSet(plani_new) \cap ToSet(plani_ready) = {}
  /\ \A h \in Hilos : Posee(h) =>
       /\ Pcb(h) \in total_pcbs \ (ToSet(plani_new) \cup ToSet(plani_ready))
       /\ \A g \in Hilos \ {h} : Posee(g) => Pcb(g) # Pcb(h)

\* No process is lost: one that still has its t_pcb is in a queue a planner reads, or some
\* thread will hand it on.
SinPerdidos ==
  \A p \in total_pcbs :
    \/ p \in ToSet(plani_new) \cup ToSet(plani_ready)
    \/ \E h \in Hilos : Posee(h) /\ Pcb(h) = p

\* agregar_a_ready posts two semaphores at different points and the short-term planner
\* waits on both: it never sleeps beside a ready process nobody is still announcing, and
\* it never finds READY empty after passing both.
NadieVarado ==
  /\ En("corto", "espera_ready") /\ sem["pcbs_en_ready"] = 0 => plani_ready = <<>>
  /\ En("corto", "espera_ejecutar") /\ sem["puede_ejecutar"] = 0 =>
       \E h \in Hilos : hilo[h].pc \in EnCola
  /\ En("corto", "elige") => plani_ready # <<>>

\* plani_exec, which agregar_a_ready and the redispatch read as the process that has the
\* CPU, agrees with the context that was sent: one element, and the planner's own pcb.
ExecCoherente ==
  /\ Len(plani_exec) <= 1
  /\ hilo["corto"].pc \in {"despacha", "espera_cpu", "atiende", "redespacha"} =>
       plani_exec = <<Pcb("corto")>>
  /\ cpu # NULO => En("corto", "espera_cpu") /\ Pcb("corto") = cpu /\ mensaje = NULO

\* Between the end of DETENER_PLANIFICACION and the next INICIAR_PLANIFICACION no thread
\* passes a pause gate: the long-term planner admits nobody, no sleeper comes back, no
\* request of the CPU is handled.  (A thread already past its gate goes on, and page-fault
\* threads look at none.)
PausaRespetada ==
  [][pausada => /\ \A h \in Hilos : hilo[h].pc \in {"compuerta", "espera"} => hilo'[h] = hilo[h]
                /\ ~(En("corto", "espera_cpu") /\ hilo'["corto"].pc = "atiende")]_vars

\* Every process created runs to its end, whatever the planning algorithm, unless one of
\* the data races brings the kernel down.
TodosTerminan == \A p \in Procesos : p \in total_pcbs ~> (p \notin total_pcbs \/ fallo)

\* The scheduler implements the life cycle: what the queues and the threads hold is read as
\* the phase of each process, and every step of a thread is one step of it, or none.
EnEjecucion == {"agrega_exec", "despacha", "redespacha", "espera_cpu", "atiende", "bloquea"}

Fase == [p \in Procesos |->
  CASE p >= pid_global -> "SIN_CREAR"
    [] p \in ToSet(plani_new) -> "NEW"
    [] hilo["corto"].pc \in EnEjecucion /\ Pcb("corto") = p -> "EXEC"
    [] \E h \in Hilos : hilo[h].pc \in {"espera", "pide_pagina"} /\ Pcb(h) = p -> "BLOCK"
    [] \/ p \in Creados \ total_pcbs
       \/ \E h \in Hilos : hilo[h].pc \in {"sale", "libera"} /\ Pcb(h) = p -> "EXIT"
    [] OTHER -> "READY"]

Ciclo == INSTANCE CicloDeVida WITH fase <- Fase, Grado <- GradoInicial

CumpleCiclo == Ciclo!Spec
=============================================================================
