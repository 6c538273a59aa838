# Formal models of tp-2023-2c-Fulanitos

The repository simulates an operating system with four programs that talk over TCP:
**kernel** (scheduler and console), **cpu** (one instruction at a time), **memoria** (page
tables, frames, instructions) and **fileSystem** (FCBs, FAT, blocks, swap). This directory
holds TLA+ models of it, the TLC configurations that check them and proofs checked by TLAPS.
Identifiers keep the names of the C code.

Status: the scheduler, the resources, the open files, the end of a process by the console, the
CPU and its conversation with the planner, the memory and the file system (A to F of the plan
below) are modelled, checked and proved about.
What is left out is in section 11.

## 1. Inventory

`scheduler.c` stands for `src/kernel/src/scheduler.c`, and so on for the other files.

### Kernel: planners

| | |
|---|---|
| State | five lists `plani_new`, `plani_ready`, `plani_exec`, `plani_block`, `plani_exit`, each with a mutex; `total_pcbs`; the fields `estado` and `prioridad` of a `t_pcb`; semaphores `multiprog_disponible`, `pcbs_en_new`, `pcbs_en_ready`, `puede_ejecutar` and the five pause gates `sem_detener_*` |
| Threads | long-term planner (120-134), short-term planner (136-616), console (`kernel.c` 5-95), one detached thread per quantum (1570), sleep (821), file-system wait, page fault (1061) and exit (840) |
| Operations | create, admit, choose (FIFO, RR, PRIORIDADES), dispatch, redispatch, preempt, block, unblock, finish; pause, resume, change the degree |
| Interaction | dispatch socket (context out, context and code back), interrupt socket (a pid), memory and file-system sockets |
| Hard | `agregar_a_ready` is run by four kinds of thread and posts two semaphores at different points; `plani_exec` is read without its lock; the pcb is marked READY after it can be seen; timers are never cancelled and read a pcb that may be freed; `plani_exec` keeps the process that left until the next is chosen; `sem_init` on a semaphore in use |
| Correct when | a process is in one place only and in some place always; the degree is respected; a ready process is never left without a planner awake for it; `plani_exec` is what the CPU runs; a pause pauses; every process terminates |

### Kernel: FINALIZAR_PROCESO

State: `fin_por_consola`, `manejando_contexto`, the killed process wherever it is. The exit
thread polls flags, interrupts the CPU and reads the dispatch socket that the short-term
planner reads too (847-865); the degree is given back by a formula (868-882). Correct when a
killed process leaves from any queue exactly once, its permit comes back exactly once, and no
other thread uses its pcb afterwards.

### Kernel: resources and deadlock detection

State: a counting semaphore and a list of blocked processes per resource, `recursos_asignados`,
`recursos_pedidos` and `recurso_requerido` per pcb, `deadlock`. Operations: WAIT (216-268),
SIGNAL (269-317), release at exit (938-1033), detection (1412-1556). Hard: the value of a
semaphore is read, the mutex released and the semaphore waited for; a thread sleeps on a
resource with two mutexes held; the threads that hand over the resources of a finished process
wait for a post that only a kill makes; requests are never cleared after being granted. Correct
when instances are conserved, a waiter is woken when an instance is free, and the detector
reports exactly the cycles there are.

### Kernel: file table and file locks

State: `tabla_archivos_global`, the table of each pcb, a lock per file with readers, writers and
a queue. Operations: OPEN (318-408), CLOSE (532-562), locks (1174-1286). Hard: an OPEN that
blocks returns with a lock held; a waiting writer counts itself as a writer; a closed entry is
freed and stays in the table; a process that exits without closing keeps its locks. Correct
when a writer excludes everybody, waiters eventually enter, and an entry lives as long as
somebody has the file open.

### CPU

State: registers, the context, one slot `interrupt_pid` filled by the interrupt thread (55-93)
and read by the instruction cycle (95-141). Hard: the slot holds one pid and is cleared by EXIT
whoever it was for; the context is freed and then compared; an address is translated by one
message and accessed by another (251-301). Correct when an interruption stops the process it
names, the conversation with the planner never loses its place, and an access reaches the page
it was translated for.

### Memoria

State: processes with their page tables, `marcos_libres`, `proximas_victimas`, one connection
per client with its thread. Operations: process creation and end, instruction fetch,
translation, read, write, page load with replacement FIFO or LRU. Hard: lock order and double
posts, a victim chosen from the wrong end, candidates of a finished process that stay in the
list, eviction between translation and access. Correct when a frame belongs to one page, a page
read back is what was written, FIFO and LRU choose the victim of their definition, and frames
and swap blocks are conserved.

### FileSystem

State: FCBs, FAT, block bitmaps, block file; one thread per connection. Operations: open,
create, truncate, read, write, swap reservation, swap read and write. Hard: off-by-one on the
last block, block translation that differs between operations, swap and FAT in one region, two
requests at once, bitmaps that are never written back. Correct when chains are chains, FCBs
agree with the bitmap, a swap block has one owner, and a page comes back as it was sent.

### Shared

`serialization.c` (formats), `socket.c` and `setup.c` (connection, configuration),
`custom_logs.c`. No state of their own. Conversions with consequences are in the hazards.

The complete list of components is `components` in `PROJECT.json`; what is hard to test in each,
with its line, is `hazards` there.

## 2. Plan

| | Module | Content | Composition |
|---|---|---|---|
| A | `Planificador`, `CicloDeVida` | planners, helper threads, console, CPU as seen by the kernel | implements `CicloDeVida` |
| B | `Recursos` | WAIT, SIGNAL, release at exit, the threads that wait for `aguardar_deadlock`, detector, the kill that solves a deadlock | detector checked against a reference definition of deadlock; shares the vocabulary of A |
| C | `TablaArchivos` | global table, reader/writer locks | the lock of each entry against mutual exclusion of readers and writers |
| C' | `Finalizacion` | FINALIZAR_PROCESO anywhere, the kill path of `agregar_a_exit` with the short-term planner on the dispatch socket | extends A and takes its steps |
| D | `Cpu`, `Turno` | instruction cycle, interrupts, contexts and requests word by word | implements `Turno`, what A takes for granted of the CPU |
| E | `Memoria` | frames, page tables, replacement, the two threads and their semaphores | the swap messages are module F |
| F | `SistemaArchivos` | FCBs, FAT, bitmaps, swap, one thread per request over one file | clients are the kernel (A) and the memory (E) |
| G | `CanalMemoria` (not written) | answers on the memory socket the kernel's threads share | with A and E |

Each run asks one question of a module; bounds, fairness and result are in the section of the
module. Proofs (section 10): `PlanificadorPruebas`, `RecursosPruebas`, `ArchivosPruebas`,
`CpuPruebas`, `MemoriaPruebas`, `SistemaArchivosPruebas`, `FinalizacionPruebas` (which builds on
the lemmas of `PlanificadorPruebas`), and `Lemas` for what they share.

## 3. Module A: Planificador

### State and code

| Model | Code |
|---|---|
| `plani_new`, `plani_ready`, `plani_exec` | the lists, as sequences of pids |
| `plani_block`, `plani_exit` | as sets: the order of these lists decides nothing here |
| `total_pcbs` | the pcbs allocated; a pid outside it has been freed |
| `estado`, `prioridad` | fields of the pcb; they survive it, as freed memory may |
| `sem` | value of each semaphore, the five gates included |
| `hilo[h].pc`, `hilo[h].pcb` | where thread `h` is and the `t_pcb*` it carries |
| `params` | the array in the planner's frame whose address goes to `handle_pf` |
| `cpu`, `mensaje` | the context is at the CPU; the answer waits on the dispatch socket |
| `interrupt_pid` | the global of that name in `cpu.c` |
| `quantum[p]` | `iniciar_quantum` threads asleep for `p` |
| `consola` | gates an unfinished DETENER_PLANIFICACION has taken |
| `pausada` | a history variable: DETENER has returned and no INICIAR since |
| `fallo` | the kernel crashed: a NULL dereference, a use of freed memory noticed, a double free |

An action is what a thread does between two points at which another thread can interfere: a
`sem_wait`, a critical section, an access to shared data outside one. The body of a critical
section is one step. `agregar_a_ready` is five actions because its five pieces are separately
visible:

| Action | `agregar_a_ready`, 689-711 |
|---|---|
| `MiraExec` | PRIORIDADES only: is `plani_exec` empty, under `sem_exec` |
| `Compara` | its first element, after the lock; maybe an interruption |
| `Encola` | the list, and `pcbs_en_ready` |
| `Marca` | `cambiar_estado_pcb(pcb, READY)` |
| `Lista` | end of the log walk over the list without its lock, and `puede_ejecutar` |

`Largo` is `inicio_plani_largo_plazo`, `Corto` the loop of `inicio_plani_corto_plazo` with one
action per request, `Auxiliar` the detached threads, `Consola` the commands, `CpuDevuelve` and
`CpuDesaloja` the CPU's side of the dispatch socket. `map` in `PROJECT.json` gives the lines.

### Choices

- A program is the set of requests it may return with. `FS` stands for READ, WRITE and
  TRUNCATE, which the planner treats alike; `CONTINUA` for requests after which the process goes
  on (SEEK, CLOSE, and WAIT, SIGNAL and OPEN when granted). A WAIT or OPEN that blocks belongs
  to modules B and C.
- Freed memory is used in several places. `Toca` lets it pass unnoticed or crash. That the
  allocator hands the same block to a new pcb is not modelled.
- `sem_destroy` and `sem_init` on a semaphore with a sleeper: the sleeper is lost, which is what
  glibc's implementation does (`LargoEsperaMulti`, `CambiarMultiprogramacion`, pc `perdido`).
- The answers of memory and file system are steps that may happen at any time. Which thread
  reads which answer on the shared socket is module G.
- Log lines are left out, except `mostrar_log_agregado_ready`, whose unlocked walk can crash:
  `CortoElige` during such a walk (`AlguienRecorre`) may set `fallo`.
- After `fallo` nothing moves.
- A process that ends gives its permit back (880) and enters `plani_exit` (885) in one step,
  `SaleDelSistema`: no thread of the module reads `plani_exit`.

### Bounds

`MaxProcesos` ends the INICIAR_PROCESO commands. `Auxiliares` are slots for detached threads; a
planner that finds none waits, which the code never does, so three slots are given where three
processes may need them at once, and the proofs cover every number. `MaxQuantum` limits the
timers pending for one process: with 1, a process does not leave the CPU while its timer is at
the limit, except by EXIT, so a timer is pending across a burst but two for one pid are not.
`MaxCompuerta` limits how often a gate may be opened in excess: 1 is a
scheduler in which INICIAR_PLANIFICACION only follows a pause, 2 lets it come first. Three
processes with degree 2 give a process in NEW that must wait, one in READY and one on the CPU,
a preempted process meeting an admitted one, and equal and different priorities; two planners,
three helper threads and the timers then interleave freely.

`CHECK_DEADLOCK FALSE`: the system stops when all the programs have finished and the operator
types no more, after a crash, and when a second DETENER_PLANIFICACION blocks the console.

### Runs

| Run | Question | Result |
|---|---|---|
| `plani_nucleo` | three algorithms, no console commands, no page faults: is every process in one place and in some place, the degree kept, READY attended, `plani_exec` true? | holds, 1.2 million states |
| `plani_consola` | page faults and every planning command: does a pause pause? | holds, when INICIAR_PLANIFICACION follows a pause; 1.3 million states, PRIORIDADES (the algorithm in which `agregar_a_ready` does most) |
| `plani_vivacidad` | does every process terminate under fairness, and does the scheduler implement `CicloDeVida`? | holds for EXIT, SLEEP and requests that go on, under the three algorithms and up to the crashes the races allow; 97 thousand states |
| `plani_pausa` | INICIAR_PLANIFICACION first, then DETENER_PLANIFICACION | the pause does not pause: gates at 2 |
| `plani_grado` | MULTIPROGRAMACION raised while a process is admitted | three admitted with degree 2 |

What each property says:

- `GradoRespetado`: admitted and unfinished processes never exceed `multiprogramacion`.
- `SinDuplicados`: no process is in two of NEW, READY and the hands of a thread, nor in the
  hands of two.
- `SinPerdidos`: a process with a pcb is in NEW, in READY, or in the hands of a thread.
- `NadieVarado`: the two semaphores of READY never leave the short-term planner asleep beside a
  ready process nobody is still announcing, and it never chooses from an empty list.
- `ExecCoherente`: `plani_exec` has at most one element, it is the planner's own pcb, and that
  is the process at the CPU.
- `PausaRespetada`: between the end of DETENER and the next INICIAR no thread passes a gate.
- `TodosTerminan`: every process created is destroyed, or the kernel has crashed.
- `CumpleCiclo`: the phase of each process, read off queues and threads (`Fase`), moves as
  `CicloDeVida` allows: no phase skipped, one process in EXEC, admission in order and within the
  degree.

`SinDuplicados`, `SinPerdidos`, `GradoRespetado` and `CumpleCiclo` are not claimed with page
faults: `handle_pf` receives the address of an array in the planner's stack frame (205-215), so
a second fault before the thread reads it makes two threads serve one process and none the
other. `plani_consola` contains that behaviour; `TipoOK`, `ExecCoherente` and `NadieVarado` hold in
spite of it, which is proved for every value of the constants (section 10).
`GradoRespetado` is not claimed with MULTIPROGRAMACION (`plani_grado`).

Each property of a passing run has a mutant, a slip of the kind this code invites (an element
read instead of removed, a post forgotten, a test inverted), in the section "Mutants" of the
module. With the mutant in the place of the action TLC finds the property violated.

### Fairness

`Equidad` has one weak fairness condition per thread: the scheduler of the host runs every
thread that can run, the memory and file-system modules answer, sleeps end. The CPU module goes
on (weak fairness), and a program given the CPU again and again reaches its EXIT (strong
fairness per process): each burst executes at least one instruction (`instruction_cycle` looks
at the interruption after executing), so a program whose JNZ loops end gets to its EXIT in
finitely many bursts. A program that loops for ever is not
covered. A timer has no fairness (nothing bounds when it fires) and neither has the operator.
`plani_vivacidad` uses programs that EXIT, sleep, go on or are preempted.

## 4. Module B: Recursos

### State and code

| Model | Code |
|---|---|
| `listos` | READY as a set: `Planificador` says how it is served |
| `vector_recursos`, `colas_recursos` | the semaphore and the list of blocked pcbs of each resource |
| `asignados`, `pedidos`, `requerido`, `block_recurso` | `recursos_asignados`, `recursos_pedidos`, `recurso_requerido` and the flag `bloqueado_por_recurso` of each pcb |
| `total_pcbs` | the pcbs allocated, in the order in which the detector walks them |
| `recursos_disponibles`, `deadlock` | the work vector the detector's callers share; the flag, as the set of processes of the last report |
| `aguardar_deadlock`, `esperando` | the semaphore, and the threads asleep on it by the resource each is to hand over |
| `hilo["corto"]`, `hilo["reparto"]` | the short-term planner; a thread of `aguardar_solucion_deadlock` past its `sem_wait` |
| `fin[p]` | the `agregar_a_exit` thread of `p`, with the loop indices `i`, `j` of `liberar_recursos_asignados` |
| `fin_por_consola` | the processes the operator has killed |

WAIT is `CortoWait` (look at the value under `sem_inst_recursos`), then `CortoToma` or
`CortoEncola` and `CortoMarca`: the mutex is let go in between, and the queue and the fields of
the pcb are written at different points. SIGNAL is `CortoSignal` and, when the queue it reads
without a lock is not empty, `sacar_de_block_recurso`: `Saca` (from the list, under
`sem_block_recursos`), `TomaInstancia` (`sem_wait` on the resource with both mutexes held) and
`Entrega`. The same three actions are the end of the hand-over thread. The exit thread is
`FinMata`, `FinQuita`, `FinDevuelve` (one step per post and thread created), `FinBorra`, and for a
killed process `FinLee`, `FinEvalua`, `FinAvisa`: the detector again, and one post of
`aguardar_deadlock`. The mutexes are not variables: `InstLibre`, `ColasLibres` and
`DeteccionLibre` read them off the places of the threads.

### Choices

- `Resto`, what the detector is left with, is a declarative definition (the largest part of the
  list in which nobody can finish): the code's loop reaches it whatever order `list_find` takes,
  because the work vector only grows. `Filtrados` keeps the flaw of the loop that filters the
  list: the index advances after a removal.
- A kill (`Finalizar`) is of a process the detector reported, while the planner waits for the
  deadlock to be solved, and one at a time: the use the detector is made for. The kill of any
  process at any moment is module C'.
- One hand-over thread at a time is followed past its `sem_wait`; others would wait for
  `sem_block_recursos`.
- The fields of a freed pcb are reset and any later use of the pcb sets `fallo`, after which
  nothing moves. The one read of `fin_por_consola` just after `free` is taken to give what it
  gave before.
- A thread asleep on a resource (`duerme`, `duerme_wait`) has no action: every post to a resource
  takes `sem_inst_recursos`, which it holds.
- EXIT, WAIT on a resource that does not exist and SIGNAL of one that is not held end the
  process in the same way: `CortoFinaliza`. Requests that take a process through BLOCK and back
  are `CortoDesaloja`.

### Bounds

Three processes and two resources of one instance: two processes can deadlock while a third
waits behind them, and two can wait for one resource, which is where the order of the queue
and the filter of the detector matter. `MaxWaits = 5`: two each for the processes of a deadlock,
and one more to queue behind them or to come back after a kill. `MaxMuertes = 2`: the second
kill meets the threads and the `aguardar_deadlock` post the first one left.
`CHECK_DEADLOCK FALSE`: the model stops when all the processes have finished, when nobody is
ready and the rest is blocked for good, when a real deadlock has used up the kills, when a
thread sleeps with the mutexes held, and after `fallo`.

### Runs

| Run | Question | Result |
|---|---|---|
| `recursos` | WAIT, SIGNAL, exit, hand-over, detection and kills together: are instances conserved, queues coherent, deadlocks reported, and nobody left asleep? | holds, 1.06 million states |
| `recursos_informe` | does every process reported as deadlocked hold a resource, as `filtrar_sin_recursos` is there to ensure? | no: of two neighbours without resources the filter removes one |

What each property says:

- `InstanciasConservadas`: what is free, what the processes hold and what is on its way to a
  waiter add up to the configured number, at every step of every loop, with kills.
- `ColaCoherente`: a queued process is in one queue, once, the one its `recurso_requerido` names;
  it is not ready and its pcb is allocated.
- `DeadlockReportado`: while the planner plans, no real deadlock is unreported: every process
  that holds something and waits in a set of processes that hold all the others wait for is in
  the last report. `Interbloqueados` is that definition of deadlock and owes nothing to the
  detector's algorithm. The converse is not claimed: the detector does not count what ready and
  running processes hold, so it reports processes that would go on.
- `NadieDuerme`, `EntregaPendiente`: as long as nobody has been killed no thread sleeps with the
  mutexes of the resources held, and a waiter beside a free instance has a thread that is to
  hand it over.

The last two need `fin_por_consola = {}`. After a kill a hand-over thread and a SIGNAL or WAIT of
the planner may go for one instance: the one that comes second sleeps holding
`sem_inst_recursos`, which every post to a resource needs, so nobody can wake it. And a
hand-over thread that finds the queue empty when the planner has decided to queue a process,
and has not yet done so, leaves that process beside a free instance. Also after a normal
exit nobody hands over anything until a kill posts `aguardar_deadlock`: `EntregaPendiente` asks
for the thread, not for the wake-up, because the wake-up does not come. These are hazards in
`PROJECT.json`.

## 5. Module C: TablaArchivos

### State and code

| Model | Code |
|---|---|
| `tabla_archivos_global` | the list of that name: the file, `lectores`, `escritores` and the mutex of its lock; entries are never removed, so a pointer is a place in it |
| `liberadas` | the entries that have been freed and are still in the list |
| `abiertos[p]` | `tabla_archivos_abiertos` of the pcb; `modo = "G"` is a global entry put there by `encolar_lock_*`, `libre` one that was freed and stays |
| `espera[p]` | the thread of `encolar_lock_lectura` or `encolar_lock_escritura` that waits for `p`, if any |
| `corto` | the planner: the process it has, the entry it is opening or closing |
| `bloqueados`, `listos`, `saliendo` | where the process is, as far as files go |

F_OPEN is `CortoAbre` (both tables), `CortoCreaLock` (`crear_lock_*`, a wait for the mutex of the
entry) and, when the lock is taken, `CortoBloquea`. The mutex stays locked after
`crear_lock_*` in that case: `pthread_cond_wait` in the new thread releases it, though that
thread never locked it (`EncolarLock`). F_CLOSE is `CortoCierra` and `CortoEliminaLock`, which
signals one sleeper of a queue (`AvisosAlSoltar`). `BorrarTabla` is the end of the process.

### Choices

- A search over a table that has freed entries compares freed names: `Usa` lets it pass
  unnoticed, and then the entry does not match, or sets `fallo`. After `fallo` nothing moves.
- A program opens files it does not have open and closes files it has. A mode that is neither R
  nor W ends the kernel and is not modelled. READ, WRITE, TRUNCATE and SEEK look an entry up and
  change nothing here: they are `CortoDesaloja` (through BLOCK and back), or `CortoFinaliza` for
  a WRITE on a file open for reading.
- Creation of the file at the file system is done by the planner before the entries and has no
  state here.

### Bounds

Three processes: one inside, one waiting, and one that comes later, or a reader and a writer
waiting together. `MaxAperturas = 3` lets one of them open the file again, or an entry be freed
and a second one of that name be made. One file suffices, since files share nothing but the
tables, and a planner that hangs on one of them serves no other.
`CHECK_DEADLOCK FALSE`: the model stops when all have finished, when the
planner waits for ever for a mutex, when all the processes wait, and after `fallo`.

### Runs

| Run | Question | Result |
|---|---|---|
| `archivos` | one file, opened, closed, waited for and left open at exit, with spurious wake-ups: who is inside, what is freed, who is woken, and does the planner get the mutex it waits for? | holds, the last until a waiter is let in; 96 thousand states |

- `EscrituraExclusiva`: a process that has a file open for writing has it alone, counting the
  entries of that name there may be.
- `EntradaViva`: no entry is freed while a process has it open or waits for it.
- `LectorDespierto`: when no writer is counted, a waiting reader is awake, or has not slept yet.
- `PlanificadorSigue`: the planner does not wait for ever for the mutex of a lock.

All four are stated until the lock of the entry is handed to a waiter (`Entregado`). What happens
then is in the model and is why: the thread that was let in ends with the mutex locked (1229-1246,
1248-1264), so the next F_OPEN or F_CLOSE of that file hangs the planner; the global entry it put in
the table of the process is freed when that process ends, with others inside or not, and a later
F_OPEN makes a second entry with a lock of its own. `EscrituraExclusiva` still holds then among
those inside one entry. Other limits of the
code that the model contains: a writer that waits counts itself in `escritores`, which is
what it waits for, so it never enters; one reader is signalled of however many wait; an exit
without F_CLOSE gives no lock back; an entry closed by F_CLOSE is freed again at exit. They are
hazards in `PROJECT.json`.

### Fairness

`Equidad`: weak fairness for the planner and for each waiting thread, which run whenever they
can. Spurious wake-ups may happen and need not.

## 6. Module E: Memoria

### State and code

| Model | Code |
|---|---|
| `procesos`, `tp`, `id` | the list of processes, `tp` of each with the fields of `t_entrada_tp`, the next id |
| `marcos_libres` | the bits that are set: as in the code, the frames in use |
| `proximas_victimas` | the FIFO candidates, as pages; those of a finished process may stay |
| `mutex_procesos`, `mutex_memoria` | values of the semaphores; the first is not a mutex: see below |
| `pid_comparador` | the global `buscar_proceso_por_pid` leaves the pid in for `igual_pid` |
| `nucleo`, `cpu` | the two threads of `atender_cliente`: place, request, the process asked for (`p`) and the one found (`q`) |
| `creados`, `estado`, `pagina_pf` | the kernel's side: CREAR_PROCESO sent, and whether a process runs, waits for a page or has ended |
| `copia[g]` | where the last contents of page `g` are: its frame, its swap block |
| `cruzadas`, `confundido` | history: pages an access or a load mixed up with another's, and whether a search that decides on frames found another process |

A search is two steps, `Busca` (the semaphore and `pid_comparador`) and `CpuEncuentra`,
`CpuMarca` or `NucleoHalla`, which take whatever `Hallados` allows. The CPU's translation
(`CpuPide`, `CpuEncuentra`, `CpuResponde`) and access (`CpuAccede`, `CpuMarca`, `CpuCopia`) are
two requests. `traer_pagina_a_memoria` is `TraerToma` (first semaphore), `TraerLibre` or
`TraerReemplaza`, and `TraerEscribe`; the end of a process is `NucleoBusca`, `NucleoHalla`,
`LiberarTabla`, `FinQuita`.

### Choices

- A page is one value. WRITE copies a whole page from a buffer with four bytes of contents, so it
  damages what is beside the word, and the start of the next frame when the address is not the
  start of a page (hazard, line 122): programs here use the first word of their pages.
- A swap block is written and read when the message is sent. What the file system makes of the
  messages is module F.
- A process accesses pages it has. `size / tam_paginas` rounds down: a program that uses the
  bytes of a last partial page dereferences NULL.
- The kernel asks for a page once per fault and ends a process that is not at the CPU and has no
  fault pending. Module A shows that a page fault may be served twice; what the memory would do
  then is not modelled.
- NULL dereferences, freed memory and an address outside the frames are one outcome, `fallo`,
  after which nothing moves.

### Bounds

A process of one page and one of two, two frames: each frame can change owner, one process
can end and leave its candidates behind while the other fills the frames, and the third page
loaded replaces. Four translations are three page faults and an access, or four faults.
`MaxReloj = 0`: all accesses fall in one second, which leaves LRU the choice among all the
pages; with one page and three, and a clock of two seconds, the safety properties hold too (1.3
million states), and they are proved for every instance.
TLC was used to see that the interesting states are there: a
search that finds the wrong process, a write into a frame that changed owner, dangling candidates
with all the frames in use, the LRU crash, a modified page that comes back from swap.
`CHECK_DEADLOCK FALSE`: the model stops when all have ended, after the last translation, and
after `fallo`.

### Runs

| Run | Question | Result |
|---|---|---|
| `memoria` | do frames, candidates and contents stay coherent under both algorithms, and is every page fault answered? | holds, 187 thousand states |

- `MarcosCoherentes`: the frames in use are those of the pages in memory of live processes, each
  of one page, at every step of a load; until a search has found the wrong process.
- `VictimaViva`: when FIFO has to replace there is a last candidate and it is a page in memory of
  a live process. The argument is not local: a process that ends removes candidates that
  are not its own, but then it has freed a frame, and the load that takes it adds a new last
  candidate.
- `NadaSePierde`: the last contents of a page are in its frame, or in swap while it is out,
  except for pages in `cruzadas`.
- `FaltaAtendida`: a page fault is answered, or the module has crashed.

What the model contains that is not a property: FIFO takes the newest page, not the oldest;
LRU crashes when the first process of the list has no page in memory (320-327);
`mutex_procesos` is posted twice when a frame was free (280, 295), so it counts the loads and from
the first one on both threads may be inside; an access may hit a frame that has changed owner.

### Fairness

`Equidad`: the CPU's thread runs (weak fairness of its steps inside a request; that another
request comes is not assumed), and the kernel's thread is not passed over for ever at a semaphore
(strong fairness), since the other one sleeps after each request with the semaphores free
(`retardo_en_ms`, `tiempo_espera_ms`).

## 7. Module C': Finalizacion

### State and code

It extends `Planificador`, whose actions it takes as they are (`Igual`), but for those that touch
the two flags of the pcb, and adds

| Model | Code |
|---|---|
| `fin_por_consola[p]` | that field; set by the console, read by `agregar_a_exit` and `handle_pf` |
| `manejando_contexto[p]` | that field: up from `recibir_contexto_y_actualizar_pcb` (1565) to the case of the request, which forgets it for a granted OPEN and for SIGNAL of an unknown resource; `crear_proceso` does not initialise it, so `InitF` takes both values |
| `estado_aux[h]` | the local of each exit thread |
| `muertes`, `confundido` | commands issued; the planner has taken a word of the socket for another |

`FinalizarProceso` is the command. The exit thread of a killed process is `SaleF` (keep the
state), `EsperaManejo` (poll the flag), `SegunEstado` (the switch: out of the queue of the state
the pcb says, which may be behind or ahead of the queues), `RecibeContexto` (EXEC: interrupt,
then read the dispatch socket beside the planner), `Termina`, `MiraGrado` (the formula of 873),
`AgregaExit` and `Libera`. Resources and open files of the process are modules B and C, as is the
detection at the end; the commands that pause or change the degree are module A.

### Choices

- Two readers of one stream: the exit thread's seven words are missing to the planner. Either the
  planner then waits for words that never come, or, when the request brings arguments, it may
  take these for the rest of the context (`confundido`).
- The model stops at the first step after which a queue or a thread holds a freed pcb
  (`Colgado`), at `confundido` and at `fallo`: from there the program is undefined.
- A page fault waits until the previous one's thread has read `params` (`PfSinLeer`): their
  overwriting is module A's.

### Bounds

Two processes, degree 1: one runs or sleeps and the other is in NEW or READY. `MaxMuertes = 1` and two
helper threads: a kill of each process at each point, also of one that is finishing (two exit
threads for one pcb), has left, or has just been created. The invariants were also run with
two kills (1.5 million states), three processes and degree 2. FIFO: the choice of the next
process plays no part. `CHECK_DEADLOCK FALSE`: the model stops with the program's definition, when
the planner waits for the words it lost, and when all have finished.

### Run

`finalizacion`: 118 thousand states; all hold.

- `AjenosIntactos`: a process the console has not ended is in exactly one place: queue or hands.
- `GradoConMuertes`: free places, taken ones and the one the planner holds differ from the degree
  by at most one per kill. They do differ: a kill in NEW posts a permit never taken (and leaves
  `pcbs_en_new` too high, so that the long-term planner takes from an empty list, the TODO of
  `kernel.c:71`); a kill of a finishing process makes two threads post; a kill in EXEC with nobody
  else admitted loses the permit.
- `MuertoSale`: a killed process leaves, or one of the outcomes the code does have: its thread or
  the planner waits on the dispatch socket for words the other took, or its flag was left up by a
  SIGNAL of an unknown resource. A process whose flag `crear_proceso` left up and which is
  killed before it runs waits until its first request has been handled; if it is granted an
  OPEN, until the next one.

Fairness is that of A, with the exit thread among the helper threads: its loop sleeps a second and
looks again, and nobody raises the flag of a process that has no context coming.

## 8. Module D: Cpu

### State and code

| Model | Code |
|---|---|
| `program_counter`, `estado`, `manejando_contexto` | fields of the pcbs |
| `plani` | the short-term planner: its place, pcb, the words of the context it has read, the request |
| `al_cpu`, `al_kernel` | the dispatch socket in both directions, as four-byte words |
| `al_cpu_int`, `interrupt_pid` | the interrupt socket and the slot |
| `cpu` | `instruction_cycle`: place, context (`id`, `contador`, `vivo` until it is freed) and the flags `esperando`, `devuelto`, `termina` |
| `siguiente` | a history variable: the instruction each program is to run next |
| `caido` | the CPU has freed a context twice |

The planner sends a context (`Despachar`, `Redespachar`), reads it word by word (`LeerCodigo`,
`LeerCampo`), the request (`LeerPedido`), and answers (`Atender`, with all the answers of the
switch). The CPU takes a context at the top (`Recibir`) or in the middle of the cycle
(`Reasignar`), executes (`Operar`, `Pedir`, `FaltarPagina`, `Salir`), reads answers and compares
(`Mirar`) with the slot, which another thread fills.

### Choices

- A program is a sequence of instructions, of which a jump may skip some; the last is EXIT. The
  values of the registers are left out. Backward jumps are not taken, so that programs end.
- What a freed context holds is arbitrary: `Coincide` lets the comparison of line 118 succeed or
  fail by chance when the request has freed it. After EXIT a match sends the words of a context once
  more and frees it again (`Interrumpir`): `caido`, where the module stops. What follows is the end of the
  CPU, whose closed socket the planner reads as a code it does not know, or, if the allocator notices
  nothing, DESALOJO sent from a heap that is no longer one.
- The parameters of a request are part of its word; `contexto->interrupcion` is always 0.
- A process in BLOCK comes back at any time; who is dispatched next is any ready process.

### Bounds

Two programs of three instructions: two requests, or an operation and a request, before
EXIT, for both, so that a burst of one meets the remains of the other. Two interruptions, at any
time, for any pid: one can overwrite the other, arrive after its burst, or hit the next one.
`CHECK_DEADLOCK FALSE`: all have finished, or all are in BLOCK for good.

### Run

`cpu`: 358 thousand states; all hold.

- `EnOrden`: the instruction executed is the next one of the program, each once and again only
  after a fault; a process that is not in EXEC has the right pc in its pcb.
- `ComunicacionOK`: no code is unexpected, as long as the CPU has not freed a context twice. EXIT sends the bytes of the buffer's descriptor
  instead of a context, and this is why their number matters.
- `Vuelve`: every context sent comes back with a request, or the CPU has crashed.
- `CumpleTurno`: the refinement of `Turno` (one context out, one request of the same process
  back), which is how modules A, B and C see the CPU (`cpu` and `mensaje` in `Planificador`).

Fairness: the CPU's main thread and the planner run whenever they can, and the memory answers.

## 9. Module F: SistemaArchivos

### State and code

| Model | Code |
|---|---|
| `fcb` | the FCB of each file: whether it exists, has its name, size and initial block; `Falta` is a key that is not there |
| `fat` | `fat_file`; the entry `Fin` stands for what a seek to UINT32_MAX reads |
| `bloques_libres_fat`, `bloques_libres_swap` | the bits that are set, which are blocks in use; both are tested one bit too far, and that bit is arbitrary (`Sobras`) |
| `posicion_fat`, `posicion` | the positions of `fat_file` and `bloques_file`, shared by all the threads |
| `socket_cliente` | the variable of the accept loop whose address every thread gets |
| `entrada` | descriptor 0, which `socket_memoria`, never connected, names (`fileSystem.h:68`): the standard input, closed, or a client accepted since |
| `hilo[h]` | the thread of each request in course, with its locals: of the kernel (`Nucleos`), of the memory, and of each page sent without waiting (`Escritores`) |
| `vivos`, `bloques_de` | the memory's side: processes with swap and their blocks |
| `cupo` | what each kind of client may still ask for, and how many requests of the kernel may be in course together |
| `intactos`, `mal_leida`, `aislados`, `solos` | history: blocks that hold the page last sent; whether a read gave something else; whether all requests have been the memory's and one by one; whether no CREATE or TRUNCATE has had another request of the kernel beside it |
| `caido` | the process has ended |

The planner waits for the answers to OPEN and CREATE, so that no other request of the kernel comes
meanwhile; a READ, WRITE or TRUNCATE it sends on a connection of its own, leaves to a thread
`esperar_fs` and replans (`scheduler.c` 433-444, 476-487, 516-528), so that the requests of several
processes, on one file too, are in course at once (`Pide`). `fileSystem.c` has one thread for each and
no lock.

Every call that reads or changes something the threads share is a step: a `fseek` (`Fseek`, `Situar`,
`UbicarPagina`, `Rebobinar`) and the `fread` (`Recorrer`, `Buscar`, `Liberar`) or `fwrite` (`Enlazar`,
`Cerrar`, `Cortar`, `Borrar`) after it are two, and so are the test of a bit (`Asignar`) and its change
(`Marcar`), and the reading of an FCB (`Truncar`, `Releer`, `Localizar`) and its saving
(`GrabarInicial`, `GrabarTamanio`). TRUNCATE grows a file with `Recorrer`, `Asignar`, `Marcar`,
`Enganchar`, `Enlazar`, `Cerrar`, and shrinks it with `Buscar`, `Cortar`, `Liberar`, `Borrar`; READ and
WRITE are `LeerOEscribir`, `Localizar`, `Buscar`, `Situar`, `Acceder`, with `Hablar` for what they say to
the memory; the swap is `Reservar`, `LiberarSwap`, `EmpezarPagina`, `UbicarPagina`, `Acceder`.

### What the code does and the model keeps

- Two TRUNCATEs, or one and a READ, meet: both test a bit before either sets it (409, 411) and one
  block goes to two files; `fseek` and `fwrite` of `fat_file` cross (303, 304, 422, 426), so that a link
  is read or written in another entry and chains may go back; each saves the FCB it has read, over what
  the other saved, or reads it while it is being saved and finds it empty (`Vacio`), which ends the
  process in OPEN, TRUNCATE and READ. Two changes of bits at once may lose one (`MarcarJuntos`).
- The walk to the last block leaves -1 behind: the first link of a growing file is written one
  entry past the last one read, and the new chain is not attached.
- Shrinking to nothing looks for block -1, which wraps to a walk of 2^32 - 2 entries (`Saltos`).
  It frees starting from the entry it has just overwritten, so the bits of the blocks stay
  set and the bit UINT32_MAX may be cleared, outside the bitmap (`Cae`, or nothing noticed). It
  may zero entry 0, after which a later growth walks round for ever.
- A TRUNCATE to the size a file has cuts its chain.
- READ sends its block to descriptor 0 and waits there for a code; nothing comes, and
  `recibir_codigo_operacion` closes the descriptor (`serialization.c:27`). The next accept may return
  it: from then on READ and WRITE talk to a client of the file system (`HablarConCliente`), and wait
  until it closes or sends something, or take the code its own thread is to read.
- `contar_bloques` answers two (`Liberados`): a process of three pages loses its third block, one of a
  single page gives back what follows in the heap. Processes here have two and three pages; with
  one, `SwapDisjunta` is false.
- The swap and the files use the same blocks of the file; READ and WRITE move no data, because the
  memory is not there; ESCRIBIR_SWAP falls through into LEER_SWAP and is not waited for, so a read may
  overtake it.
- A thread reads the socket its pointer names when it starts: if another client came first, the
  module ends (`SocketPisado`).

Abstractions: the walk of 2^32 - 2 entries is one of more than `Vuelta` steps that may be left anywhere
once it has gone round; what lies past the table is any entry when read and nothing when written; what a
client on descriptor 0 is told is not followed beyond its effect on this process (`Cae` stands for
whatever comes of a client or a memory that takes those words for its own). A file (an FCB, the
bitmap) that `fopen` puts on descriptor 0 after it was closed is not modelled; nor is a bitmap byte that
three threads change at once.

### Bounds

Two files, a FAT of four blocks, sizes up to 3: files that share the region, grow twice, and run
out of blocks. Two processes, five swap blocks: exactly what they need. `Cupos` lists mixes of
requests, with the sizes or block numbers they may name: five of the kernel, one after another (two
growths, which damage a chain, walked by a third request, and a READ); two TRUNCATEs together, of the two
files or of one; a TRUNCATE with a READ or a WRITE; two READs or WRITEs, the second of which may meet a
client on descriptor 0; the kernel with the memory; four of the memory (the ends of processes are not
counted). `CHECK_DEADLOCK FALSE`: the requests run out, or the
module ends.

### Run

`sistema_archivos`: 560 thousand states; all hold.

- `SwapDisjunta`: no swap block has two owners and none in use is marked free.
- `CadenasAvanzan`: whatever is overwritten, FAT chains go forward, so that walks end, as long as each
  CREATE and TRUNCATE is alone among the requests of the kernel (`solos`). Without this it is false: the
  links of two TRUNCATEs that cross go back.
- `FcbCoherente`, with the same condition: an FCB has an initial block if and only if it is not empty,
  marked in the bitmap and nobody else's. Without it two files get one initial block.
- `PaginaFiel`: a page comes back as sent, while requests come one by one and are the memory's
  only. Otherwise it is false: threads share the position, and files write on swap blocks.
- `PedidoAtendido`: every request of the kernel is answered, unless the module ends. The exceptions,
  which the run reaches but for the last: a TRUNCATE once entry 0 has been overwritten or once `solos`
  is false, because its walk may go round for ever; with a client on descriptor 0, READs and WRITEs, and
  requests not yet read, whose code a READ may take. A READ or WRITE beside a TRUNCATE is answered.
  Fairness: the threads of the kernel's requests run; nothing is asked of the others, nor of a client on
  descriptor 0.

## 10. Proofs

The theorems of modules A to F and C', with what is assumed. `ConstantesOK` (`ArchivosOK`, `MemoriaOK`,
`SistemaOK` in C, E and F) says that the constants have their types and nothing else. D
assumes the same of its constants and `PedidosOK`: the value `NULO`, which stands for no
request, is not a request.

### Planificador

`ConstantesOK` is the only assumption of the first three theorems: any number of processes and
helper threads, any degree, priorities, algorithm, request and command, page faults included.
The others state in their hypotheses what they exclude: `SinFaltas` (no PAGE_FAULT),
`SinCambio` (no MULTIPROGRAMACION), `UnaPausa` (`MaxCompuerta = 1`).

| Theorem | Property | Inductive invariant |
|---|---|---|
| `TipoTeorema` | `TipoOK` | `TipoInv`: types, a thread in `EnMano` or `EnCola` carries a pid, the structure of `plani_exec` |
| `ExecTeorema` | `ExecCoherente` | the same: `Tail(plani_exec)` has a type only because the list is not empty, and that is coherence, so both are one induction |
| `VaradoTeorema` | `NadieVarado` | `Fichas`: `pcbs_en_ready` plus the one the planner holds is `Len(plani_ready)`, and `puede_ejecutar` plus the threads between `Encola` and `Lista` plus the one held is the same length |
| `DuplicadosTeorema` | `SinDuplicados` | `Unicos`: queues without repetition, hands without repetition, disjoint from each other, and everybody held has a pcb |
| `PerdidosTeorema` | `SinPerdidos` | `Presentes`: an allocated pcb is queued or held, and `estado = "FIN"` only for one an exit thread holds; the second part makes the test of DESALOJO safe |
| `GradoTeorema` | `GradoRespetado` | `Permisos`: free permits, the planner's permit and `Cardinality(Admitidos)` add up to the degree |
| `PausaTeorema` | `PausaRespetada` | `PuertasOK`: a gate is open once at most, and shut while the console has taken it, in this command or in one that ended |
| `CicloTeorema` | `CumpleCiclo` | `CicloInv`: `Unicos`, `Presentes` and `Permisos` (with both hypotheses), and `Ordenados`: NEW holds increasing pids. The cases of `Fase` then exclude each other (`FaseLugar`), so that the place of a process says its phase; a step moves one process between two places, which is a transition of `CicloDeVida`, or leaves every phase (`FaseCallada`) |

A step is proved through one lemma per
group of actions (`AgregarAReady`, `Largo`, `Corto`, `Auxiliar`, `Consola`), with framing lemmas
for the actions that leave what the invariant talks about alone. Facts about sequences, sets
and sums that several modules need are in `Lemas`.

Only model-checked: `TodosTerminan` (liveness is out of the prover's reach).

### Recursos

Any number of processes, resources, instances, WAITs and kills; `ConstantesOK` only.

| Theorem | Property | Inductive invariant |
|---|---|---|
| `TipoTeorema` | `TipoOK` | `TipoInv`: types, and at which points a thread has a process or a resource in its hands |
| `DuermeTeorema`, `EntregaTeorema` | `NadieDuerme`, `EntregaPendiente` | `SinMuertes`: until somebody is killed no hand-over thread is awake, so only the planner takes instances and finds the one it looked at (`Quietos`, `Despierto`); and an instance free beside a waiter, or beside one about to queue, is the one the planner's SIGNAL is handing over or has a thread asleep that was created for it (`Anunciadas`) |
| `ColaTeorema` | `ColaCoherente` | `Orden`: where each process is (a queue, READY, the planner, on its way, its exit thread), what its exit thread has done, and what the last report says of it. It holds until `fallo`, after which nothing moves, so the invariant is `Ordenado`: the property, and `Orden` unless `fallo` |
| `ConservaTeorema` | `InstanciasConservadas` | `TipoInv` and `Ordenado`: two exit threads never work for one pcb and `asignados` is not written while the loops run |
| `DeadlockTeorema` | `DeadlockReportado`, until somebody is killed | `Detectado`, with all of the above (see below) |

`ConservaTeorema` is about a sum over the processes. `SumaCambia` (in `Lemas`) says that changing
one term of a sum changes the sum by the same amount; it and the
induction it needs (`InduccionFinita`) are proved by a minimal counterexample (`MinimoNat`), since
the induction rules of the library take an operator. An action then has to be shown to keep the account of
one process with the semaphore and the two threads (`Conserva`).

`DeadlockTeorema` says `fin_por_consola = {} => DeadlockReportado`. Its invariant is `Detectado`:
who is in a queue is marked as blocked and its request is among its `pedidos`, unless the planner
is between the queue and the fields (`Marcados`); who is marked is in nobody's hands and is not
ending (`Bloqueados`); what the detector read is still true of every closed set when it judges
(`Vacios`); and past the verdict every member of a closed set that holds something is in the
report (`Nombrados`). A closed set (`Cerrado`) is a deadlock in the sense of `Interbloqueados`:
only the planner can make a set closed, by queueing, and it goes to the detector next. At the verdict,
`InstanciasConservadas` leaves no instance of what a closed set waits for outside it
(`CerradoTiene`, by `SumaParte` of `Lemas`), so nobody in it can finish with what the others
return (`Veredicto`), and `filtrar_sin_recursos` has not dropped it (`FiltradosTiene`; that the
recursive function in `Filtrados` exists is `SacadoExiste`, by a minimal counterexample).

Once somebody has been killed `Bloqueados` fails: a hand-over thread can take a process out of its
queue and put it into READY between the queue and the fields of `agregar_a_block_recurso` (966-971),
and the planner then marks a READY process as blocked. TLC finds that state with three
processes. `DeadlockReportado` still holds in run `recursos`, with two kills among three processes; for
larger systems with kills nothing is claimed.

### TablaArchivos

Any number of processes, files and F_OPEN instructions, with spurious wake-ups (`ArchivosPruebas`).
One inductive invariant, `Inv`, for the four theorems: `Firme` and `Orden`.

| Theorem | Property | What the induction needs |
|---|---|---|
| `TipoTeorema` | `TipoOK` | `Firme`: types, what the planner has in its hands at each point (`Manos`), and that a process that waits is neither ready nor ending (`Esperando`) |
| `ExclusivaTeorema` | `EscrituraExclusiva` | `Excluye` at one entry; `UnaEnUso`: a file has one entry in use, without which two locks of one name would be two ways in |
| `EntradaTeorema` | `EntradaViva` | `Cuentan`: the counters of an entry are at least the number of those who are in or wait, `EsperaAbierta`; so an entry whose counters are 0 has nobody |
| `LectorTeorema` | `LectorDespierto` | itself, and `EsperaAbierta` |

`Cuentan` is an inequality and not an equation because an exit without F_CLOSE leaves its count.
The parts of `Orden` are each stated until an entry is handed to a waiter where they need it. Only
model-checked: `PlanificadorSigue` (liveness).

### Finalizacion

Any number of processes, threads and commands, any algorithm and request, page faults included
(`FinalizacionPruebas`); `ConstantesOK` and `MuertesOK` only.

| Theorem | Property | Inductive invariant |
|---|---|---|
| `TipoFinTeorema` | `TipoFinOK` | `TipoFin`: `Formas`, which is the part of `TipoInv` that an exit thread does not break, with a process in the hands of each thread in `EnSalida`; and the types of the flags |
| `AjenosTeorema` | `AjenosIntactos` | `Sitios`, below |
| `GradoFinTeorema` | `GradoConMuertes` | `Cuentas`, with `Sitios` |

`Unicos` and `Presentes` of module A are false here: the console starts an exit thread for a
process that is also in a queue or in a planner's hands, and `handle_pf` leaves an ended one in
nobody's. `Sitios` says what remains. What a thread carries through the planners (`Lleva`) is in no
queue and in no other thread's hands, ended or not (`Llevados`); the exit threads (`Acaba`,
`Suelta`) come on top, but only of a process marked by the console can there be anything else
(`Solos`). Nobody is lost before `plani_exit` (`Presencia`), and a process somebody may drop,
because it is in FIN or marked, has an exit thread or is in `plani_exit` (`Despedidos`). Since an
exit thread takes out of the queue the state names, it must be shown that the state of those in
NEW is NEW (`NuevosNew`): otherwise a process could reach `plani_exit` and be admitted afterwards
(`TrasNew`). In a page fault the process is in `params` until the new thread reads it (`Cosa`), which
`PfSinLeer` keeps to one thread.

`GradoConMuertes` is not inductive: a step may free a place whether or not one was taken.
`Cuentas` bounds from above by what can give places back: free ones, processes in READY and threads
with a process in hand are together at most the degree plus the commands (`Arriba`), as a
command adds one thread. From below, a place is lost only with a marked process that
goes to `plani_exit`, and each command marks one process at most (`Abajo`). An admitted process is in READY
or in some thread's hands (`Presencia`), so the bounds on the places follow (`AdmitidosCuenta`).

### Memoria

Any number of processes, pages, frames and requests, FIFO and LRU (`MemoriaPruebas`). The
inductive invariant is `Firme`, which holds whatever the searches find, and `Orden`, which holds
until one that decides on frames has found the wrong process: `Inv == Firme /\ (~confundido => Orden)`.

| Theorem | Property | What the induction needs |
|---|---|---|
| `TipoTeorema` | `TipoOK` | `Firme`: types; the table and the frame the kernel's thread has in its hands (`EnNucleo`); that the CPU's thread serves a process the other one does not (`CpuAparte`) |
| `MarcosTeorema` | `MarcosCoherentes` | `Usados`, `UnoCada`, `Cargadas`: frames in use, the one being loaded included, are those of the pages that have one, each of one page |
| `VictimaTeorema` | `VictimaViva` | `UltimaViva`: when all the frames are taken, or one is about to be, the last candidate has a frame. A process that ends leaves dangling candidates but also frees a frame, and the load that takes it appends itself |
| `PierdeTeorema` | `NadaSePierde` | `Contenido`: a page out, or not modified, is in swap; `Marcada`: a write has set the bit before it writes |

Only model-checked: `FaltaAtendida` (liveness).

### Cpu

Any number of programs, instructions and interruptions (`CpuPruebas`). One inductive invariant,
`Siempre`, for the four theorems: `Inv` until the CPU frees a context twice, and what is left of it
afterwards (`TrasDosLiberaciones`), when the planner may still read words that were on their way and
those of the context `Interrumpir` sends.

| Theorem | Property | What the induction needs |
|---|---|---|
| `TipoTeorema` | `TipoOK` | `Tipos` |
| `ComunicacionTeorema` | `ComunicacionOK` | `Conversacion`: the two sockets, the words the planner has read and the CPU's context are in one of five situations (nothing sent, in the socket, at the CPU, on its way back, read). In each the number of words of both sockets is fixed, so that a word is always read as what it was sent for |
| `OrdenTeorema` | `EnOrden` | `Conversacion` again, which says where the pc of the process in EXEC is (its word in a socket, the CPU's context, the pcb); `Banderas`: what the flags of the cycle say of the context the CPU may have freed; `EnSuLugar`: whose pcb has the right pc |
| `TurnoTeorema` | `CumpleTurno` | the five situations are the values of `Turno`'s variables (`EnFases`); a step of the module is a step of `Turno` or leaves them |

The comparison with the interruption after the context was freed is in the proof as it is in the
model: `Coincide` may be true or false. Only model-checked: `Vuelve` (liveness).

### SistemaArchivos

Any number of files, processes, blocks, requests and threads, those of the kernel in course together
included (`SistemaArchivosPruebas`). Four invariants, each resting on the ones before it.

| Theorem | Property | Inductive invariant |
|---|---|---|
| `TipoTeorema` | `TipoOK` | `TipoInv`: types, and for each kind of thread at which points of which request it can be (`PuntoNucleo`, `PuntoMemoria`, `PuntoEscritor`) |
| `CadenasTeorema`, `FcbTeorema` | `CadenasAvanzan`, `FcbCoherente` | `ArchivosInv`: while `solos`, no CREATE or TRUNCATE has another request beside it (`Exclusivos`), and `FatInv` holds of the one in course. `Marcados`: no bit below one in use is clear, because no bit but that of block 0 is ever cleared, so a new block comes after all those linked or initial; `Adelante`: links go forward but for that of the block being added; `Situada`: between `fseek` and `fread` or `fwrite` the position is where it was put; `Siguiente`: the entry where the next link goes (`Ancla`) is not after the new block, although its number is one more than that of the last read; `Iniciales`, `Truncando`: the size and the initial block of the file in course, at each point of TRUNCATE; `Cola`: the loop that frees never gets further than an entry |
| `SwapTeorema` | `SwapDisjunta` | `SwapInv`: the blocks taken so far by a reservation in course are marked and of nobody (`Reservando`, with their number), and those a process gives back are its own (`Devolviendo`) |
| `PaginaTeorema` | `PaginaFiel` | `FielInv`, while requests come one by one: one thread at a time (`DeUnoEnUno`), a block of a live process holds its page or the page is being written (`Guardadas`), and the position is that of the block each thread is about to use (`Situados`) |

The condition `solos` is needed: without it the same run refutes both, with two TRUNCATEs that get one
initial block and two that leave a link that goes back. What the
theorems allow beside a TRUNCATE is every request of the memory, and READs, WRITEs and OPENs together
when none of them meets a CREATE or a TRUNCATE.

`SwapTeorema` and `PaginaTeorema` have the hypothesis `DosPaginas`: every process has two pages at
least. Without it both are false: `contar_bloques` answers two, and a process of one page also
gives back what follows its array in the heap, which may be a block of another process. With it
`SwapInv` needs that the two blocks given back are of the process, for which a live process
must have two (`Repartidos`). Only model-checked: `PedidoAtendido` (liveness).

### Not proved

Liveness (`TodosTerminan`, `PlanificadorSigue`, `FaltaAtendida`, `MuertoSale`, `Vuelve`,
`PedidoAtendido`) is out of the prover's reach. `DeadlockReportado` with kills is model-checked only:
the invariant of its proof is false then.

## 11. Not modelled

- Which thread of the kernel reads which answer on the memory socket (1058; module G): console,
  exit threads and page-fault threads share it without a lock. Here every request to the memory
  is answered to whoever asked.
- Words inside a page (`memoria.c:122`): WRITE copies a page from a four-byte buffer. A page is one
  value in module E.
- What happens after a freed pcb is used: `Toca` in module A lets a use pass or crash, module
  C' stops. That the allocator gives the block to a new pcb is not modelled.
- A restart of the file system: the bitmaps are only written by a function no path reaches, and
  the file of a bitmap is opened without looking whether it is there (653).
- The values of registers and the arithmetic of addresses in the CPU, and the parsing of
  pseudocode: sequential text and number handling without shared state.
- Start-up, handshakes, configuration, PROCESO_ESTADO and logs: input and output. Spurious failures
  of `sem_wait` (signals) and of `malloc` are not handled by the code.
