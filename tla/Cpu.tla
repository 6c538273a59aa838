--------------------------------- MODULE Cpu ---------------------------------
(***************************************************************************)
(* The CPU (cpu/src/cpu.c) and its conversation with the short-term        *)
(* planner (kernel/src/scheduler.c, 171-616): contexts, requests and       *)
(* answers over the dispatch socket, interruptions over another one, with  *)
(* a thread for each socket and a slot that both threads use.              *)
(*                                                                         *)
(* The sockets are streams of four-byte words, which is what every recv of *)
(* the planner takes.  The parameters of a request follow its code and are *)
(* read with it.  Registers, memory accesses and the choice of the next    *)
(* process are left out: a program is which instructions it runs in which  *)
(* order.                                                                  *)
(***************************************************************************)
EXTENDS Integers, Sequences

CONSTANTS
  Procesos,
  Largo,               \* bound: instructions of a program, of which the last is EXIT
  MaxInterrupciones,   \* bound: interruptions the kernel sends
  NULO                 \* -1: no interruption

ASSUME CpuOK ==
  /\ Largo \in Nat \ {0} /\ MaxInterrupciones \in Nat
  /\ NULO \notin Procesos

VARIABLES
  program_counter, estado,   \* fields of the t_pcb
  manejando_contexto,        \* processes with that field set
  plani,                     \* the short-term planner
  al_cpu, al_kernel,         \* the dispatch socket, words not read yet
  al_cpu_int,                \* the interrupt socket
  interrupt_pid,
  cpu,                       \* instruction_cycle: where it is, its context and its flags
  siguiente,                 \* the instruction each program is to run next
  interrupciones,            \* how many have been sent
  inesperado,                \* a code has been read that is none of those expected
  caido                      \* the CPU has freed a context twice

pcbs    == <<program_counter, estado, manejando_contexto>>
nucleo  == <<pcbs, plani>>
enchufe == <<al_cpu, al_kernel>>
slot    == <<al_cpu_int, interrupt_pid, interrupciones>>
vars    == <<nucleo, enchufe, slot, cpu, siguiente, inesperado, caido>>

Codigo(c) == <<"codigo", c>>

\* The words of a context: id, pc, four registers and the interruption.
Cuerpo == 7
Campos(id, pc) == <<<<"id", id>>, <<"pc", pc>>>> \o [i \in 1 .. Cuerpo - 2 |-> <<"dato", 0>>]
Contexto(id, pc) == <<Codigo("CONTEXTO")>> \o Campos(id, pc)

Init ==
  /\ program_counter = [p \in Procesos |-> 0] /\ siguiente = [p \in Procesos |-> 0]
  /\ estado = [p \in Procesos |-> "READY"] /\ manejando_contexto = {}
  /\ plani = [pc |-> "elige", pcb |-> NULO, leidas |-> <<>>, pedido |-> "NADA"]
  /\ al_cpu = <<>> /\ al_kernel = <<>> /\ al_cpu_int = <<>>
  /\ interrupt_pid = NULO /\ interrupciones = 0
  /\ cpu = [pc |-> "escucha", id |-> NULO, contador |-> 0, vivo |-> FALSE,
            esperando |-> FALSE, devuelto |-> FALSE, termina |-> FALSE]
  /\ inesperado = FALSE /\ caido = FALSE

-----------------------------------------------------------------------------
(* The short-term planner *)

\* Every request, with what the planner may answer ("NADA": it sends nothing) and the state
\* the process is in afterwards.  One that stays in EXEC is sent back.
Resultados(pedido) ==
  CASE pedido = "SOLICITAR_WAIT" ->
         {<<"OK", "EXEC">>, <<"BLOQUEADO", "BLOCK">>, <<"FIN_PROCESO", "FIN">>}
    [] pedido = "SOLICITAR_SIGNAL" -> {<<"OK", "EXEC">>, <<"FIN_PROCESO", "FIN">>}
    [] pedido = "OPEN"  -> {<<"OK", "EXEC">>, <<"BLOQUEADO", "BLOCK">>}
    [] pedido = "WRITE" -> {<<"OK", "BLOCK">>, <<"FIN_PROCESO", "FIN">>}
    [] pedido \in {"CLOSE", "SEEK"} -> {<<"NADA", "EXEC">>}
    [] pedido \in {"READ", "TRUNCATE", "SLEEP_BLOQUEANTE", "PAGE_FAULT"} -> {<<"NADA", "BLOCK">>}
    [] pedido = "DESALOJO" -> {<<"NADA", "READY">>}
    [] pedido = "PROCESS_FINISHED" -> {<<"NADA", "FIN">>}

ConRespuesta == {"SOLICITAR_WAIT", "SOLICITAR_SIGNAL", "OPEN", "WRITE"}
SinRespuesta == {"CLOSE", "SEEK", "READ", "TRUNCATE"}
Pedidos == ConRespuesta \cup SinRespuesta
             \cup {"SLEEP_BLOQUEANTE", "PAGE_FAULT", "DESALOJO", "PROCESS_FINISHED"}

\* NULO also stands for no request at all.
ASSUME PedidosOK == NULO \notin [de : Procesos, que : Pedidos]

\* armar_y_enviar_contexto
Enviar(p) ==
  /\ al_cpu' = al_cpu \o Contexto(p, program_counter[p])
  /\ plani' = [pc |-> "codigo_contexto", pcb |-> p, leidas |-> <<>>, pedido |-> "NADA"]
  /\ UNCHANGED <<program_counter, manejando_contexto, al_kernel, slot, cpu, siguiente,
                 inesperado, caido>>

Despachar(p) ==
  /\ plani.pc = "elige" /\ estado[p] = "READY"
  /\ estado' = [estado EXCEPT ![p] = "EXEC"]
  /\ Enviar(p)

\* replanificar == false
Redespachar == plani.pc = "redespacha" /\ estado' = estado /\ Enviar(plani.pcb)

LeePalabra == al_kernel # <<>> /\ al_kernel' = Tail(al_kernel)

EnPlani == UNCHANGED <<estado, slot, cpu, siguiente, caido>>

\* validar_codigo_recibido logs a code that is not CONTEXTO, and the planner goes on.
LeerCodigo ==
  /\ plani.pc = "codigo_contexto" /\ LeePalabra
  /\ inesperado' = (inesperado \/ Head(al_kernel) # Codigo("CONTEXTO"))
  /\ manejando_contexto' = manejando_contexto \cup {plani.pcb}
  /\ plani' = [plani EXCEPT !.pc = "contexto"]
  /\ UNCHANGED <<program_counter, al_cpu>> /\ EnPlani

\* recibir_contexto, one recv per step; actualizar_pcb after the last.  It keeps the pc
\* whatever the id says.
LeerCampo ==
  /\ plani.pc = "contexto" /\ LeePalabra
  /\ LET leidas == Append(plani.leidas, Head(al_kernel))
         ultimo == Len(leidas) = Cuerpo
     IN  /\ plani' = [plani EXCEPT !.pc = IF ultimo THEN "codigo" ELSE @, !.leidas = leidas]
         /\ program_counter' = IF ultimo THEN [program_counter EXCEPT ![plani.pcb] = leidas[2][2]]
                                         ELSE program_counter
  /\ UNCHANGED <<manejando_contexto, al_cpu, inesperado>> /\ EnPlani

\* A code that is not a request ends the kernel ("Hubo un error en la comunicacion con el CPU").
LeerPedido ==
  /\ plani.pc = "codigo" /\ LeePalabra
  /\ LET esperado == \E q \in Pedidos : Head(al_kernel) = Codigo(q)
     IN  /\ inesperado' = (inesperado \/ ~esperado)
         /\ plani' = [plani EXCEPT !.pc = IF esperado THEN "atiende" ELSE "termina",
                                   !.pedido = Head(al_kernel)[2]]
  /\ UNCHANGED <<program_counter, manejando_contexto, al_cpu>> /\ EnPlani

\* A granted OPEN does not clear the flag, nor does the SIGNAL of a resource there is not.
Suelta(pedido, respuesta) ==
  CASE pedido = "OPEN" /\ respuesta = "OK" -> {manejando_contexto}
    [] pedido = "SOLICITAR_SIGNAL" /\ respuesta = "FIN_PROCESO" ->
         {manejando_contexto, manejando_contexto \ {plani.pcb}}
    [] OTHER -> {manejando_contexto \ {plani.pcb}}

\* Mutant of Contesta: a process that is blocked gets no answer.
ContestaSinBloqueado(r) ==
  IF r \in {"NADA", "BLOQUEADO"} THEN al_cpu ELSE Append(al_cpu, Codigo(r))

Contesta(r) == IF r = "NADA" THEN al_cpu ELSE Append(al_cpu, Codigo(r))

\* The switch.  A process already in FIN is not returned to READY.
Atender ==
  /\ plani.pc = "atiende"
  /\ \E r \in Resultados(plani.pedido) :
       /\ al_cpu' = Contesta(r[1])
       /\ estado' = IF r[2] = "READY" /\ estado[plani.pcb] = "FIN" THEN estado
                    ELSE [estado EXCEPT ![plani.pcb] = r[2]]
       /\ manejando_contexto' \in Suelta(plani.pedido, r[1])
       /\ plani' = [plani EXCEPT !.pc = IF r[2] = "EXEC" THEN "redespacha" ELSE "elige"]
  /\ UNCHANGED <<program_counter, al_kernel, slot, cpu, siguiente, inesperado, caido>>

\* Whatever the process was waiting for is over: agregar_a_ready.
Desbloquear(p) ==
  /\ estado[p] = "BLOCK"
  /\ estado' = [estado EXCEPT ![p] = "READY"]
  /\ UNCHANGED <<program_counter, manejando_contexto, plani, enchufe, slot, cpu, siguiente,
                 inesperado, caido>>

\* enviar_interrupcion, from a quantum timer or from agregar_a_ready: neither is cancelled when
\* the burst it was meant for ends.
EnviarInterrupcion(p) ==
  /\ interrupciones < MaxInterrupciones
  /\ interrupciones' = interrupciones + 1
  /\ al_cpu_int' = Append(al_cpu_int, p)
  /\ UNCHANGED <<nucleo, enchufe, interrupt_pid, cpu, siguiente, inesperado, caido>>

-----------------------------------------------------------------------------
(* The interrupt thread of the CPU *)

\* listen_kernel, INTERRUPCION: one slot, whatever was in it.
RecibirInterrupcion ==
  /\ al_cpu_int # <<>>
  /\ interrupt_pid' = Head(al_cpu_int) /\ al_cpu_int' = Tail(al_cpu_int)
  /\ UNCHANGED <<nucleo, enchufe, interrupciones, cpu, siguiente, inesperado, caido>>

-----------------------------------------------------------------------------
(* instruction_cycle *)

EnCpu == UNCHANGED <<nucleo, al_cpu_int, interrupciones, inesperado>>

\* A context that has arrived whole: it was sent with one send.
Toma(c) ==
  /\ Len(al_cpu) > Cuerpo
  /\ cpu' = [c EXCEPT !.pc = "ejecuta", !.id = al_cpu[2][2], !.contador = al_cpu[3][2],
                      !.vivo = TRUE, !.esperando = FALSE]
  /\ al_cpu' = SubSeq(al_cpu, Cuerpo + 2, Len(al_cpu))

\* listen_kernel, CONTEXTO, and the beginning of the cycle.
Recibir ==
  /\ cpu.pc = "escucha"
  /\ Toma([cpu EXCEPT !.devuelto = FALSE, !.termina = FALSE])
  /\ UNCHANGED <<al_kernel, interrupt_pid, siguiente, caido>> /\ EnCpu

\* reasignar_contexto: the cycle goes on with the next context, of this process or of another.
Reasignar ==
  /\ cpu.pc = "reasigna" /\ Toma(cpu)
  /\ UNCHANGED <<al_kernel, interrupt_pid, siguiente, caido>> /\ EnCpu

\* EXIT is the last instruction and only the last.
Ejecuta == cpu.pc = "ejecuta" /\ cpu.contador < Largo - 1
Hecha(n) == siguiente' = [siguiente EXCEPT ![cpu.id] = n]

\* SET, SUM, SUB, JNZ, and MOV_IN and MOV_OUT of a page in memory.  Jumps go forward.
Operar(n) ==
  /\ Ejecuta /\ n \in cpu.contador + 1 .. Largo - 1
  /\ cpu' = [cpu EXCEPT !.pc = "mira", !.contador = n]
  /\ Hecha(n)
  /\ UNCHANGED <<enchufe, interrupt_pid, caido>> /\ EnCpu

\* enviar_contexto, which frees it, and the request.
Devuelve(pc, pedido) == al_kernel' = al_kernel \o Contexto(cpu.id, pc) \o <<Codigo(pedido)>>

\* Instructions that ask the kernel for something.
Pedir(pedido) ==
  /\ Ejecuta
  /\ Devuelve(cpu.contador + 1, pedido)
  /\ cpu' = [cpu EXCEPT !.pc = IF pedido \in ConRespuesta THEN "respuesta" ELSE "mira",
                        !.contador = @ + 1, !.vivo = FALSE,
                        !.esperando = pedido \in SinRespuesta,
                        !.devuelto = pedido = "SLEEP_BLOQUEANTE"]
  /\ Hecha(cpu.contador + 1)
  /\ UNCHANGED <<al_cpu, interrupt_pid, caido>> /\ EnCpu

\* Mutant of PcAlFaltar: the pc is not decremented.
PcAlFaltarSinRestar == cpu.contador + 1

\* Mutant of PcAlFaltar: it is decremented before it has been incremented.
PcAlFaltarDosVeces == cpu.contador - 1

\* handle_pf: the pc, already incremented, goes back.
PcAlFaltar == cpu.contador

FaltarPagina ==
  /\ Ejecuta
  /\ Devuelve(PcAlFaltar, "PAGE_FAULT")
  /\ cpu' = [cpu EXCEPT !.pc = "mira", !.vivo = FALSE, !.devuelto = TRUE]
  /\ UNCHANGED <<al_cpu, interrupt_pid, siguiente, caido>> /\ EnCpu

\* Mutant of UltimasPalabras: the code is not sent first.
UltimasPalabrasSinCodigo ==
  [i \in 1 .. Cuerpo |-> <<"dato", 0>>] \o <<Codigo("PROCESS_FINISHED")>>

\* As many words as a context has, of whatever is in memory.
Basura == <<Codigo("CONTEXTO")>> \o [i \in 1 .. Cuerpo |-> <<"dato", 0>>]

\* EXIT sends as many bytes as a context has, but of the buffer's descriptor.
UltimasPalabras == Basura \o <<Codigo("PROCESS_FINISHED")>>

\* EXIT also clears the slot, whoever it was for.
Salir ==
  /\ cpu.pc = "ejecuta" /\ cpu.contador = Largo - 1
  /\ al_kernel' = al_kernel \o UltimasPalabras
  /\ cpu' = [cpu EXCEPT !.pc = "mira", !.vivo = FALSE, !.termina = TRUE]
  /\ interrupt_pid' = NULO
  /\ Hecha(Largo)
  /\ UNCHANGED <<al_cpu, caido>> /\ EnCpu

\* recibir_codigo_operacion after a request that is answered.
LeerRespuesta ==
  /\ cpu.pc = "respuesta" /\ al_cpu # <<>>
  /\ cpu' = [cpu EXCEPT !.pc = "mira", !.esperando = Head(al_cpu) = Codigo("OK"),
                        !.devuelto = Head(al_cpu) # Codigo("OK")]
  /\ al_cpu' = Tail(al_cpu)
  /\ UNCHANGED <<al_kernel, interrupt_pid, siguiente, caido>> /\ EnCpu

\* contexto->id == interrupt_pid.  Once the context has been freed its id is whatever is there.
Coincide ==
  IF interrupt_pid = NULO THEN {FALSE}
  ELSE IF cpu.vivo THEN {cpu.id = interrupt_pid} ELSE BOOLEAN

\* The comparison, and the condition of the loop when it fails.
Mirar ==
  /\ cpu.pc = "mira"
  /\ \E coincide \in Coincide :
       cpu' = [cpu EXCEPT !.pc = IF coincide THEN "interrumpe"
                                 ELSE IF cpu.termina \/ cpu.devuelto THEN "escucha"
                                 ELSE IF cpu.esperando THEN "reasigna" ELSE "ejecuta"]
  /\ UNCHANGED <<enchufe, interrupt_pid, siguiente, caido>> /\ EnCpu

\* Mutant of Desaloja: contexto_devuelto is not looked at.
DesalojaSinMirar == ~cpu.esperando

\* Only a context that is still here is sent back.
Desaloja == cpu.vivo

\* enviar_contexto once more, after an EXIT: the words go, and then the second free.
SinDesalojo == IF cpu.termina THEN al_kernel \o Basura ELSE al_kernel

\* The slot is cleared, also of an interruption that came after the comparison.  The context
\* goes back unless it already has.  What follows a second free is outside the module: the end
\* of the CPU, whose closed socket the planner reads, or a heap that is no longer one, DESALOJO
\* sent from it and the loop going on.
Interrumpir ==
  /\ cpu.pc = "interrumpe"
  /\ interrupt_pid' = NULO
  /\ al_kernel' = IF Desaloja THEN al_kernel \o Contexto(cpu.id, cpu.contador)
                                              \o <<Codigo("DESALOJO")>>
                  ELSE SinDesalojo
  /\ cpu' = [cpu EXCEPT !.pc = "escucha", !.vivo = FALSE]
  /\ caido' = cpu.termina
  /\ UNCHANGED <<al_cpu, siguiente>> /\ EnCpu

-----------------------------------------------------------------------------
Nucleo ==
  \/ \E p \in Procesos : Despachar(p)
  \/ Redespachar \/ LeerCodigo \/ LeerCampo \/ LeerPedido \/ Atender

Ciclo ==
  \/ Recibir \/ Reasignar \/ FaltarPagina \/ Salir \/ LeerRespuesta \/ Mirar \/ Interrumpir
  \/ \E n \in 1 .. Largo - 1 : Operar(n)
  \/ \E q \in ConRespuesta \cup SinRespuesta \cup {"SLEEP_BLOQUEANTE"} : Pedir(q)

Next ==
  /\ ~caido
  /\ \/ Nucleo \/ Ciclo \/ RecibirInterrupcion
     \/ \E p \in Procesos : Desbloquear(p) \/ EnviarInterrupcion(p)

Spec == Init /\ [][Next]_vars

\* The main thread of the CPU and the planner run whenever they can, and the memory answers.
Equidad == WF_vars(~caido /\ Ciclo) /\ WF_vars(~caido /\ Nucleo)

EspecificacionJusta == Spec /\ Equidad

-----------------------------------------------------------------------------
Respuestas == {"OK", "BLOQUEADO", "FIN_PROCESO"}
DeContexto == {<<"id", p>> : p \in Procesos} \cup {<<"pc", n>> : n \in 0 .. Largo}
                \cup {<<"dato", 0>>, Codigo("CONTEXTO")}

TipoOK ==
  /\ program_counter \in [Procesos -> 0 .. Largo] /\ siguiente \in [Procesos -> 0 .. Largo]
  /\ estado \in [Procesos -> {"READY", "EXEC", "BLOCK", "FIN"}]
  /\ manejando_contexto \subseteq Procesos
  /\ plani.pc \in {"elige", "redespacha", "codigo_contexto", "contexto", "codigo", "atiende",
                   "termina"}
  /\ plani.pcb \in Procesos \cup {NULO} /\ plani.pedido \in Pedidos \cup {"NADA"}
  /\ plani.leidas \in Seq(DeContexto) /\ Len(plani.leidas) <= Cuerpo
  /\ al_cpu \in Seq(DeContexto \cup {Codigo(r) : r \in Respuestas})
  /\ al_kernel \in Seq(DeContexto \cup {Codigo(q) : q \in Pedidos})
  /\ al_cpu_int \in Seq(Procesos) /\ interrupt_pid \in Procesos \cup {NULO}
  /\ cpu \in [pc : {"escucha", "reasigna", "ejecuta", "respuesta", "mira", "interrumpe"},
              id : Procesos \cup {NULO}, contador : 0 .. Largo, vivo : BOOLEAN,
              esperando : BOOLEAN, devuelto : BOOLEAN, termina : BOOLEAN]
  /\ interrupciones \in 0 .. MaxInterrupciones
  /\ inesperado \in BOOLEAN /\ caido \in BOOLEAN

-----------------------------------------------------------------------------
(* Properties *)

\* Every program runs its instructions in their order, each once, except that the one that
\* faulted is run again: whatever way the pc goes through sockets, t_pcb and contexts of other
\* processes, and whatever interruptions arrive late, it is the one the program was at.
EnOrden ==
  /\ cpu.pc = "ejecuta" => cpu.vivo /\ cpu.contador = siguiente[cpu.id]
  /\ \A p \in Procesos : estado[p] \in {"READY", "BLOCK"} => program_counter[p] = siguiente[p]

\* Neither "El codigo recibido [%d] no es el esperado [%d]" (validar_codigo_recibido) nor "Hubo
\* un error en la comunicacion con el CPU" (scheduler.c:607) is logged while the CPU lives: up
\* to a second free of a context (caido).  After the end of the CPU the planner does log them.
ComunicacionOK == ~inesperado

\* A context that is sent comes back: a burst never ends with the planner and the CPU waiting
\* for each other, unless the CPU has freed a context twice.
Vuelve ==
  (plani.pc \in {"codigo_contexto", "contexto", "codigo"}) ~> (plani.pc = "atiende" \/ caido)

\* The requests on their way.
EnCamino == {q \in Pedidos : \E i \in DOMAIN al_kernel : al_kernel[i] = Codigo(q)}

UnTurno == INSTANCE Turno WITH
  en_cpu <- IF plani.pc \in {"codigo_contexto", "contexto", "codigo"} /\ EnCamino = {}
            THEN plani.pcb ELSE NULO,
  pedido <- IF plani.pc = "atiende" THEN [de |-> cpu.id, que |-> plani.pedido]
            ELSE IF EnCamino # {} THEN [de |-> cpu.id, que |-> CHOOSE q \in EnCamino : TRUE]
            ELSE NULO

\* The CPU and the planner implement Turno: the request that comes back is of the process whose
\* context was sent, although the CPU may receive it in the middle of the cycle of another.
CumpleTurno == UnTurno!Spec
=============================================================================
