------------------------------ MODULE CpuPruebas ------------------------------
(***************************************************************************)
(* Proofs about the CPU and its conversation with the short-term planner,  *)
(* for any number of programs, instructions and interruptions.             *)
(***************************************************************************)
EXTENDS Cpu, SequenceTheorems, TLAPS

-----------------------------------------------------------------------------
(* The type invariant *)

Lugares == {"elige", "redespacha", "codigo_contexto", "contexto", "codigo", "atiende", "termina"}
Planis  == [pc : Lugares, pcb : Procesos \cup {NULO}, leidas : Seq(DeContexto),
            pedido : Pedidos \cup {"NADA"}]
Cpus    == [pc : {"escucha", "reasigna", "ejecuta", "respuesta", "mira", "interrumpe"},
            id : Procesos \cup {NULO}, contador : 0 .. Largo, vivo : BOOLEAN,
            esperando : BOOLEAN, devuelto : BOOLEAN, termina : BOOLEAN]

DeCpu    == DeContexto \cup {Codigo(r) : r \in Respuestas}
DeKernel == DeContexto \cup {Codigo(q) : q \in Pedidos}

TipoPcbs == /\ program_counter \in [Procesos -> 0 .. Largo]
            /\ siguiente \in [Procesos -> 0 .. Largo]
            /\ estado \in [Procesos -> {"READY", "EXEC", "BLOCK", "FIN"}]
            /\ manejando_contexto \subseteq Procesos
TipoHilos == /\ plani \in Planis /\ cpu \in Cpus
             /\ Len(plani.leidas) <= Cuerpo
             /\ plani.pc = "codigo_contexto" => plani.leidas = <<>>
TipoEnchufe == al_cpu \in Seq(DeCpu) /\ al_kernel \in Seq(DeKernel)
TipoSlot == /\ al_cpu_int \in Seq(Procesos) /\ interrupt_pid \in Procesos \cup {NULO}
            /\ interrupciones \in 0 .. MaxInterrupciones
TipoResto == inesperado \in BOOLEAN /\ caido \in BOOLEAN

Tipos == TipoPcbs /\ TipoHilos /\ TipoEnchufe /\ TipoSlot /\ TipoResto

-----------------------------------------------------------------------------
(* Where the conversation is.  The CPU has the context from the moment it  *)
(* takes it to the moment it sends it back, and each of the two knows what *)
(* the other is going to read next.                                        *)

\* What is left of the answers when the CPU is to read one, or none.
Contestada(n) == Len(al_cpu) = n + (IF cpu.pc = "respuesta" THEN 1 ELSE 0)

\* The planner has sent nothing that has not come back.
Quieta ==
  /\ plani.pc \in {"elige", "redespacha"}
  /\ al_kernel = <<>> /\ ~cpu.vivo /\ Contestada(0)

\* The context is in the socket.
Viaja ==
  /\ plani.pc = "codigo_contexto" /\ al_kernel = <<>> /\ ~cpu.vivo /\ Contestada(Cuerpo + 1)
  /\ LET n == Len(al_cpu) - Cuerpo
     IN  /\ al_cpu[n + 1] = <<"id", plani.pcb>>
         /\ al_cpu[n + 2] = <<"pc", siguiente[plani.pcb]>>

\* The CPU has it.
Corre ==
  /\ plani.pc = "codigo_contexto" /\ al_kernel = <<>> /\ al_cpu = <<>>
  /\ cpu.vivo /\ cpu.id = plani.pcb

\* How many words of what the CPU has sent the planner has read.
Leidas == CASE plani.pc = "codigo_contexto" -> 0
            [] plani.pc = "contexto" -> 1 + Len(plani.leidas)
            [] plani.pc = "codigo" -> 1 + Cuerpo

\* The word of the pc, read or not.
PalabraPc ==
  CASE plani.pc = "codigo" -> <<"pc", program_counter[plani.pcb]>>
    [] plani.pc = "contexto" /\ Len(plani.leidas) >= 2 -> plani.leidas[2]
    [] OTHER -> al_kernel[3 - Leidas]

Ultima == al_kernel[Len(al_kernel)]

\* The CPU has sent it back with a request.
Regresa ==
  /\ plani.pc \in {"codigo_contexto", "contexto", "codigo"}
  /\ ~cpu.vivo /\ al_cpu = <<>> /\ cpu.id = plani.pcb
  /\ plani.pc = "contexto" => Len(plani.leidas) < Cuerpo
  /\ Len(al_kernel) = Cuerpo + 2 - Leidas
  /\ plani.pc = "codigo_contexto" => al_kernel[1] = Codigo("CONTEXTO")
  /\ \A i \in 1 .. Len(al_kernel) - 1 : al_kernel[i] \in DeContexto
  /\ Ultima \in {Codigo(q) : q \in Pedidos}
  /\ (cpu.pc = "respuesta") = (Ultima \in {Codigo(q) : q \in ConRespuesta})
  /\ IF Ultima = Codigo("PROCESS_FINISHED") THEN PalabraPc[2] \in 0 .. Largo
                               ELSE PalabraPc = <<"pc", siguiente[plani.pcb]>>

\* The planner has read it all.
Atendida ==
  /\ plani.pc = "atiende" /\ al_kernel = <<>> /\ al_cpu = <<>>
  /\ ~cpu.vivo /\ cpu.id = plani.pcb /\ plani.pedido \in Pedidos
  /\ (cpu.pc = "respuesta") = (plani.pedido \in ConRespuesta)
  /\ plani.pedido # "PROCESS_FINISHED" =>
       program_counter[plani.pcb] = siguiente[plani.pcb]

Conversacion == Quieta \/ Viaja \/ Corre \/ Regresa \/ Atendida

\* The flags of the cycle tell whether there is a context to go on with.
Banderas ==
  /\ cpu.vivo => /\ cpu.pc \in {"ejecuta", "mira", "interrumpe"}
                 /\ ~cpu.esperando /\ ~cpu.devuelto /\ ~cpu.termina
                 /\ cpu.id \in Procesos /\ cpu.contador = siguiente[cpu.id]
  /\ cpu.pc = "ejecuta" => cpu.vivo
  /\ cpu.pc = "reasigna" => cpu.esperando /\ ~cpu.devuelto /\ ~cpu.termina
  /\ cpu.pc = "mira" /\ ~cpu.vivo => cpu.termina \/ cpu.devuelto \/ cpu.esperando
  /\ cpu.pc = "respuesta" => ~cpu.esperando /\ ~cpu.devuelto /\ ~cpu.termina

\* Who is in EXEC, and the pc of who is not.
EnSuLugar ==
  /\ plani.pc # "elige" => plani.pcb \in Procesos /\ estado[plani.pcb] = "EXEC"
  /\ \A p \in Procesos : estado[p] = "EXEC" => p = plani.pcb /\ plani.pc # "elige"
  /\ \A p \in Procesos :
       estado[p] \in {"READY", "BLOCK"} \/ (p = plani.pcb /\ plani.pc = "redespacha")
         => program_counter[p] = siguiente[p]

Inv == Tipos /\ Conversacion /\ Banderas /\ EnSuLugar /\ ~inesperado

\* After a second free there is no conversation: words have been sent that nobody waits for.
Siempre == Tipos /\ Banderas /\ EnSuLugar /\ ~inesperado /\ (caido \/ Conversacion)
LEMMA InvTipo == Siempre => TipoOK
<1> SUFFICES ASSUME Siempre PROVE TipoOK
  OBVIOUS
<1>1. /\ plani.pc \in Lugares /\ plani.pcb \in Procesos \cup {NULO}
      /\ plani.leidas \in Seq(DeContexto) /\ plani.pedido \in Pedidos \cup {"NADA"}
      /\ Len(plani.leidas) <= Cuerpo
  BY DEF Siempre, Tipos, TipoHilos, Planis
<1> QED
  BY <1>1 DEF Siempre, Tipos, TipoPcbs, TipoHilos, TipoEnchufe, TipoSlot, TipoResto, TipoOK,
     Cpus, DeCpu, DeKernel, Lugares

-----------------------------------------------------------------------------
(* The words of contexts and requests *)

\* The codes say what they are.
LEMMA Codigos ==
  /\ \A a, b : Codigo(a) = Codigo(b) => a = b
  /\ \A a : Codigo(a)[2] = a
  /\ \A a, b : Codigo(a) # <<"pc", b>> /\ Codigo(a) # <<"id", b>> /\ Codigo(a) # <<"dato", b>>
BY DEF Codigo

LEMMA EnContexto ==
  ASSUME NEW p \in Procesos, NEW n \in 0 .. Largo, NEW s, s = Contexto(p, n)
  PROVE  /\ s \in Seq(DeContexto) /\ Len(s) = 8
         /\ s[1] = Codigo("CONTEXTO") /\ s[2] = <<"id", p>> /\ s[3] = <<"pc", n>>
<1> DEFINE cabeza == <<<<"id", p>>, <<"pc", n>>>>
           cola == [i \in 1 .. Cuerpo - 2 |-> <<"dato", 0>>]
           c == <<Codigo("CONTEXTO")>>
           campos == cabeza \o cola
           todo == c \o campos
<1>1. cola \in Seq(DeContexto) /\ Len(cola) = 5
  BY DEF Cuerpo, DeContexto
<1>2. /\ cabeza \in Seq(DeContexto) /\ Len(cabeza) = 2
      /\ cabeza[1] = <<"id", p>> /\ cabeza[2] = <<"pc", n>>
  BY DEF DeContexto
<1>3. /\ c \in Seq(DeContexto) /\ Len(c) = 1 /\ c[1] = Codigo("CONTEXTO")
  BY DEF DeContexto
<1>4. s = todo
  BY DEF Contexto, Campos
<1> HIDE DEF cabeza, cola, c
<1>5. campos \in Seq(DeContexto)
  BY <1>1, <1>2, ConcatProperties
<1>6. /\ Len(campos) = Len(cabeza) + Len(cola)
      /\ \A i \in 1 .. Len(cabeza) + Len(cola) :
           campos[i] = IF i <= Len(cabeza) THEN cabeza[i] ELSE cola[i - Len(cabeza)]
  BY <1>1, <1>2, ConcatProperties
<1> HIDE DEF campos
<1>7. /\ todo \in Seq(DeContexto) /\ Len(todo) = Len(c) + Len(campos)
  BY <1>3, <1>5, ConcatProperties
<1>8. \A i \in 1 .. Len(c) + Len(campos) :
           todo[i] = IF i <= Len(c) THEN c[i] ELSE campos[i - Len(c)]
  BY <1>3, <1>5, ConcatProperties
<1> HIDE DEF todo
<1> QED
  BY <1>1, <1>2, <1>3, <1>4, <1>6, <1>7, <1>8

\* A context and the request behind it.
LEMMA EnDevuelto ==
  ASSUME NEW p \in Procesos, NEW n \in 0 .. Largo, NEW q \in Pedidos,
         NEW s, s = <<>> \o Contexto(p, n) \o <<Codigo(q)>>
  PROVE  /\ s \in Seq(DeKernel) /\ Len(s) = 9 /\ s[1] = Codigo("CONTEXTO")
         /\ s[3] = <<"pc", n>> /\ s[9] = Codigo(q)
         /\ \A i \in 1 .. 8 : s[i] \in DeContexto
<1> DEFINE c == Contexto(p, n)
           u == <<Codigo(q)>>
           todo == c \o u
<1>1. DeContexto \subseteq DeKernel /\ Codigo(q) \in DeKernel
  BY DEF DeKernel
<1>2. /\ c \in Seq(DeKernel) /\ Len(c) = 8 /\ c[1] = Codigo("CONTEXTO") /\ c[3] = <<"pc", n>>
      /\ u \in Seq(DeKernel) /\ Len(u) = 1 /\ u[1] = Codigo(q)
  BY <1>1, EnContexto
<1> HIDE DEF c, u
<1>3. s = todo
  BY <1>2, ConcatEmptySeq DEF c, u
<1>4. todo \in Seq(DeKernel) /\ Len(todo) = Len(c) + Len(u)
  BY <1>2, ConcatProperties
<1>5. \A i \in 1 .. Len(c) + Len(u) : todo[i] = IF i <= Len(c) THEN c[i] ELSE u[i - Len(c)]
  BY <1>2, ConcatProperties
<1> HIDE DEF todo
<1>6. todo[1] = Codigo("CONTEXTO") /\ todo[3] = <<"pc", n>>
  BY <1>2, <1>5
<1>7. todo[9] = Codigo(q)
  BY <1>2, <1>5
<1>8. todo \in Seq(DeKernel) /\ Len(todo) = 9
  BY <1>2, <1>4
<1>9. \A i \in 1 .. 8 : todo[i] \in DeContexto
  <2>1. \A i \in 1 .. 8 : c[i] \in DeContexto
    BY EnContexto DEF c
  <2> QED
    BY <1>2, <1>5, <2>1
<1> QED
  BY <1>3, <1>6, <1>7, <1>8, <1>9, Zenon

\* The words sent after an EXIT whose context has been freed: no request among them.
LEMMA EnBasura ==
  ASSUME NEW s, s \in Seq(DeKernel)
  PROVE  /\ s \o Basura \in Seq(DeKernel)
         /\ \A q \in Pedidos : (\E i \in DOMAIN (s \o Basura) : (s \o Basura)[i] = Codigo(q)) <=>
                              (\E i \in DOMAIN s : s[i] = Codigo(q))
<1> DEFINE medio == [i \in 1 .. Cuerpo |-> <<"dato", 0>>]
           t == <<Codigo("CONTEXTO")>>
           b == t \o medio
           todo == s \o b
<1>1. /\ medio \in Seq(DeKernel) /\ Len(medio) = 7 /\ \A i \in 1 .. 7 : medio[i] = <<"dato", 0>>
      /\ t \in Seq(DeKernel) /\ Len(t) = 1 /\ t[1] = Codigo("CONTEXTO")
  BY DEF Cuerpo, DeContexto, DeKernel
<1>2. Basura = b
  BY DEF Basura
<1> HIDE DEF medio, t
<1>3. /\ b \in Seq(DeKernel) /\ Len(b) = Len(t) + Len(medio)
      /\ \A i \in 1 .. Len(t) + Len(medio) :
           b[i] = IF i <= Len(t) THEN t[i] ELSE medio[i - Len(t)]
  BY <1>1, ConcatProperties
<1>9. b \in Seq(DeKernel)
  BY <1>3
<1> HIDE DEF b
<1>4. \A q \in Pedidos, i \in 1 .. 8 : b[i] # Codigo(q)
  <2> SUFFICES ASSUME NEW q \in Pedidos, NEW i \in 1 .. 8 PROVE b[i] # Codigo(q)
    OBVIOUS
  <2>1. q # "CONTEXTO"
    BY DEF Pedidos, ConRespuesta, SinRespuesta
  <2>2. b[i] = Codigo("CONTEXTO") \/ b[i] = <<"dato", 0>>
    <3>1. CASE i = 1
      BY <1>1, <1>3, <3>1
    <3>2. CASE i # 1
      <4>1. i \in 1 .. Len(t) + Len(medio) /\ ~(i <= Len(t)) /\ i - Len(t) \in 1 .. 7
        BY <1>1, <3>2
      <4>2. b[i] = medio[i - Len(t)]
        BY <1>3, <4>1
      <4> QED
        BY <1>1, <4>1, <4>2
    <3> QED
      BY <3>1, <3>2
  <2> QED
    BY <2>1, <2>2, Codigos
<1>5. /\ todo \in Seq(DeKernel) /\ Len(todo) = Len(s) + Len(b)
      /\ \A i \in 1 .. Len(s) + Len(b) :
           todo[i] = IF i <= Len(s) THEN s[i] ELSE b[i - Len(s)]
  BY <1>9, ConcatProperties
<1> HIDE DEF todo
<1>6. /\ DOMAIN todo = 1 .. Len(s) + 8 /\ DOMAIN s = 1 .. Len(s) /\ Len(s) \in Nat
      /\ Len(b) = 8
  BY <1>1, <1>3, <1>5
<1>7. ASSUME NEW q \in Pedidos
      PROVE  (\E i \in DOMAIN todo : todo[i] = Codigo(q)) <=> (\E i \in DOMAIN s : s[i] = Codigo(q))
  <2>1. ASSUME NEW i \in DOMAIN todo, todo[i] = Codigo(q)
        PROVE  i \in DOMAIN s /\ s[i] = Codigo(q)
    <3>1. CASE i <= Len(s)
      BY <1>3, <1>5, <1>6, <2>1, <3>1
    <3>2. CASE i > Len(s)
      <4>1. i - Len(s) \in 1 .. 8 /\ todo[i] = b[i - Len(s)]
        <5>1. i \in 1 .. Len(s) + 8
          BY <1>6
        <5>2. i - Len(s) \in 1 .. 8 /\ ~(i <= Len(s))
          BY <1>6, <3>2, <5>1
        <5>3. todo[i] = IF i <= Len(s) THEN s[i] ELSE b[i - Len(s)]
          BY <1>5, <1>6, <5>1
        <5> QED
          BY <5>2, <5>3, Zenon
      <4> QED
        BY <1>4, <2>1, <4>1
    <3> QED
      BY <1>6, <3>1, <3>2
  <2>2. ASSUME NEW i \in DOMAIN s, s[i] = Codigo(q)
        PROVE  i \in DOMAIN todo /\ todo[i] = Codigo(q)
    BY <1>3, <1>5, <1>6, <2>2
  <2> QED
    BY <2>1, <2>2
<1>8. s \o Basura = todo
  BY <1>2 DEF todo
<1> QED
  BY <1>5, <1>7, <1>8

LEMMA EnUltimas ==
  ASSUME NEW s, s = <<>> \o UltimasPalabras
  PROVE  /\ s \in Seq(DeKernel) /\ Len(s) = 9 /\ s[1] = Codigo("CONTEXTO")
         /\ s[3] = <<"dato", 0>> /\ s[9] = Codigo("PROCESS_FINISHED")
         /\ \A i \in 1 .. 8 : s[i] \in DeContexto
<1> DEFINE medio == [i \in 1 .. Cuerpo |-> <<"dato", 0>>]
           t == <<Codigo("CONTEXTO")>>
           u == <<Codigo("PROCESS_FINISHED")>>
           c == t \o medio
           todo == c \o u
<1>1. /\ medio \in Seq(DeKernel) /\ Len(medio) = 7 /\ medio[2] = <<"dato", 0>>
      /\ \A i \in 1 .. 7 : medio[i] \in DeContexto
  BY DEF Cuerpo, DeContexto, DeKernel
<1>2. /\ t[1] \in DeContexto /\ t \in Seq(DeKernel) /\ Len(t) = 1 /\ t[1] = Codigo("CONTEXTO")
      /\ u \in Seq(DeKernel) /\ Len(u) = 1 /\ u[1] = Codigo("PROCESS_FINISHED")
  BY DEF DeContexto, DeKernel, Pedidos
<1>3. UltimasPalabras = todo
  BY DEF UltimasPalabras, Basura
<1> HIDE DEF medio, t, u
<1>4. c \in Seq(DeKernel)
  BY <1>1, <1>2, ConcatProperties
<1>5. /\ Len(c) = Len(t) + Len(medio)
      /\ \A i \in 1 .. Len(t) + Len(medio) :
           c[i] = IF i <= Len(t) THEN t[i] ELSE medio[i - Len(t)]
  BY <1>1, <1>2, ConcatProperties
<1> HIDE DEF c
<1>6. todo \in Seq(DeKernel) /\ Len(todo) = Len(c) + Len(u)
  BY <1>2, <1>4, ConcatProperties
<1>7. \A i \in 1 .. Len(c) + Len(u) : todo[i] = IF i <= Len(c) THEN c[i] ELSE u[i - Len(c)]
  BY <1>2, <1>4, ConcatProperties
<1> HIDE DEF todo
<1>8. s = todo
  BY <1>3, <1>6, ConcatEmptySeq
<1>9. \A i \in 1 .. 8 : todo[i] \in DeContexto
  <2>1. \A i \in 1 .. 8 : todo[i] = c[i]
    BY <1>1, <1>2, <1>5, <1>7
  <2>2. \A i \in 1 .. 8 : c[i] \in DeContexto
    BY <1>1, <1>2, <1>5
  <2> QED
    BY <2>1, <2>2
<1> QED
  BY <1>1, <1>2, <1>5, <1>6, <1>7, <1>8, <1>9

\* What Enviar leaves in the socket.
LEMMA Enviado ==
  ASSUME NEW p \in Procesos, NEW n \in 0 .. Largo, NEW a \in Seq(DeCpu),
         NEW b, b = a \o Contexto(p, n)
  PROVE  /\ b \in Seq(DeCpu) /\ Len(b) = Len(a) + 8
         /\ b[Len(a) + 2] = <<"id", p>> /\ b[Len(a) + 3] = <<"pc", n>>
<1> DEFINE c == Contexto(p, n)
           todo == a \o c
<1>1. /\ c \in Seq(DeCpu) /\ Len(c) = 8 /\ c[2] = <<"id", p>> /\ c[3] = <<"pc", n>>
  BY EnContexto DEF DeCpu
<1>2. b = todo
  OBVIOUS
<1> HIDE DEF c
<1>3. todo \in Seq(DeCpu) /\ Len(todo) = Len(a) + Len(c)
  BY <1>1, ConcatProperties
<1>4. \A i \in 1 .. Len(a) + Len(c) : todo[i] = IF i <= Len(a) THEN a[i] ELSE c[i - Len(a)]
  BY <1>1, ConcatProperties
<1> HIDE DEF todo
<1>5. \A i \in 1 .. 8 : todo[Len(a) + i] = c[i]
  <2> SUFFICES ASSUME NEW i \in 1 .. 8
               PROVE  todo[Len(a) + i] = c[i]
    OBVIOUS
  <2>1. /\ Len(a) + i \in 1 .. Len(a) + Len(c) /\ ~(Len(a) + i <= Len(a))
        /\ (Len(a) + i) - Len(a) = i
    BY <1>1
  <2> QED
    BY <1>4, <2>1, Zenon
<1>6. todo \in Seq(DeCpu) /\ Len(todo) = Len(a) + 8
  BY <1>1, <1>3
<1>7. 2 \in 1 .. 8 /\ 3 \in 1 .. 8
  OBVIOUS
<1> QED
  BY <1>1, <1>2, <1>5, <1>6, <1>7, Zenon

\* An empty socket is one with no words.
LEMMA Vacia ==
  /\ Len(<<>>) = 0
  /\ \A S : \A a \in Seq(S) : Len(a) = 0 => a = <<>>
BY EmptySeq

-----------------------------------------------------------------------------
(* The planner *)

LEMMA InicioInv ==
  ASSUME Init
  PROVE  Inv
<1>1. Tipos
  <2>1. TipoResto
    BY DEF Init, TipoResto
  <2>4. TipoPcbs
    <3>1. 0 \in 0 .. Largo
      BY CpuOK
    <3> QED
      BY <3>1 DEF Init, TipoPcbs
  <2>2. TipoHilos
    BY CpuOK DEF Init, TipoHilos, Planis, Cpus, Lugares, Cuerpo
  <2>3. TipoEnchufe /\ TipoSlot
    BY CpuOK DEF Init, TipoEnchufe, TipoSlot
  <2> QED
    BY <2>1, <2>2, <2>3, <2>4 DEF Tipos
<1>2. Quieta
  BY DEF Init, Quieta, Contestada
<1>3. Banderas /\ EnSuLugar /\ ~inesperado
  BY DEF Init, Banderas, EnSuLugar
<1> QED
  BY <1>1, <1>2, <1>3 DEF Inv, Conversacion

LEMMA EnviarInv ==
  ASSUME Inv, NEW p \in Procesos, plani.pc \in {"elige", "redespacha"}, Enviar(p),
         estado' \in [Procesos -> {"READY", "EXEC", "BLOCK", "FIN"}], estado'[p] = "EXEC",
         \A r \in Procesos \ {p} : estado'[r] = estado[r] /\ estado[r] # "EXEC",
         program_counter[p] = siguiente[p]
  PROVE  Inv'
<1>1. Quieta
  BY DEF Inv, Conversacion, Quieta, Viaja, Corre, Regresa, Atendida
<1>2. /\ program_counter[p] \in 0 .. Largo /\ al_cpu \in Seq(DeCpu)
      /\ al_cpu' = al_cpu \o Contexto(p, program_counter[p])
  BY DEF Inv, Tipos, TipoPcbs, TipoEnchufe, Enviar
<1>3. /\ al_cpu' \in Seq(DeCpu) /\ Len(al_cpu') = Len(al_cpu) + 8
      /\ al_cpu'[Len(al_cpu) + 2] = <<"id", p>>
      /\ al_cpu'[Len(al_cpu) + 3] = <<"pc", program_counter[p]>>
  <2>1. \A b : b = al_cpu \o Contexto(p, program_counter[p]) =>
               /\ b \in Seq(DeCpu) /\ Len(b) = Len(al_cpu) + 8
               /\ b[Len(al_cpu) + 2] = <<"id", p>>
               /\ b[Len(al_cpu) + 3] = <<"pc", program_counter[p]>>
    BY <1>2, Enviado
  <2> QED
    BY <1>2, <2>1, Zenon
<1>4. /\ plani' = [pc |-> "codigo_contexto", pcb |-> p, leidas |-> <<>>, pedido |-> "NADA"]
      /\ UNCHANGED <<program_counter, manejando_contexto, al_kernel, slot, cpu, siguiente,
                     inesperado, caido>>
  BY DEF Enviar
<1>5. Tipos'
  <2>1. TipoHilos' /\ TipoPcbs' /\ TipoResto'
    BY <1>4 DEF Inv, Tipos, TipoHilos, TipoPcbs, TipoResto, Planis, Lugares, Cuerpo
  <2>2. TipoEnchufe' /\ TipoSlot'
    BY <1>3, <1>4 DEF Inv, Tipos, TipoEnchufe, TipoSlot, slot
  <2> QED
    BY <2>1, <2>2 DEF Tipos
<1>6. Viaja'
  <2>1. Len(al_cpu) = (IF cpu.pc = "respuesta" THEN 1 ELSE 0) /\ al_kernel = <<>> /\ ~cpu.vivo
    BY <1>1 DEF Quieta, Contestada
  <2>2. Len(al_cpu') - 7 + 1 = Len(al_cpu) + 2 /\ Len(al_cpu') - 7 + 2 = Len(al_cpu) + 3
    BY <1>3, <2>1
  <2> QED
    BY <1>3, <1>4, <2>1, <2>2 DEF Viaja, Contestada, Cuerpo
<1>7. Banderas'
  BY <1>4 DEF Inv, Banderas
<1>8. EnSuLugar'
  BY <1>4 DEF Inv, EnSuLugar
<1> QED
  BY <1>4, <1>5, <1>6, <1>7, <1>8 DEF Inv, Conversacion

LEMMA DespacharInv ==
  ASSUME Inv, NEW p \in Procesos, Despachar(p)
  PROVE  Inv'
<1>1. /\ plani.pc = "elige" /\ Enviar(p) /\ estado' = [estado EXCEPT ![p] = "EXEC"]
      /\ estado[p] = "READY" /\ estado \in [Procesos -> {"READY", "EXEC", "BLOCK", "FIN"}]
  BY DEF Despachar, Inv, Tipos, TipoPcbs
<1>2. program_counter[p] = siguiente[p] /\ \A r \in Procesos : estado[r] # "EXEC"
  BY <1>1 DEF Inv, EnSuLugar
<1> QED
  BY <1>1, <1>2, EnviarInv

LEMMA RedespacharInv ==
  ASSUME Inv, Redespachar
  PROVE  Inv'
<1>1. plani.pc = "redespacha" /\ Enviar(plani.pcb) /\ estado' = estado
  BY DEF Redespachar
<1>2. /\ estado \in [Procesos -> {"READY", "EXEC", "BLOCK", "FIN"}]
      /\ plani.pcb \in Procesos /\ estado[plani.pcb] = "EXEC"
      /\ program_counter[plani.pcb] = siguiente[plani.pcb]
      /\ \A r \in Procesos \ {plani.pcb} : estado[r] # "EXEC"
  BY <1>1 DEF Inv, EnSuLugar, Tipos, TipoPcbs
<1> QED
  BY <1>1, <1>2, EnviarInv

\* Reading a word leaves the words behind it, and the last one while any is left.
LEMMA Leida ==
  ASSUME NEW S, NEW a \in Seq(S), a # <<>>
  PROVE  /\ Head(a) = a[1] /\ Tail(a) \in Seq(S) /\ Len(a) >= 1 /\ Len(Tail(a)) = Len(a) - 1
         /\ \A i \in 1 .. Len(a) - 1 : Tail(a)[i] = a[i + 1]
BY HeadTailProperties, EmptySeq

LEMMA LeePalabraInv ==
  ASSUME Inv, LeePalabra, plani.pc \in {"codigo_contexto", "contexto", "codigo"}
  PROVE  /\ Regresa /\ al_kernel \in Seq(DeKernel) /\ al_kernel' \in Seq(DeKernel)
         /\ Len(al_kernel') = Len(al_kernel) - 1 /\ Head(al_kernel) = al_kernel[1]
         /\ \A i \in 1 .. Len(al_kernel) - 1 : al_kernel'[i] = al_kernel[i + 1]
<1>1. al_kernel # <<>> /\ al_kernel' = Tail(al_kernel) /\ al_kernel \in Seq(DeKernel)
  BY DEF LeePalabra, Inv, Tipos, TipoEnchufe
<1>2. Regresa
  BY <1>1 DEF Inv, Conversacion, Quieta, Viaja, Corre, Atendida
<1> QED
  BY <1>1, <1>2, Leida

LEMMA LeerCodigoInv ==
  ASSUME Inv, LeerCodigo
  PROVE  Inv'
<1>1. /\ plani.pc = "codigo_contexto" /\ LeePalabra
      /\ inesperado' = (inesperado \/ Head(al_kernel) # Codigo("CONTEXTO"))
      /\ manejando_contexto' = manejando_contexto \cup {plani.pcb}
      /\ plani' = [plani EXCEPT !.pc = "contexto"]
      /\ UNCHANGED <<program_counter, al_cpu, estado, al_cpu_int, interrupt_pid,
                     interrupciones, cpu, siguiente, caido>>
  BY DEF LeerCodigo, EnPlani, slot
<1>2. /\ Regresa /\ al_kernel \in Seq(DeKernel) /\ al_kernel' \in Seq(DeKernel)
      /\ Len(al_kernel') = Len(al_kernel) - 1 /\ Head(al_kernel) = al_kernel[1]
      /\ \A i \in 1 .. Len(al_kernel) - 1 : al_kernel'[i] = al_kernel[i + 1]
  BY <1>1, LeePalabraInv
<1>3. plani \in Planis
  BY DEF Inv, Tipos, TipoHilos
<1>4. Tipos'
  <2>1. TipoHilos'
    BY <1>1, <1>3 DEF Inv, Tipos, TipoHilos, Planis, Lugares
  <2>2. TipoEnchufe' /\ TipoSlot'
    BY <1>1, <1>2 DEF Inv, Tipos, TipoEnchufe, TipoSlot
  <2>3. TipoPcbs' /\ TipoResto'
    BY <1>1 DEF Inv, Tipos, TipoPcbs, TipoResto, EnSuLugar
  <2> QED
    BY <2>1, <2>2, <2>3 DEF Tipos
<1>5. Regresa'
  <2>1. /\ plani'.pc = "contexto" /\ plani'.leidas = <<>> /\ plani'.pcb = plani.pcb
    BY <1>1, <1>3 DEF Planis, Inv, Tipos, TipoHilos
  <2>2. /\ Leidas = 0 /\ Leidas' = 1 /\ Len(al_kernel) = 9 /\ Len(al_kernel') = 8
    BY <1>1, <1>2, <2>1 DEF Regresa, Leidas, Cuerpo
  <2>3. Ultima' = Ultima /\ PalabraPc' = PalabraPc
    BY <1>1, <1>2, <2>1, <2>2 DEF PalabraPc, Ultima
  <2> QED
    BY <1>1, <1>2, <2>1, <2>2, <2>3 DEF Regresa, Cuerpo
<1>6. Banderas' /\ EnSuLugar'
  BY <1>1, <1>3 DEF Inv, Banderas, EnSuLugar, Planis
<1>7. ~inesperado'
  BY <1>1, <1>2 DEF Regresa, Inv
<1> QED
  BY <1>4, <1>5, <1>6, <1>7 DEF Inv, Conversacion

\* The word of the pc is the same one after any field is read.
LEMMA CampoLeido ==
  ASSUME Inv, LeerCampo
  PROVE  \E k \in 0 .. 6 :
         /\ plani.pc = "contexto" /\ Regresa /\ al_kernel' \in Seq(DeKernel)
         /\ Len(plani.leidas) = k
         /\ plani'.leidas \in Seq(DeContexto) /\ Len(plani'.leidas) = k + 1
         /\ Len(al_kernel) = 8 - k /\ Len(al_kernel') = 7 - k
         /\ plani' \in Planis /\ plani'.pc = (IF k = 6 THEN "codigo" ELSE "contexto")
         /\ plani'.pcb = plani.pcb /\ plani'.pedido = plani.pedido /\ Ultima' = Ultima
         /\ \A i \in 1 .. 7 - k : al_kernel'[i] = al_kernel[i + 1]
         /\ k = 0 => al_kernel'[1] = PalabraPc
         /\ k >= 1 => plani'.leidas[2] = PalabraPc
         /\ program_counter' = IF k = 6
                                 THEN [program_counter EXCEPT ![plani.pcb] = plani'.leidas[2][2]]
                                 ELSE program_counter
<1>1. /\ plani.pc = "contexto" /\ LeePalabra /\ plani \in Planis
      /\ \A f : f = Append(plani.leidas, Head(al_kernel)) =>
           /\ plani' = [plani EXCEPT !.pc = IF Len(f) = 7 THEN "codigo" ELSE @, !.leidas = f]
           /\ program_counter' = IF Len(f) = 7
                                   THEN [program_counter EXCEPT ![plani.pcb] = f[2][2]]
                                   ELSE program_counter
  BY DEF LeerCampo, Cuerpo, Inv, Tipos, TipoHilos
<1>2. /\ Regresa /\ al_kernel \in Seq(DeKernel) /\ al_kernel' \in Seq(DeKernel)
      /\ Len(al_kernel') = Len(al_kernel) - 1 /\ Head(al_kernel) = al_kernel[1]
      /\ \A i \in 1 .. Len(al_kernel) - 1 : al_kernel'[i] = al_kernel[i + 1]
  BY <1>1, LeePalabraInv
<1>3. PICK v \in Seq(DeContexto) : v = plani.leidas
  BY <1>1 DEF Planis
<1>4. PICK k \in Nat : k = Len(v)
  OBVIOUS
<1>5. Leidas = 1 + k /\ k \in 0 .. 6 /\ Len(al_kernel) = 8 - k
  <2>1. Leidas = 1 + k
    BY <1>1, <1>3, <1>4 DEF Leidas
  <2>2. Len(al_kernel) = 8 - k
    BY <1>2, <2>1 DEF Regresa, Cuerpo
  <2>3. k < 7
    BY <1>1, <1>2, <1>3, <1>4 DEF Regresa, Cuerpo
  <2> QED
    BY <2>1, <2>2, <2>3
<1>6. PICK f : f = Append(v, Head(al_kernel))
  OBVIOUS
<1>7. Head(al_kernel) \in DeContexto
  <2>1. 1 \in 1 .. Len(al_kernel) - 1
    BY <1>5
  <2>2. \A i \in 1 .. Len(al_kernel) - 1 : al_kernel[i] \in DeContexto
    BY <1>2 DEF Regresa
  <2> QED
    BY <1>2, <2>1, <2>2
<1>8. /\ f \in Seq(DeContexto) /\ Len(f) = k + 1 /\ f[k + 1] = Head(al_kernel)
      /\ \A i \in 1 .. k : f[i] = v[i]
  BY <1>4, <1>6, <1>7, AppendProperties
<1>9. /\ plani' = [plani EXCEPT !.pc = IF k = 6 THEN "codigo" ELSE @, !.leidas = f]
      /\ program_counter' = IF k = 6 THEN [program_counter EXCEPT ![plani.pcb] = f[2][2]]
                            ELSE program_counter
  <2>1. /\ plani' = [plani EXCEPT !.pc = IF Len(f) = 7 THEN "codigo" ELSE @, !.leidas = f]
        /\ program_counter' = IF Len(f) = 7 THEN [program_counter EXCEPT ![plani.pcb] = f[2][2]]
                              ELSE program_counter
    BY <1>1, <1>3, <1>6, Zenon
  <2>2. (Len(f) = 7) = (k = 6)
    BY <1>5, <1>8
  <2> QED
    BY <2>1, <2>2, Zenon
<1>10. /\ plani' \in Planis /\ plani'.pc = (IF k = 6 THEN "codigo" ELSE "contexto")
       /\ plani'.leidas = f /\ plani'.pcb = plani.pcb /\ plani'.pedido = plani.pedido
  <2>1. CASE k = 6
    <3>1. plani' = [plani EXCEPT !.pc = "codigo", !.leidas = f]
      BY <1>9, <2>1
    <3> QED
      BY <1>1, <1>8, <2>1, <3>1 DEF Planis, Lugares
  <2>2. CASE k # 6
    <3>1. plani' = [plani EXCEPT !.pc = "contexto", !.leidas = f]
      BY <1>1, <1>9, <2>2
    <3> QED
      BY <1>1, <1>8, <2>2, <3>1 DEF Planis, Lugares
  <2> QED
    BY <2>1, <2>2
<1>11. Len(al_kernel') = 7 - k /\ \A i \in 1 .. 7 - k : al_kernel'[i] = al_kernel[i + 1]
  BY <1>2, <1>5
<1>12. Ultima' = Ultima
  <2>1. al_kernel'[7 - k] = al_kernel[(7 - k) + 1]
    BY <1>5, <1>11
  <2> QED
    BY <1>5, <1>11, <2>1 DEF Ultima
<1>13. k = 0 => al_kernel'[1] = PalabraPc
  <2> SUFFICES ASSUME k = 0
               PROVE  al_kernel'[1] = PalabraPc
    OBVIOUS
  <2>1. PalabraPc = al_kernel[2]
    <3>1. ~(Len(plani.leidas) >= 2) /\ 3 - Leidas = 2
      BY <1>3, <1>4, <1>5
    <3> QED
      BY <1>1, <3>1 DEF PalabraPc
  <2>2. 1 \in 1 .. 7 - k
    OBVIOUS
  <2> QED
    BY <1>11, <2>1, <2>2
<1>14. k >= 1 => f[2] = PalabraPc
  <2>1. CASE k = 1
    <3>1. PalabraPc = al_kernel[1]
      <4>1. ~(Len(plani.leidas) >= 2) /\ 3 - Leidas = 1
        BY <1>3, <1>4, <1>5, <2>1
      <4> QED
        BY <1>1, <4>1 DEF PalabraPc
    <3> QED
      BY <1>2, <1>8, <2>1, <3>1
  <2>2. CASE k >= 2
    <3>1. PalabraPc = v[2]
      BY <1>1, <1>3, <1>4, <2>2 DEF PalabraPc
    <3> QED
      BY <1>8, <2>2, <3>1
  <2> QED
    BY <1>5, <2>1, <2>2
<1> QED
  BY <1>1, <1>2, <1>3, <1>4, <1>5, <1>8, <1>9, <1>10, <1>11, <1>12, <1>13, <1>14

LEMMA LeerCampoInv ==
  ASSUME Inv, LeerCampo
  PROVE  Inv'
<1>1. PICK k \in 0 .. 6 :
         /\ plani.pc = "contexto" /\ Regresa /\ al_kernel' \in Seq(DeKernel)
         /\ Len(plani.leidas) = k
         /\ plani'.leidas \in Seq(DeContexto) /\ Len(plani'.leidas) = k + 1
         /\ Len(al_kernel) = 8 - k /\ Len(al_kernel') = 7 - k
         /\ plani' \in Planis /\ plani'.pc = (IF k = 6 THEN "codigo" ELSE "contexto")
         /\ plani'.pcb = plani.pcb /\ plani'.pedido = plani.pedido /\ Ultima' = Ultima
         /\ \A i \in 1 .. 7 - k : al_kernel'[i] = al_kernel[i + 1]
         /\ k = 0 => al_kernel'[1] = PalabraPc
         /\ k >= 1 => plani'.leidas[2] = PalabraPc
         /\ program_counter' = IF k = 6
                                 THEN [program_counter EXCEPT ![plani.pcb] = plani'.leidas[2][2]]
                                 ELSE program_counter
  BY CampoLeido, Zenon
<1>2. UNCHANGED <<manejando_contexto, al_cpu, inesperado, estado, al_cpu_int,
                  interrupt_pid, interrupciones, cpu, siguiente, caido>>
  BY DEF LeerCampo, EnPlani, slot
<1>3. plani.pcb \in Procesos /\ estado[plani.pcb] = "EXEC"
  BY <1>1 DEF Inv, EnSuLugar
<1>4. IF Ultima = Codigo("PROCESS_FINISHED") THEN PalabraPc[2] \in 0 .. Largo
      ELSE PalabraPc = <<"pc", siguiente[plani.pcb]>>
  BY <1>1 DEF Regresa
<1>5. /\ program_counter' \in [Procesos -> 0 .. Largo]
      /\ k = 6 => program_counter'[plani.pcb] = PalabraPc[2]
      /\ \A p \in Procesos \ {plani.pcb} : program_counter'[p] = program_counter[p]
  <2>1. program_counter \in [Procesos -> 0 .. Largo] /\ siguiente[plani.pcb] \in 0 .. Largo
    BY <1>3 DEF Inv, Tipos, TipoPcbs
  <2>2. PalabraPc[2] \in 0 .. Largo
    BY <1>4, <2>1
  <2> QED
    BY <1>1, <1>3, <2>1, <2>2
<1>6. Tipos'
  <2>1. TipoHilos'
    <3>1. cpu \in Cpus
      BY DEF Inv, Tipos, TipoHilos
    <3>2. Len(plani'.leidas) <= 7 /\ plani'.pc # "codigo_contexto"
      BY <1>1
    <3> QED
      BY <1>1, <1>2, <3>1, <3>2 DEF TipoHilos, Cuerpo
  <2>2. TipoEnchufe' /\ TipoSlot'
    BY <1>1, <1>2 DEF Inv, Tipos, TipoEnchufe, TipoSlot
  <2>3. TipoPcbs' /\ TipoResto'
    BY <1>2, <1>5 DEF Inv, Tipos, TipoPcbs, TipoResto
  <2> QED
    BY <2>1, <2>2, <2>3 DEF Tipos
<1>7. Regresa'
  <2>1. Leidas' = k + 2
    BY <1>1 DEF Leidas, Cuerpo
  <2>2. \A i \in 1 .. Len(al_kernel') - 1 : al_kernel'[i] \in DeContexto
    <3>1. \A i \in 1 .. 7 - k : al_kernel[i] \in DeContexto
      BY <1>1 DEF Regresa
    <3> SUFFICES ASSUME NEW i \in 1 .. Len(al_kernel') - 1
                 PROVE  al_kernel'[i] \in DeContexto
      OBVIOUS
    <3>2. i \in 1 .. 7 - k /\ i + 1 \in 1 .. 7 - k
      BY <1>1
    <3> QED
      BY <1>1, <3>1, <3>2
  <2>3. IF Ultima = Codigo("PROCESS_FINISHED") THEN PalabraPc'[2] \in 0 .. Largo
        ELSE PalabraPc' = <<"pc", siguiente[plani.pcb]>>
    <3>1. CASE k = 6
      <4>1. PalabraPc' = <<"pc", program_counter'[plani.pcb]>>
        BY <1>1, <3>1 DEF PalabraPc
      <4> QED
        BY <1>4, <1>5, <3>1, <4>1
    <3>2. CASE k # 6
      <4>1. PalabraPc' = PalabraPc
        BY <1>1, <2>1, <3>2 DEF PalabraPc
      <4> QED
        BY <1>4, <4>1
    <3> QED
      BY <3>1, <3>2
  <2>4. Len(al_kernel') = Cuerpo + 2 - Leidas'
    BY <1>1, <2>1 DEF Cuerpo
  <2>5. plani'.pc = "contexto" => Len(plani'.leidas) < Cuerpo
    BY <1>1 DEF Cuerpo
  <2>6. /\ plani'.pc \in {"codigo_contexto", "contexto", "codigo"}
        /\ plani'.pc # "codigo_contexto"
    BY <1>1
  <2> QED
    BY <1>1, <1>2, <2>2, <2>3, <2>4, <2>5, <2>6 DEF Regresa
<1>8. Banderas' /\ ~inesperado'
  BY <1>2 DEF Inv, Banderas
<1>9. EnSuLugar'
  BY <1>1, <1>2, <1>3, <1>5 DEF Inv, EnSuLugar
<1> QED
  BY <1>6, <1>7, <1>8, <1>9 DEF Inv, Conversacion

LEMMA LeerPedidoInv ==
  ASSUME Inv, LeerPedido
  PROVE  Inv'
<1>1. /\ plani.pc = "codigo" /\ LeePalabra
      /\ UNCHANGED <<program_counter, manejando_contexto, al_cpu, estado, al_cpu_int,
                     interrupt_pid, interrupciones, cpu, siguiente, caido>>
  BY DEF LeerPedido, EnPlani, slot
<1>2. /\ Regresa /\ al_kernel \in Seq(DeKernel) /\ al_kernel' \in Seq(DeKernel)
      /\ Len(al_kernel') = Len(al_kernel) - 1 /\ Head(al_kernel) = al_kernel[1]
  BY <1>1, LeePalabraInv
<1>3. Len(al_kernel) = 1 /\ Head(al_kernel) = Ultima /\ al_kernel' = <<>>
  BY <1>1, <1>2, Vacia DEF Regresa, Leidas, Cuerpo, Ultima
<1>4. PICK q \in Pedidos : Head(al_kernel) = Codigo(q)
  BY <1>2, <1>3 DEF Regresa
<1>5. /\ plani' = [plani EXCEPT !.pc = "atiende", !.pedido = q]
      /\ inesperado' = inesperado
  <2>1. /\ plani' = [plani EXCEPT !.pc = "atiende", !.pedido = Head(al_kernel)[2]]
        /\ inesperado' = (inesperado \/ ~TRUE)
    <3>1. (\E x \in Pedidos : Head(al_kernel) = Codigo(x)) = TRUE
      BY <1>4
    <3> QED
      BY <3>1 DEF LeerPedido
  <2>2. Head(al_kernel)[2] = q
    BY <1>4, Codigos
  <2> QED
    BY <2>1, <2>2 DEF Inv, Tipos, TipoResto
<1>6. plani \in Planis /\ plani' \in Planis /\ plani'.pc = "atiende" /\ plani'.pcb = plani.pcb
      /\ plani'.pedido = q /\ plani'.leidas = plani.leidas
  BY <1>5 DEF Inv, Tipos, TipoHilos, Planis, Lugares
<1>7. Tipos'
  <2>1. TipoHilos'
    BY <1>1, <1>6 DEF Inv, Tipos, TipoHilos
  <2>2. TipoEnchufe' /\ TipoSlot'
    BY <1>1, <1>2 DEF Inv, Tipos, TipoEnchufe, TipoSlot
  <2>3. TipoPcbs' /\ TipoResto'
    BY <1>1, <1>5 DEF Inv, Tipos, TipoPcbs, TipoResto
  <2> QED
    BY <2>1, <2>2, <2>3 DEF Tipos
<1>8. Atendida'
  <2>1. (cpu.pc = "respuesta") = (q \in ConRespuesta)
    BY <1>2, <1>3, <1>4, Codigos DEF Regresa
  <2>2. q # "PROCESS_FINISHED" => program_counter[plani.pcb] = siguiente[plani.pcb]
    BY <1>1, <1>2, <1>3, <1>4, Codigos DEF Regresa, PalabraPc
  <2> QED
    BY <1>1, <1>2, <1>3, <1>6, <2>1, <2>2 DEF Atendida, Regresa
<1>9. Banderas' /\ EnSuLugar' /\ ~inesperado'
  BY <1>1, <1>5, <1>6 DEF Inv, Banderas, EnSuLugar
<1> QED
  BY <1>7, <1>8, <1>9 DEF Inv, Conversacion

\* Only the requests the CPU waits for are answered.
LEMMA EnResultados ==
  ASSUME NEW q \in Pedidos, NEW r \in Resultados(q)
  PROVE  /\ r[1] \in Respuestas \cup {"NADA"} /\ r[2] \in {"READY", "EXEC", "BLOCK", "FIN"}
         /\ (r[1] # "NADA") = (q \in ConRespuesta)
         /\ q = "PROCESS_FINISHED" => r[2] = "FIN"
<1>1. CASE q \in ConRespuesta
  BY <1>1 DEF Resultados, ConRespuesta, Respuestas
<1>2. CASE q \in SinRespuesta
  BY <1>2 DEF Resultados, SinRespuesta, ConRespuesta, Respuestas
<1>3. CASE q \in {"SLEEP_BLOQUEANTE", "PAGE_FAULT", "DESALOJO", "PROCESS_FINISHED"}
  BY <1>3 DEF Resultados, ConRespuesta, Respuestas
<1> QED
  BY <1>1, <1>2, <1>3 DEF Pedidos

LEMMA AtenderInv ==
  ASSUME Inv, Atender
  PROVE  Inv'
<1>1. PICK r \in Resultados(plani.pedido) :
        /\ al_cpu' = Contesta(r[1])
        /\ estado' = IF r[2] = "READY" /\ estado[plani.pcb] = "FIN" THEN estado
                     ELSE [estado EXCEPT ![plani.pcb] = r[2]]
        /\ manejando_contexto' \in Suelta(plani.pedido, r[1])
        /\ plani' = [plani EXCEPT !.pc = IF r[2] = "EXEC" THEN "redespacha" ELSE "elige"]
  BY DEF Atender
<1>2. /\ plani.pc = "atiende"
      /\ UNCHANGED <<program_counter, al_kernel, al_cpu_int, interrupt_pid, interrupciones,
                     cpu, siguiente, inesperado, caido>>
  BY DEF Atender, slot
<1>3. Atendida
  BY <1>2 DEF Inv, Conversacion, Quieta, Viaja, Corre, Regresa
<1>4. /\ plani \in Planis /\ plani.pcb \in Procesos /\ estado[plani.pcb] = "EXEC"
      /\ estado \in [Procesos -> {"READY", "EXEC", "BLOCK", "FIN"}]
      /\ manejando_contexto \subseteq Procesos
  BY <1>2 DEF Inv, Tipos, TipoHilos, TipoPcbs, EnSuLugar
<1>5. /\ r[1] \in Respuestas \cup {"NADA"} /\ r[2] \in {"READY", "EXEC", "BLOCK", "FIN"}
      /\ (r[1] # "NADA") = (plani.pedido \in ConRespuesta)
      /\ plani.pedido = "PROCESS_FINISHED" => r[2] = "FIN"
  BY <1>3, EnResultados DEF Atendida
<1>6. /\ estado' = [estado EXCEPT ![plani.pcb] = r[2]]
      /\ estado' \in [Procesos -> {"READY", "EXEC", "BLOCK", "FIN"}]
  BY <1>1, <1>4, <1>5
<1>7. manejando_contexto' \subseteq Procesos
  BY <1>1, <1>4 DEF Suelta
<1>8. /\ plani' \in Planis /\ plani'.pcb = plani.pcb /\ plani'.leidas = plani.leidas
      /\ plani'.pc = (IF r[2] = "EXEC" THEN "redespacha" ELSE "elige")
  <2>1. CASE r[2] = "EXEC"
    BY <1>1, <1>4, <2>1 DEF Planis, Lugares
  <2>2. CASE r[2] # "EXEC"
    BY <1>1, <1>4, <2>2 DEF Planis, Lugares
  <2> QED
    BY <2>1, <2>2
<1>9. /\ al_cpu' \in Seq(DeCpu)
      /\ Len(al_cpu') = IF plani.pedido \in ConRespuesta THEN 1 ELSE 0
  <2>1. CASE r[1] = "NADA"
    <3>1. al_cpu' = <<>>
      BY <1>1, <1>3, <2>1 DEF Contesta, Atendida
    <3> QED
      BY <1>5, <2>1, <3>1
  <2>2. CASE r[1] # "NADA"
    <3>1. al_cpu' = <<Codigo(r[1])>>
      BY <1>1, <1>3, <2>2 DEF Contesta, Atendida
    <3>2. Codigo(r[1]) \in DeCpu
      BY <1>5, <2>2 DEF DeCpu
    <3> QED
      BY <1>5, <2>2, <3>1, <3>2
  <2> QED
    BY <2>1, <2>2
<1>10. Tipos'
  <2>1. TipoHilos'
    BY <1>2, <1>8 DEF Inv, Tipos, TipoHilos
  <2>2. TipoEnchufe' /\ TipoSlot'
    BY <1>2, <1>9 DEF Inv, Tipos, TipoEnchufe, TipoSlot
  <2>3. TipoPcbs' /\ TipoResto'
    BY <1>2, <1>6, <1>7 DEF Inv, Tipos, TipoPcbs, TipoResto
  <2> QED
    BY <2>1, <2>2, <2>3 DEF Tipos
<1>11. Quieta'
  BY <1>2, <1>3, <1>8, <1>9 DEF Atendida, Quieta, Contestada
<1>12. Banderas' /\ ~inesperado'
  BY <1>2 DEF Inv, Banderas
<1>13. EnSuLugar'
  BY <1>2, <1>3, <1>4, <1>5, <1>6, <1>8 DEF Inv, EnSuLugar, Atendida
<1> QED
  BY <1>10, <1>11, <1>12, <1>13 DEF Inv, Conversacion

-----------------------------------------------------------------------------
(* The other threads of the kernel, and the interrupt thread of the CPU *)

LEMMA DesbloquearInv ==
  ASSUME Inv, NEW p \in Procesos, Desbloquear(p)
  PROVE  Inv'
<1>1. /\ estado[p] = "BLOCK" /\ estado' = [estado EXCEPT ![p] = "READY"]
      /\ UNCHANGED <<program_counter, manejando_contexto, plani, al_cpu, al_kernel, al_cpu_int,
                     interrupt_pid, interrupciones, cpu, siguiente, inesperado, caido>>
  BY DEF Desbloquear, enchufe, slot
<1>2. Tipos'
  <2>1. TipoPcbs'
    BY <1>1 DEF Inv, Tipos, TipoPcbs
  <2>2. TipoHilos' /\ TipoEnchufe' /\ TipoSlot' /\ TipoResto'
    BY <1>1 DEF Inv, Tipos, TipoHilos, TipoEnchufe, TipoSlot, TipoResto
  <2> QED
    BY <2>1, <2>2 DEF Tipos
<1>3. Conversacion'
  BY <1>1 DEF Inv, Conversacion, Quieta, Viaja, Corre, Regresa, Atendida, Contestada, Leidas,
     PalabraPc, Ultima
<1>4. Banderas' /\ ~inesperado'
  BY <1>1 DEF Inv, Banderas
<1>5. EnSuLugar'
  BY <1>1 DEF Inv, EnSuLugar, Tipos, TipoPcbs
<1> QED
  BY <1>2, <1>3, <1>4, <1>5 DEF Inv

\* The conversation does not depend on the interruptions.
LEMMA SlotInv ==
  ASSUME Inv, TipoSlot',
         UNCHANGED <<program_counter, estado, manejando_contexto, plani, al_cpu, al_kernel, cpu,
                     siguiente, inesperado, caido>>
  PROVE  Inv'
<1>1. Tipos'
  BY DEF Inv, Tipos, TipoPcbs, TipoHilos, TipoEnchufe, TipoResto
<1>2. Conversacion'
  BY DEF Inv, Conversacion, Quieta, Viaja, Corre, Regresa, Atendida, Contestada, Leidas,
     PalabraPc, Ultima
<1>3. Banderas' /\ EnSuLugar' /\ ~inesperado'
  BY DEF Inv, Banderas, EnSuLugar
<1> QED
  BY <1>1, <1>2, <1>3 DEF Inv

LEMMA EnviarInterrupcionInv ==
  ASSUME Inv, NEW p \in Procesos, EnviarInterrupcion(p)
  PROVE  Inv'
<1>1. TipoSlot'
  <2>1. /\ al_cpu_int \in Seq(Procesos) /\ interrupt_pid \in Procesos \cup {NULO}
        /\ interrupciones \in 0 .. MaxInterrupciones
    BY DEF Inv, Tipos, TipoSlot
  <2>2. /\ interrupciones < MaxInterrupciones /\ interrupciones' = interrupciones + 1
        /\ al_cpu_int' = Append(al_cpu_int, p) /\ interrupt_pid' = interrupt_pid
    BY DEF EnviarInterrupcion
  <2>3. al_cpu_int' \in Seq(Procesos)
    BY <2>1, <2>2, AppendProperties
  <2>4. interrupciones' \in 0 .. MaxInterrupciones
    BY <2>1, <2>2, CpuOK
  <2> QED
    BY <2>1, <2>2, <2>3, <2>4 DEF TipoSlot
<1> QED
  BY <1>1, SlotInv DEF EnviarInterrupcion, nucleo, pcbs, enchufe

LEMMA RecibirInterrupcionInv ==
  ASSUME Inv, RecibirInterrupcion
  PROVE  Inv'
<1>1. TipoSlot'
  BY HeadTailProperties DEF RecibirInterrupcion, Inv, Tipos, TipoSlot
<1> QED
  BY <1>1, SlotInv DEF RecibirInterrupcion, nucleo, pcbs, enchufe

-----------------------------------------------------------------------------
(* The cycle of the CPU *)

LEMMA TomaInv ==
  ASSUME Inv, cpu.pc \in {"escucha", "reasigna"}, NEW c \in Cpus, ~c.devuelto, ~c.termina,
         Toma(c),
         UNCHANGED <<nucleo, al_kernel, slot, siguiente, inesperado, caido>>
  PROVE  Inv'
<1>1. UNCHANGED <<program_counter, estado, manejando_contexto, plani, al_kernel, al_cpu_int,
                  interrupt_pid, interrupciones, siguiente, inesperado, caido>>
  BY DEF nucleo, pcbs, slot
<1>2. al_cpu \in Seq(DeCpu) /\ Len(al_cpu) > 7
  BY DEF Toma, Cuerpo, Inv, Tipos, TipoEnchufe
<1>3. Viaja /\ Len(al_cpu) = 8
  <2>1. ~Quieta /\ ~Corre /\ ~Regresa /\ ~Atendida
    BY <1>2 DEF Quieta, Corre, Regresa, Atendida, Contestada
  <2>2. Viaja
    BY <2>1 DEF Inv, Conversacion
  <2> QED
    BY <2>2 DEF Viaja, Contestada, Cuerpo
<1>4. al_cpu[2] = <<"id", plani.pcb>> /\ al_cpu[3] = <<"pc", siguiente[plani.pcb]>>
  BY <1>3 DEF Viaja, Cuerpo
<1>5. plani.pcb \in Procesos /\ siguiente[plani.pcb] \in 0 .. Largo
  BY <1>3 DEF Inv, Tipos, TipoPcbs, EnSuLugar, Viaja
<1>6. cpu' = [c EXCEPT !.pc = "ejecuta", !.id = plani.pcb, !.contador = siguiente[plani.pcb],
                       !.vivo = TRUE, !.esperando = FALSE]
  BY <1>4 DEF Toma
<1>7. /\ cpu' \in Cpus /\ cpu'.pc = "ejecuta" /\ cpu'.id = plani.pcb /\ cpu'.vivo
      /\ cpu'.contador = siguiente[plani.pcb] /\ ~cpu'.esperando /\ ~cpu'.devuelto
      /\ ~cpu'.termina
  BY <1>5, <1>6 DEF Cpus
<1>8. al_cpu' = <<>>
  BY <1>2, <1>3, SubSeqProperties, EmptySeq DEF Toma, Cuerpo
<1>9. Tipos'
  <2>1. TipoHilos' /\ TipoPcbs' /\ TipoResto'
    BY <1>1, <1>7 DEF Inv, Tipos, TipoHilos, TipoPcbs, TipoResto
  <2>2. TipoEnchufe' /\ TipoSlot'
    BY <1>1, <1>8 DEF Inv, Tipos, TipoEnchufe, TipoSlot
  <2> QED
    BY <2>1, <2>2 DEF Tipos
<1>10. Corre'
  BY <1>1, <1>3, <1>7, <1>8 DEF Viaja, Corre
<1>11. Banderas' /\ ~inesperado'
  BY <1>1, <1>5, <1>7 DEF Banderas, Inv
<1>12. EnSuLugar'
  BY <1>1 DEF Inv, EnSuLugar
<1> QED
  BY <1>9, <1>10, <1>11, <1>12 DEF Inv, Conversacion

LEMMA RecibirInv ==
  ASSUME Inv, Recibir
  PROVE  Inv'
<1> DEFINE c == [cpu EXCEPT !.devuelto = FALSE, !.termina = FALSE]
<1>1. c \in Cpus /\ ~c.devuelto /\ ~c.termina
  BY DEF Inv, Tipos, TipoHilos, Cpus
<1>2. /\ cpu.pc \in {"escucha", "reasigna"} /\ Toma(c)
      /\ UNCHANGED <<nucleo, al_kernel, slot, siguiente, inesperado, caido>>
  BY DEF Recibir, EnCpu, slot
<1> HIDE DEF c
<1> QED
  BY <1>1, <1>2, TomaInv

LEMMA ReasignarInv ==
  ASSUME Inv, Reasignar
  PROVE  Inv'
<1>1. cpu \in Cpus /\ ~cpu.devuelto /\ ~cpu.termina
  BY DEF Inv, Tipos, TipoHilos, Banderas, Reasignar
<1>2. /\ cpu.pc \in {"escucha", "reasigna"} /\ Toma(cpu)
      /\ UNCHANGED <<nucleo, al_kernel, slot, siguiente, inesperado, caido>>
  BY DEF Reasignar, EnCpu, slot
<1> QED
  BY <1>1, <1>2, TomaInv

\* While the CPU has a context the planner waits for it, and the program is in EXEC.
LEMMA ConContexto ==
  ASSUME Inv, cpu.vivo
  PROVE  /\ Corre /\ cpu.id = plani.pcb /\ cpu.id \in Procesos /\ estado[cpu.id] = "EXEC"
         /\ cpu.contador = siguiente[cpu.id] /\ cpu \in Cpus /\ cpu.contador \in 0 .. Largo
         /\ ~cpu.esperando /\ ~cpu.devuelto /\ ~cpu.termina
         /\ siguiente \in [Procesos -> 0 .. Largo]
<1>1. Corre
  BY DEF Inv, Conversacion, Quieta, Viaja, Regresa, Atendida
<1> QED
  BY <1>1 DEF Corre, Inv, Banderas, EnSuLugar, Tipos, TipoHilos, TipoPcbs, Cpus

LEMMA OperarInv ==
  ASSUME Inv, NEW n \in 1 .. Largo - 1, Operar(n)
  PROVE  Inv'
<1>1. /\ cpu.pc = "ejecuta" /\ cpu' = [cpu EXCEPT !.pc = "mira", !.contador = n]
      /\ siguiente' = [siguiente EXCEPT ![cpu.id] = n]
      /\ UNCHANGED <<program_counter, estado, manejando_contexto, plani, al_cpu, al_kernel,
                     al_cpu_int, interrupt_pid, interrupciones, inesperado, caido>>
  BY DEF Operar, Ejecuta, Hecha, EnCpu, nucleo, pcbs, enchufe
<1>2. /\ Corre /\ cpu.id = plani.pcb /\ cpu.id \in Procesos /\ estado[cpu.id] = "EXEC"
      /\ cpu \in Cpus /\ ~cpu.esperando /\ ~cpu.devuelto /\ ~cpu.termina /\ cpu.vivo
      /\ siguiente \in [Procesos -> 0 .. Largo]
  BY <1>1, ConContexto DEF Inv, Banderas
<1>3. n \in 0 .. Largo
  BY CpuOK
<1>4. /\ cpu' \in Cpus /\ cpu'.pc = "mira" /\ cpu'.contador = n /\ cpu'.id = cpu.id /\ cpu'.vivo
      /\ ~cpu'.esperando /\ ~cpu'.devuelto /\ ~cpu'.termina
  BY <1>1, <1>2, <1>3 DEF Cpus
<1>5. /\ siguiente' \in [Procesos -> 0 .. Largo] /\ siguiente'[cpu.id] = n
      /\ \A p \in Procesos \ {cpu.id} : siguiente'[p] = siguiente[p]
  BY <1>1, <1>2, <1>3
<1>6. Tipos'
  <2>1. TipoHilos' /\ TipoPcbs' /\ TipoResto'
    BY <1>1, <1>4, <1>5 DEF Inv, Tipos, TipoHilos, TipoPcbs, TipoResto
  <2>2. TipoEnchufe' /\ TipoSlot'
    BY <1>1 DEF Inv, Tipos, TipoEnchufe, TipoSlot
  <2> QED
    BY <2>1, <2>2 DEF Tipos
<1>7. Corre'
  BY <1>1, <1>2, <1>4 DEF Corre
<1>8. Banderas' /\ ~inesperado'
  BY <1>1, <1>2, <1>4, <1>5 DEF Banderas, Inv
<1>9. EnSuLugar'
  BY <1>1, <1>2, <1>5 DEF Inv, EnSuLugar, Corre
<1> QED
  BY <1>6, <1>7, <1>8, <1>9 DEF Inv, Conversacion

\* What the actions that send the context back have in common.
LEMMA DevolverInv ==
  ASSUME Inv, cpu.vivo, NEW q \in Pedidos,
         al_kernel' \in Seq(DeKernel), Len(al_kernel') = 9, al_kernel'[1] = Codigo("CONTEXTO"),
         al_kernel'[9] = Codigo(q), \A i \in 1 .. 8 : al_kernel'[i] \in DeContexto,
         siguiente' \in [Procesos -> 0 .. Largo],
         \A p \in Procesos \ {cpu.id} : siguiente'[p] = siguiente[p],
         IF q = "PROCESS_FINISHED" THEN al_kernel'[3][2] \in 0 .. Largo
                                   ELSE al_kernel'[3] = <<"pc", siguiente'[cpu.id]>>,
         cpu' \in Cpus, cpu'.id = cpu.id, ~cpu'.vivo,
         (cpu'.pc = "respuesta") = (q \in ConRespuesta), Banderas',
         interrupt_pid' \in Procesos \cup {NULO}, caido' \in BOOLEAN,
         UNCHANGED <<nucleo, al_cpu, al_cpu_int, interrupciones, inesperado>>
  PROVE  Inv'
<1>1. UNCHANGED <<program_counter, estado, manejando_contexto, plani, al_cpu, al_cpu_int,
                  interrupciones, inesperado>>
  BY DEF nucleo, pcbs
<1>2. Corre /\ cpu.id = plani.pcb /\ cpu.id \in Procesos /\ estado[cpu.id] = "EXEC"
  BY ConContexto
<1>3. Tipos'
  <2>1. TipoHilos' /\ TipoPcbs' /\ TipoResto'
    BY <1>1 DEF Inv, Tipos, TipoHilos, TipoPcbs, TipoResto
  <2>2. TipoEnchufe' /\ TipoSlot'
    BY <1>1 DEF Inv, Tipos, TipoEnchufe, TipoSlot
  <2> QED
    BY <2>1, <2>2 DEF Tipos
<1>4. Regresa'
  <2>1. plani'.pc = "codigo_contexto" /\ al_cpu' = <<>> /\ plani'.pcb = plani.pcb
    BY <1>1, <1>2 DEF Corre
  <2>2. Leidas' = 0 /\ PalabraPc' = al_kernel'[3] /\ Ultima' = Codigo(q)
    BY <2>1 DEF Leidas, PalabraPc, Ultima
  <2>3. /\ Ultima' \in {Codigo(x) : x \in Pedidos}
        /\ (Ultima' \in {Codigo(x) : x \in ConRespuesta}) = (q \in ConRespuesta)
        /\ (Ultima' = Codigo("PROCESS_FINISHED")) = (q = "PROCESS_FINISHED")
    BY <2>2, Codigos
  <2>4. Len(al_kernel') = Cuerpo + 2 - Leidas'
    BY <2>2 DEF Cuerpo
  <2>5. IF Ultima' = Codigo("PROCESS_FINISHED") THEN PalabraPc'[2] \in 0 .. Largo
        ELSE PalabraPc' = <<"pc", siguiente'[plani'.pcb]>>
    BY <1>2, <2>1, <2>2, <2>3
  <2>6. \A i \in 1 .. Len(al_kernel') - 1 : al_kernel'[i] \in DeContexto
    OBVIOUS
  <2> QED
    BY <1>2, <2>1, <2>3, <2>4, <2>5, <2>6 DEF Regresa
<1>5. EnSuLugar'
  BY <1>1, <1>2 DEF Inv, EnSuLugar, Corre
<1> QED
  BY <1>1, <1>3, <1>4, <1>5 DEF Inv, Conversacion

LEMMA PedirInv ==
  ASSUME Inv, NEW q \in ConRespuesta \cup SinRespuesta \cup {"SLEEP_BLOQUEANTE"}, Pedir(q)
  PROVE  Inv'
<1>1. /\ cpu.pc = "ejecuta" /\ cpu.contador < Largo - 1
      /\ al_kernel' = al_kernel \o Contexto(cpu.id, cpu.contador + 1) \o <<Codigo(q)>>
      /\ cpu' = [cpu EXCEPT !.pc = IF q \in ConRespuesta THEN "respuesta" ELSE "mira",
                            !.contador = @ + 1, !.vivo = FALSE,
                            !.esperando = q \in SinRespuesta,
                            !.devuelto = q = "SLEEP_BLOQUEANTE"]
      /\ siguiente' = [siguiente EXCEPT ![cpu.id] = cpu.contador + 1]
      /\ UNCHANGED <<nucleo, al_cpu, al_cpu_int, interrupciones, inesperado, interrupt_pid,
                     caido>>
  BY DEF Pedir, Ejecuta, Devuelve, Hecha, EnCpu
<1>2. /\ cpu.vivo /\ Corre /\ cpu.id \in Procesos /\ cpu \in Cpus /\ cpu.contador \in 0 .. Largo
      /\ ~cpu.termina /\ siguiente \in [Procesos -> 0 .. Largo]
  BY <1>1, ConContexto DEF Inv, Banderas
<1>3. q \in Pedidos /\ q # "PROCESS_FINISHED"
  BY DEF Pedidos, ConRespuesta, SinRespuesta
<1>4. cpu.contador + 1 \in 0 .. Largo
  BY <1>1, <1>2, CpuOK
<1>5. /\ al_kernel' \in Seq(DeKernel) /\ Len(al_kernel') = 9
      /\ al_kernel'[1] = Codigo("CONTEXTO") /\ al_kernel'[9] = Codigo(q)
      /\ al_kernel'[3] = <<"pc", cpu.contador + 1>>
      /\ \A i \in 1 .. 8 : al_kernel'[i] \in DeContexto
  <2>1. al_kernel' = <<>> \o Contexto(cpu.id, cpu.contador + 1) \o <<Codigo(q)>>
    BY <1>1, <1>2 DEF Corre
  <2>2. \A s : s = <<>> \o Contexto(cpu.id, cpu.contador + 1) \o <<Codigo(q)>> =>
             /\ s \in Seq(DeKernel) /\ Len(s) = 9 /\ s[1] = Codigo("CONTEXTO")
             /\ s[3] = <<"pc", cpu.contador + 1>> /\ s[9] = Codigo(q)
             /\ \A i \in 1 .. 8 : s[i] \in DeContexto
    BY <1>2, <1>3, <1>4, EnDevuelto
  <2> QED
    BY <2>1, <2>2, Zenon
<1>6. /\ siguiente' \in [Procesos -> 0 .. Largo] /\ siguiente'[cpu.id] = cpu.contador + 1
      /\ \A p \in Procesos \ {cpu.id} : siguiente'[p] = siguiente[p]
  BY <1>1, <1>2, <1>4
<1>7. /\ cpu' \in Cpus /\ cpu'.id = cpu.id /\ ~cpu'.vivo /\ ~cpu'.termina
      /\ cpu'.pc = (IF q \in ConRespuesta THEN "respuesta" ELSE "mira")
      /\ cpu'.esperando = (q \in SinRespuesta) /\ cpu'.devuelto = (q = "SLEEP_BLOQUEANTE")
  <2> DEFINE e == q \in SinRespuesta
             d == q = "SLEEP_BLOQUEANTE"
             lugar == IF q \in ConRespuesta THEN "respuesta" ELSE "mira"
  <2>1. e \in BOOLEAN /\ d \in BOOLEAN /\ lugar \in {"respuesta", "mira"}
    OBVIOUS
  <2>2. cpu' = [cpu EXCEPT !.pc = lugar, !.contador = cpu.contador + 1, !.vivo = FALSE,
                           !.esperando = e, !.devuelto = d]
    BY <1>1, <1>2 DEF Cpus
  <2> HIDE DEF e, d, lugar
  <2>3. /\ cpu' \in Cpus /\ cpu'.id = cpu.id /\ ~cpu'.vivo /\ ~cpu'.termina
        /\ cpu'.pc = lugar /\ cpu'.esperando = e /\ cpu'.devuelto = d
    BY <1>2, <1>4, <2>1, <2>2 DEF Cpus
  <2> QED
    BY <2>3 DEF e, d, lugar
<1>8. Banderas'
  BY <1>7 DEF Banderas, ConRespuesta, SinRespuesta
<1>9. interrupt_pid' \in Procesos \cup {NULO} /\ caido' \in BOOLEAN
  BY <1>1 DEF Inv, Tipos, TipoSlot, TipoResto
<1>10. (cpu'.pc = "respuesta") = (q \in ConRespuesta)
  BY <1>7
<1>11. IF q = "PROCESS_FINISHED" THEN al_kernel'[3][2] \in 0 .. Largo
                                 ELSE al_kernel'[3] = <<"pc", siguiente'[cpu.id]>>
  BY <1>3, <1>5, <1>6
<1> QED
  BY <1>1, <1>2, <1>3, <1>5, <1>6, <1>7, <1>8, <1>9, <1>10, <1>11, DevolverInv

LEMMA FaltarPaginaInv ==
  ASSUME Inv, FaltarPagina
  PROVE  Inv'
<1>1. /\ cpu.pc = "ejecuta"
      /\ al_kernel' = al_kernel \o Contexto(cpu.id, cpu.contador) \o <<Codigo("PAGE_FAULT")>>
      /\ cpu' = [cpu EXCEPT !.pc = "mira", !.vivo = FALSE, !.devuelto = TRUE]
      /\ siguiente' = siguiente
      /\ UNCHANGED <<nucleo, al_cpu, al_cpu_int, interrupciones, inesperado, interrupt_pid,
                     caido>>
  BY DEF FaltarPagina, Ejecuta, Devuelve, PcAlFaltar, EnCpu
<1>2. /\ cpu.vivo /\ Corre /\ cpu.id \in Procesos /\ cpu \in Cpus /\ cpu.contador \in 0 .. Largo
      /\ ~cpu.termina /\ ~cpu.esperando /\ cpu.contador = siguiente[cpu.id]
      /\ siguiente \in [Procesos -> 0 .. Largo]
  BY <1>1, ConContexto DEF Inv, Banderas
<1>3. "PAGE_FAULT" \in Pedidos /\ "PAGE_FAULT" \notin ConRespuesta
  BY DEF Pedidos, ConRespuesta
<1>4. /\ al_kernel' \in Seq(DeKernel) /\ Len(al_kernel') = 9
      /\ al_kernel'[1] = Codigo("CONTEXTO") /\ al_kernel'[9] = Codigo("PAGE_FAULT")
      /\ al_kernel'[3] = <<"pc", cpu.contador>>
      /\ \A i \in 1 .. 8 : al_kernel'[i] \in DeContexto
  <2>1. al_kernel' = <<>> \o Contexto(cpu.id, cpu.contador) \o <<Codigo("PAGE_FAULT")>>
    BY <1>1, <1>2 DEF Corre
  <2>2. \A s : s = <<>> \o Contexto(cpu.id, cpu.contador) \o <<Codigo("PAGE_FAULT")>> =>
             /\ s \in Seq(DeKernel) /\ Len(s) = 9 /\ s[1] = Codigo("CONTEXTO")
             /\ s[3] = <<"pc", cpu.contador>> /\ s[9] = Codigo("PAGE_FAULT")
             /\ \A i \in 1 .. 8 : s[i] \in DeContexto
    BY <1>2, <1>3, EnDevuelto
  <2> QED
    BY <2>1, <2>2, Zenon
<1>5. /\ cpu' \in Cpus /\ cpu'.id = cpu.id /\ ~cpu'.vivo /\ cpu'.pc = "mira" /\ cpu'.devuelto
  BY <1>1, <1>2 DEF Cpus
<1>6. Banderas' /\ (cpu'.pc = "respuesta") = ("PAGE_FAULT" \in ConRespuesta)
  BY <1>3, <1>5 DEF Banderas
<1>7. interrupt_pid' \in Procesos \cup {NULO} /\ caido' \in BOOLEAN
  BY <1>1 DEF Inv, Tipos, TipoSlot, TipoResto
<1>8. /\ siguiente' \in [Procesos -> 0 .. Largo]
      /\ \A p \in Procesos \ {cpu.id} : siguiente'[p] = siguiente[p]
      /\ IF "PAGE_FAULT" = "PROCESS_FINISHED"
           THEN al_kernel'[3][2] \in 0 .. Largo
           ELSE al_kernel'[3] = <<"pc", siguiente'[cpu.id]>>
  BY <1>1, <1>2, <1>4
<1> QED
  BY <1>1, <1>2, <1>3, <1>4, <1>5, <1>6, <1>7, <1>8, DevolverInv

LEMMA SalirInv ==
  ASSUME Inv, Salir
  PROVE  Inv'
<1>1. /\ cpu.pc = "ejecuta"
      /\ al_kernel' = al_kernel \o UltimasPalabras
      /\ cpu' = [cpu EXCEPT !.pc = "mira", !.vivo = FALSE, !.termina = TRUE]
      /\ interrupt_pid' = NULO
      /\ siguiente' = [siguiente EXCEPT ![cpu.id] = Largo]
      /\ UNCHANGED <<nucleo, al_cpu, al_cpu_int, interrupciones, inesperado, caido>>
  BY DEF Salir, Hecha, EnCpu
<1>2. /\ cpu.vivo /\ Corre /\ cpu.id \in Procesos /\ cpu \in Cpus
      /\ siguiente \in [Procesos -> 0 .. Largo]
  BY <1>1, ConContexto DEF Inv, Banderas
<1>3. "PROCESS_FINISHED" \in Pedidos /\ "PROCESS_FINISHED" \notin ConRespuesta
  BY DEF Pedidos, ConRespuesta
<1>4. /\ al_kernel' \in Seq(DeKernel) /\ Len(al_kernel') = 9
      /\ al_kernel'[1] = Codigo("CONTEXTO") /\ al_kernel'[9] = Codigo("PROCESS_FINISHED")
      /\ al_kernel'[3] = <<"dato", 0>>
      /\ \A i \in 1 .. 8 : al_kernel'[i] \in DeContexto
  <2>1. al_kernel' = <<>> \o UltimasPalabras
    BY <1>1, <1>2 DEF Corre
  <2> QED
    BY <2>1, EnUltimas
<1>5. /\ cpu' \in Cpus /\ cpu'.id = cpu.id /\ ~cpu'.vivo /\ cpu'.pc = "mira" /\ cpu'.termina
  BY <1>1, <1>2 DEF Cpus
<1>6. Banderas' /\ (cpu'.pc = "respuesta") = ("PROCESS_FINISHED" \in ConRespuesta)
  BY <1>3, <1>5 DEF Banderas
<1>7. interrupt_pid' \in Procesos \cup {NULO} /\ caido' \in BOOLEAN
  BY <1>1 DEF Inv, Tipos, TipoResto
<1>8. /\ siguiente' \in [Procesos -> 0 .. Largo]
      /\ \A p \in Procesos \ {cpu.id} : siguiente'[p] = siguiente[p]
  BY <1>1, <1>2, CpuOK
<1>9. IF "PROCESS_FINISHED" = "PROCESS_FINISHED"
        THEN al_kernel'[3][2] \in 0 .. Largo
        ELSE al_kernel'[3] = <<"pc", siguiente'[cpu.id]>>
  BY <1>4, CpuOK
<1> QED
  BY <1>1, <1>2, <1>3, <1>4, <1>5, <1>6, <1>7, <1>8, <1>9, DevolverInv

LEMMA LeerRespuestaInv ==
  ASSUME Inv, LeerRespuesta
  PROVE  Inv'
<1>1. /\ cpu.pc = "respuesta" /\ al_cpu # <<>> /\ al_cpu' = Tail(al_cpu)
      /\ cpu' = [cpu EXCEPT !.pc = "mira", !.esperando = Head(al_cpu) = Codigo("OK"),
                            !.devuelto = Head(al_cpu) # Codigo("OK")]
      /\ UNCHANGED <<program_counter, estado, manejando_contexto, plani, al_kernel, al_cpu_int,
                     interrupt_pid, interrupciones, siguiente, inesperado, caido>>
  BY DEF LeerRespuesta, EnCpu, nucleo, pcbs
<1>2. al_cpu \in Seq(DeCpu) /\ cpu \in Cpus /\ ~cpu.vivo
  BY <1>1 DEF Inv, Tipos, TipoHilos, TipoEnchufe, Banderas
<1>3. /\ al_cpu' \in Seq(DeCpu) /\ Len(al_cpu) >= 1 /\ Len(al_cpu') = Len(al_cpu) - 1
      /\ \A i \in 1 .. Len(al_cpu) - 1 : al_cpu'[i] = al_cpu[i + 1]
  BY <1>1, <1>2, Leida
<1>4. /\ cpu' \in Cpus /\ cpu'.id = cpu.id /\ ~cpu'.vivo /\ cpu'.pc = "mira"
      /\ cpu'.devuelto \/ cpu'.esperando
  <2> DEFINE e == Head(al_cpu) = Codigo("OK")
             d == Head(al_cpu) # Codigo("OK")
  <2>1. e \in BOOLEAN /\ d \in BOOLEAN /\ (e \/ d)
    OBVIOUS
  <2>2. cpu' = [cpu EXCEPT !.pc = "mira", !.esperando = e, !.devuelto = d]
    BY <1>1
  <2> HIDE DEF e, d
  <2> QED
    BY <1>2, <2>1, <2>2 DEF Cpus
<1>5. Tipos'
  <2>1. TipoHilos' /\ TipoPcbs' /\ TipoResto'
    BY <1>1, <1>4 DEF Inv, Tipos, TipoHilos, TipoPcbs, TipoResto
  <2>2. TipoEnchufe' /\ TipoSlot'
    BY <1>1, <1>3 DEF Inv, Tipos, TipoEnchufe, TipoSlot
  <2> QED
    BY <2>1, <2>2 DEF Tipos
<1>6. Quieta' \/ Viaja'
  <2>1. CASE Quieta
    BY <1>1, <1>3, <1>4, <2>1 DEF Quieta, Contestada
  <2>2. CASE Viaja
    <3>1. /\ Len(al_cpu) = 9 /\ al_cpu[3] = <<"id", plani.pcb>>
          /\ al_cpu[4] = <<"pc", siguiente[plani.pcb]>>
      BY <1>1, <2>2 DEF Viaja, Contestada, Cuerpo
    <3>2. /\ Len(al_cpu') = 8 /\ al_cpu'[2] = <<"id", plani.pcb>>
          /\ al_cpu'[3] = <<"pc", siguiente[plani.pcb]>>
      BY <1>3, <3>1
    <3>3. Len(al_cpu') - 7 + 1 = 2 /\ Len(al_cpu') - 7 + 2 = 3
      BY <3>2
    <3>4. plani.pc = "codigo_contexto" /\ al_kernel = <<>>
      BY <2>2 DEF Viaja
    <3>5. Contestada(Cuerpo + 1)'
      BY <1>4, <3>2 DEF Contestada, Cuerpo
    <3>6. /\ plani'.pc = "codigo_contexto" /\ al_kernel' = <<>> /\ plani'.pcb = plani.pcb
          /\ siguiente' = siguiente
      BY <1>1, <3>4
    <3>7. Viaja'
      BY <1>4, <3>2, <3>3, <3>5, <3>6 DEF Viaja, Cuerpo
    <3> QED
      BY <3>7
  <2>3. ~Corre /\ ~Regresa /\ ~Atendida
    BY <1>1 DEF Corre, Regresa, Atendida
  <2> QED
    BY <2>1, <2>2, <2>3 DEF Inv, Conversacion
<1>7. Banderas' /\ ~inesperado'
  BY <1>1, <1>4 DEF Banderas, Inv
<1>8. EnSuLugar'
  BY <1>1 DEF Inv, EnSuLugar
<1> QED
  BY <1>5, <1>6, <1>7, <1>8 DEF Inv, Conversacion

\* A step of the cycle that touches no socket, nor the answer it waits for.
LEMMA CicloInv ==
  ASSUME Inv, cpu' \in Cpus, cpu'.id = cpu.id, cpu'.vivo = cpu.vivo,
         cpu.pc # "respuesta", cpu'.pc # "respuesta", Banderas',
         interrupt_pid' \in Procesos \cup {NULO}, caido' \in BOOLEAN,
         UNCHANGED <<program_counter, estado, manejando_contexto, plani, al_cpu, al_kernel,
                     al_cpu_int, interrupciones, siguiente, inesperado>>
  PROVE  Inv'
<1>1. Tipos'
  BY DEF Inv, Tipos, TipoHilos, TipoPcbs, TipoResto, TipoEnchufe, TipoSlot
<1>2. Conversacion'
  BY DEF Inv, Conversacion, Quieta, Viaja, Corre, Regresa, Atendida, Contestada, Leidas,
     PalabraPc, Ultima
<1>3. EnSuLugar' /\ ~inesperado'
  BY DEF Inv, EnSuLugar
<1> QED
  BY <1>1, <1>2, <1>3 DEF Inv

LEMMA MirarInv ==
  ASSUME Inv, Mirar
  PROVE  Inv'
<1>1. PICK coincide \in Coincide :
        cpu' = [cpu EXCEPT !.pc = IF coincide THEN "interrumpe"
                                  ELSE IF cpu.termina \/ cpu.devuelto THEN "escucha"
                                  ELSE IF cpu.esperando THEN "reasigna" ELSE "ejecuta"]
  BY DEF Mirar
<1>2. /\ cpu.pc = "mira"
      /\ UNCHANGED <<program_counter, estado, manejando_contexto, plani, al_cpu, al_kernel,
                     al_cpu_int, interrupt_pid, interrupciones, siguiente, inesperado, caido>>
  BY DEF Mirar, EnCpu, nucleo, pcbs, enchufe
<1>3. cpu \in Cpus
  BY DEF Inv, Tipos, TipoHilos
<1> DEFINE lugar == IF coincide THEN "interrumpe"
                    ELSE IF cpu.termina \/ cpu.devuelto THEN "escucha"
                    ELSE IF cpu.esperando THEN "reasigna" ELSE "ejecuta"
<1>4. /\ lugar \in {"interrumpe", "escucha", "reasigna", "ejecuta"}
      /\ lugar = "escucha" => cpu.termina \/ cpu.devuelto
      /\ lugar = "reasigna" => cpu.esperando /\ ~cpu.termina /\ ~cpu.devuelto
      /\ lugar = "ejecuta" => ~cpu.esperando /\ ~cpu.termina /\ ~cpu.devuelto
  OBVIOUS
<1>5. cpu' = [cpu EXCEPT !.pc = lugar]
  BY <1>1
<1> HIDE DEF lugar
<1>6. /\ cpu' \in Cpus /\ cpu'.pc = lugar /\ cpu'.id = cpu.id /\ cpu'.vivo = cpu.vivo
      /\ cpu'.esperando = cpu.esperando /\ cpu'.devuelto = cpu.devuelto
      /\ cpu'.termina = cpu.termina /\ cpu'.contador = cpu.contador
  BY <1>3, <1>4, <1>5 DEF Cpus
<1>7. Banderas'
  <2>1. Banderas
    BY DEF Inv
  <2>2. CASE cpu.vivo
    BY <1>2, <1>4, <1>6, <2>1, <2>2 DEF Banderas
  <2>3. CASE ~cpu.vivo
    BY <1>2, <1>4, <1>6, <2>1, <2>3 DEF Banderas
  <2> QED
    BY <2>2, <2>3
<1>8. interrupt_pid' \in Procesos \cup {NULO} /\ caido' \in BOOLEAN
  BY <1>2 DEF Inv, Tipos, TipoSlot, TipoResto
<1>9. cpu.pc # "respuesta" /\ cpu'.pc # "respuesta"
  BY <1>2, <1>4, <1>6
<1> QED
  BY <1>2, <1>6, <1>7, <1>8, <1>9, CicloInv

\* enviar_contexto after an EXIT: the types are kept, and nothing else is left to keep.
LEMMA TrasDosLiberaciones ==
  ASSUME Inv, Interrumpir, cpu.termina
  PROVE  Siempre' /\ caido'
<1>1. cpu \in Cpus /\ ~cpu.vivo /\ al_kernel \in Seq(DeKernel)
  BY DEF Inv, Tipos, TipoHilos, TipoEnchufe, Banderas
<1>2. /\ cpu.pc = "interrumpe" /\ interrupt_pid' = NULO /\ caido' = cpu.termina
      /\ al_kernel' = al_kernel \o Basura
      /\ cpu' = [cpu EXCEPT !.pc = "escucha", !.vivo = FALSE]
      /\ UNCHANGED <<al_cpu, siguiente, program_counter, estado, manejando_contexto, plani,
                     al_cpu_int, interrupciones, inesperado>>
  BY <1>1 DEF Interrumpir, Desaloja, SinDesalojo, EnCpu, nucleo, pcbs
<1>3. /\ cpu' \in Cpus /\ ~cpu'.vivo /\ cpu'.pc = "escucha" /\ caido'
  BY <1>1, <1>2 DEF Cpus
<1>4. al_kernel' \in Seq(DeKernel)
  BY <1>1, <1>2, EnBasura
<1>5. Tipos'
  BY <1>2, <1>3, <1>4 DEF Inv, Tipos, TipoHilos, TipoPcbs, TipoResto, TipoEnchufe, TipoSlot
<1>6. Banderas' /\ EnSuLugar' /\ ~inesperado'
  BY <1>2, <1>3 DEF Inv, Banderas, EnSuLugar
<1> QED
  BY <1>3, <1>5, <1>6 DEF Siempre

LEMMA InterrumpirInv ==
  ASSUME Inv, Interrumpir, ~cpu.termina
  PROVE  Inv'
<1>1. /\ cpu.pc = "interrumpe" /\ interrupt_pid' = NULO
      /\ al_kernel' = IF cpu.vivo THEN al_kernel \o Contexto(cpu.id, cpu.contador)
                                                 \o <<Codigo("DESALOJO")>>
                      ELSE al_kernel
      /\ cpu' = [cpu EXCEPT !.pc = "escucha", !.vivo = FALSE]
      /\ caido' = cpu.termina
      /\ UNCHANGED <<al_cpu, siguiente, nucleo, al_cpu_int, interrupciones, inesperado>>
  BY DEF Interrumpir, Desaloja, SinDesalojo, EnCpu
<1>2. cpu \in Cpus /\ siguiente \in [Procesos -> 0 .. Largo]
  BY DEF Inv, Tipos, TipoHilos, TipoPcbs
<1>3. cpu' \in Cpus /\ cpu'.id = cpu.id /\ ~cpu'.vivo /\ cpu'.pc = "escucha"
  BY <1>1, <1>2 DEF Cpus
<1>4. Banderas' /\ caido' \in BOOLEAN /\ interrupt_pid' \in Procesos \cup {NULO}
  BY <1>1, <1>2, <1>3 DEF Banderas, Cpus
<1>5. CASE ~cpu.vivo
  <2>1. cpu'.vivo = cpu.vivo /\ cpu.pc # "respuesta" /\ cpu'.pc # "respuesta"
    BY <1>1, <1>2, <1>5 DEF Cpus
  <2>2. UNCHANGED <<program_counter, estado, manejando_contexto, plani, al_cpu, al_kernel,
                    al_cpu_int, interrupciones, siguiente, inesperado>>
    BY <1>1, <1>5 DEF nucleo, pcbs
  <2> QED
    BY <1>3, <1>4, <2>1, <2>2, CicloInv
<1>6. CASE cpu.vivo
  <2>1. /\ Corre /\ cpu.id \in Procesos /\ cpu.contador \in 0 .. Largo
        /\ cpu.contador = siguiente[cpu.id]
    BY <1>6, ConContexto
  <2>2. "DESALOJO" \in Pedidos /\ "DESALOJO" \notin ConRespuesta
    BY DEF Pedidos, ConRespuesta
  <2>3. /\ al_kernel' \in Seq(DeKernel) /\ Len(al_kernel') = 9
        /\ al_kernel'[1] = Codigo("CONTEXTO") /\ al_kernel'[9] = Codigo("DESALOJO")
        /\ al_kernel'[3] = <<"pc", cpu.contador>>
        /\ \A i \in 1 .. 8 : al_kernel'[i] \in DeContexto
    <3>1. al_kernel' = <<>> \o Contexto(cpu.id, cpu.contador) \o <<Codigo("DESALOJO")>>
      BY <1>1, <1>6, <2>1 DEF Corre
    <3>2. \A s : s = <<>> \o Contexto(cpu.id, cpu.contador) \o <<Codigo("DESALOJO")>> =>
               /\ s \in Seq(DeKernel) /\ Len(s) = 9 /\ s[1] = Codigo("CONTEXTO")
               /\ s[3] = <<"pc", cpu.contador>> /\ s[9] = Codigo("DESALOJO")
               /\ \A i \in 1 .. 8 : s[i] \in DeContexto
      BY <2>1, <2>2, EnDevuelto
    <3> QED
      BY <3>1, <3>2, Zenon
  <2>4. (cpu'.pc = "respuesta") = ("DESALOJO" \in ConRespuesta)
    BY <1>3, <2>2
  <2>5. /\ siguiente' \in [Procesos -> 0 .. Largo]
        /\ \A p \in Procesos \ {cpu.id} : siguiente'[p] = siguiente[p]
        /\ IF "DESALOJO" = "PROCESS_FINISHED"
             THEN al_kernel'[3][2] \in 0 .. Largo
             ELSE al_kernel'[3] = <<"pc", siguiente'[cpu.id]>>
    BY <1>1, <1>2, <2>1, <2>3
  <2> QED
    BY <1>1, <1>3, <1>4, <1>6, <2>2, <2>3, <2>4, <2>5, DevolverInv
<1> QED
  BY <1>5, <1>6

-----------------------------------------------------------------------------
(* Theorems *)

LEMMA PasoInv ==
  ASSUME Inv, [Next]_vars, ~(Interrumpir /\ cpu.termina)
  PROVE  Inv'
<1>1. CASE Nucleo
  BY <1>1, DespacharInv, RedespacharInv, LeerCodigoInv, LeerCampoInv, LeerPedidoInv, AtenderInv
  DEF Nucleo
<1>2. CASE Ciclo
  BY <1>2, RecibirInv, ReasignarInv, FaltarPaginaInv, SalirInv, LeerRespuestaInv, MirarInv,
     InterrumpirInv, OperarInv, PedirInv
  DEF Ciclo
<1>3. CASE RecibirInterrupcion
  BY <1>3, RecibirInterrupcionInv
<1>4. CASE \E p \in Procesos : Desbloquear(p) \/ EnviarInterrupcion(p)
  BY <1>4, DesbloquearInv, EnviarInterrupcionInv
<1>5. CASE UNCHANGED vars
  <2>1. UNCHANGED <<program_counter, estado, manejando_contexto, plani, al_cpu, al_kernel, cpu,
                    siguiente, inesperado, caido, al_cpu_int, interrupt_pid, interrupciones>>
    BY <1>5 DEF vars, nucleo, pcbs, enchufe, slot
  <2>2. TipoSlot'
    BY <2>1 DEF Inv, Tipos, TipoSlot
  <2> QED
    BY <2>1, <2>2, SlotInv
<1> QED
  BY <1>1, <1>2, <1>3, <1>4, <1>5 DEF Next

LEMMA PasoSiempre ==
  ASSUME Siempre, [Next]_vars
  PROVE  Siempre'
<1>1. CASE UNCHANGED vars
  <2>1. UNCHANGED <<program_counter, estado, manejando_contexto, plani, al_cpu, al_kernel, cpu,
                    siguiente, inesperado, caido, al_cpu_int, interrupt_pid, interrupciones>>
    BY <1>1 DEF vars, nucleo, pcbs, enchufe, slot
  <2>2. Tipos' /\ Banderas' /\ EnSuLugar' /\ ~inesperado'
    BY <2>1 DEF Siempre, Tipos, TipoPcbs, TipoHilos, TipoEnchufe, TipoSlot, TipoResto, Banderas,
       EnSuLugar
  <2>3. Conversacion => Conversacion'
    BY <2>1 DEF Conversacion, Quieta, Viaja, Corre, Regresa, Atendida, Contestada, Leidas,
       PalabraPc, Ultima
  <2> QED
    BY <2>1, <2>2, <2>3 DEF Siempre
<1>2. CASE Next
  <2>1. Inv
    BY <1>2 DEF Next, Siempre, Inv
  <2>2. CASE Interrumpir /\ cpu.termina
    BY <2>1, <2>2, TrasDosLiberaciones
  <2>3. CASE ~(Interrumpir /\ cpu.termina)
    BY <1>2, <2>1, <2>3, PasoInv DEF Siempre, Inv
  <2> QED
    BY <2>2, <2>3
<1> QED
  BY <1>1, <1>2

\* The invariant the others follow from: types, where the instruction cycle is with each request
\* and interruption, and, until a context is freed twice, what each side has sent and not yet
\* received.
THEOREM InvTeorema == Spec => []Siempre
<1>1. Init => Siempre
  BY InicioInv DEF Siempre, Inv
<1>2. Siempre /\ [Next]_vars => Siempre'
  BY PasoSiempre
<1> QED
  BY <1>1, <1>2, PTL DEF Spec

\* The words in the sockets and the variables of the CPU and of the planner keep their types,
\* however many interruptions arrive.
THEOREM TipoTeorema == Spec => []TipoOK
BY InvTeorema, InvTipo, PTL

\* Every program runs its instructions in their order, whatever way the pc goes and however
\* many programs there are.
THEOREM OrdenTeorema == Spec => []EnOrden
<1>1. Siempre => EnOrden
  BY DEF Siempre, Banderas, EnSuLugar, EnOrden
<1> QED
  BY <1>1, InvTeorema, PTL

\* The planner reads no code but those it expects, as long as the CPU lives.
THEOREM ComunicacionTeorema == Spec => []ComunicacionOK
<1>1. Siempre => ComunicacionOK
  BY DEF Siempre, ComunicacionOK
<1> QED
  BY <1>1, InvTeorema, PTL

-----------------------------------------------------------------------------
(* The refinement of Turno *)

\* Its two variables.
Llevado == IF plani.pc \in {"codigo_contexto", "contexto", "codigo"} /\ EnCamino = {}
           THEN plani.pcb ELSE NULO
Traido  == IF plani.pc = "atiende" THEN [de |-> cpu.id, que |-> plani.pedido]
           ELSE IF EnCamino # {} THEN [de |-> cpu.id, que |-> CHOOSE q \in EnCamino : TRUE]
           ELSE NULO

Fases ==
  /\ Quieta => Llevado = NULO /\ Traido = NULO
  /\ Viaja \/ Corre => Llevado = plani.pcb /\ Traido = NULO
  /\ Regresa => Llevado = NULO /\ Traido = [de |-> plani.pcb, que |-> Ultima[2]]
  /\ Atendida => Llevado = NULO /\ Traido = [de |-> plani.pcb, que |-> plani.pedido]

\* What the variables of Turno are in each phase of the conversation.
LEMMA EnFases == Inv => Fases
<1> SUFFICES ASSUME al_kernel \in Seq(DeKernel) PROVE Fases
  BY DEF Inv, Tipos, TipoEnchufe
<1>0. al_kernel = <<>> => EnCamino = {}
  BY DEF EnCamino
<1>1. Quieta => Llevado = NULO /\ Traido = NULO
  BY <1>0 DEF Quieta, Llevado, Traido
<1>2. Viaja \/ Corre => Llevado = plani.pcb /\ Traido = NULO
  BY <1>0 DEF Viaja, Corre, Llevado, Traido
<1>3. Regresa => Llevado = NULO /\ Traido = [de |-> plani.pcb, que |-> Ultima[2]]
  <2> SUFFICES ASSUME Regresa
               PROVE  Llevado = NULO /\ Traido = [de |-> plani.pcb, que |-> Ultima[2]]
    OBVIOUS
  <2>1. al_kernel # <<>>
    <3>1. CASE plani.pc = "contexto"
      <4>1. Len(al_kernel) = 9 - (1 + Len(plani.leidas)) /\ Len(plani.leidas) < 7
        BY <3>1 DEF Regresa, Leidas, Cuerpo
      <4> QED
        BY <4>1
    <3>2. CASE plani.pc \in {"codigo_contexto", "codigo"}
      <4>1. Len(al_kernel) # 0
        BY <3>2 DEF Regresa, Leidas, Cuerpo
      <4>2. al_kernel = <<>> => Len(al_kernel) = 0
        BY Vacia, Zenon
      <4> QED
        BY <4>1, <4>2, Zenon
    <3> QED
      BY <3>1, <3>2 DEF Regresa
  <2>2. PICK q \in Pedidos : Ultima = Codigo(q)
    BY DEF Regresa
  <2>3. Len(al_kernel) \in DOMAIN al_kernel /\ DOMAIN al_kernel = 1 .. Len(al_kernel)
    BY <2>1, Vacia
  <2>4. q \in EnCamino
    BY <2>2, <2>3 DEF EnCamino, Ultima
  <2>5. ASSUME NEW r \in EnCamino PROVE r = q
    <3>1. r \in Pedidos /\ \E i \in DOMAIN al_kernel : al_kernel[i] = Codigo(r)
      BY <2>5 DEF EnCamino
    <3>2. PICK i \in DOMAIN al_kernel : al_kernel[i] = Codigo(r)
      BY <3>1
    <3>3. r # "CONTEXTO"
      BY <3>1 DEF Pedidos, ConRespuesta, SinRespuesta
    <3>4. CASE i \in 1 .. Len(al_kernel) - 1
      <4>1. al_kernel[i] \in DeContexto
        BY <3>4 DEF Regresa
      <4> QED
        BY <3>2, <3>3, <4>1, Codigos DEF DeContexto
    <3>5. CASE i = Len(al_kernel)
      BY <2>2, <3>2, <3>5, Codigos DEF Ultima
    <3> QED
      BY <2>3, <3>2, <3>4, <3>5
  <2>6. EnCamino = {q} /\ Ultima[2] = q
    BY <2>2, <2>4, <2>5, Codigos
  <2> QED
    BY <2>6 DEF Regresa, Llevado, Traido
<1>4. Atendida => Llevado = NULO /\ Traido = [de |-> plani.pcb, que |-> plani.pedido]
  BY DEF Atendida, Llevado, Traido
<1> QED
  BY <1>1, <1>2, <1>3, <1>4 DEF Fases

LEMMA EnFasesPrima == Inv' => Fases'
BY EnFases, PTL

\* Its steps.
TurnoDespachar(p) ==
  Llevado = NULO /\ Traido = NULO /\ Llevado' = p /\ Traido' = Traido
TurnoDevolver(q) ==
  Llevado # NULO /\ Traido' = [de |-> Llevado, que |-> q] /\ Llevado' = NULO
TurnoAtender == Traido # NULO /\ Traido' = NULO /\ Llevado' = Llevado
TurnoSigue == Llevado' = Llevado /\ Traido' = Traido

LEMMA EnviarTurno ==
  ASSUME Inv, Inv', NEW p \in Procesos, plani.pc \in {"elige", "redespacha"}, Enviar(p)
  PROVE  TurnoDespachar(p)
<1>1. Quieta
  BY DEF Inv, Conversacion, Quieta, Viaja, Corre, Regresa, Atendida
<1>2. plani'.pc = "codigo_contexto" /\ plani'.pcb = p /\ al_kernel' = <<>> /\ cpu' = cpu
  BY <1>1 DEF Enviar, Quieta
<1>3. ~Quieta' /\ ~Atendida' /\ ~Corre'
  BY <1>1, <1>2 DEF Quieta, Atendida, Corre
<1>4. ~Regresa'
  BY <1>2 DEF Regresa, Leidas, Cuerpo
<1>5. Viaja'
  BY <1>3, <1>4 DEF Inv, Conversacion
<1> QED
  BY <1>1, <1>2, <1>5, EnFases, EnFasesPrima DEF Fases, TurnoDespachar

LEMMA LeerTurno ==
  ASSUME Inv, Inv', LeerCodigo \/ LeerCampo
  PROVE  TurnoSigue
<1>1. Regresa /\ Ultima' = Ultima /\ plani'.pcb = plani.pcb /\ plani'.pc \in {"contexto", "codigo"}
  <2>1. CASE LeerCampo
    <3>1. \E k \in 0 .. 6 : /\ Regresa /\ Ultima' = Ultima /\ plani'.pcb = plani.pcb
                            /\ plani'.pc = (IF k = 6 THEN "codigo" ELSE "contexto")
      BY <2>1, CampoLeido
    <3> QED
      BY <3>1
  <2>2. CASE LeerCodigo
    <3>1. plani.pc = "codigo_contexto" /\ LeePalabra /\ plani' = [plani EXCEPT !.pc = "contexto"]
      BY <2>2 DEF LeerCodigo
    <3>2. /\ Regresa /\ Len(al_kernel') = Len(al_kernel) - 1
          /\ \A i \in 1 .. Len(al_kernel) - 1 : al_kernel'[i] = al_kernel[i + 1]
      BY <3>1, LeePalabraInv
    <3>3. Len(al_kernel) = 9
      BY <3>1, <3>2 DEF Regresa, Leidas, Cuerpo
    <3>4. Ultima' = Ultima
      BY <3>2, <3>3 DEF Ultima
    <3> QED
      BY <3>1, <3>2, <3>4 DEF Inv, Tipos, TipoHilos, Planis
  <2> QED
    BY <2>1, <2>2
<1>2. Regresa'
  BY <1>1 DEF Inv, Conversacion, Quieta, Viaja, Corre, Atendida
<1> QED
  BY <1>1, <1>2, EnFases, EnFasesPrima DEF Fases, TurnoSigue

LEMMA LeerPedidoTurno ==
  ASSUME Inv, Inv', LeerPedido
  PROVE  TurnoSigue
<1>1. /\ plani.pc = "codigo" /\ LeePalabra /\ ~inesperado' /\ plani \in Planis
  BY DEF LeerPedido, Inv, Tipos, TipoHilos
<1>2. Regresa /\ Head(al_kernel) = al_kernel[1]
  BY <1>1, LeePalabraInv
<1>3. Ultima = Head(al_kernel)
  BY <1>1, <1>2 DEF Regresa, Leidas, Cuerpo, Ultima
<1>4. \E q \in Pedidos : Head(al_kernel) = Codigo(q)
  BY <1>2, <1>3 DEF Regresa
<1>5. plani' = [plani EXCEPT !.pc = "atiende", !.pedido = Ultima[2]]
  BY <1>3, <1>4 DEF LeerPedido
<1>6. plani'.pc = "atiende" /\ plani'.pedido = Ultima[2] /\ plani'.pcb = plani.pcb
  BY <1>1, <1>5 DEF Planis
<1>7. Atendida'
  BY <1>6 DEF Inv, Conversacion, Quieta, Viaja, Corre, Regresa
<1> QED
  BY <1>2, <1>6, <1>7, EnFases, EnFasesPrima DEF Fases, TurnoSigue

LEMMA AtenderTurno ==
  ASSUME Inv, Inv', Atender
  PROVE  TurnoAtender
<1>1. plani.pc = "atiende" /\ plani \in Planis
  BY DEF Atender, Inv, Tipos, TipoHilos
<1>2. Atendida /\ plani.pcb \in Procesos
  BY <1>1 DEF Inv, Conversacion, Quieta, Viaja, Corre, Regresa, EnSuLugar
<1>3. plani'.pc \in {"redespacha", "elige"}
  BY <1>1 DEF Atender, Planis
<1>4. Quieta'
  BY <1>3 DEF Inv, Conversacion, Viaja, Corre, Regresa, Atendida
<1>5. [de |-> plani.pcb, que |-> plani.pedido] # NULO
  BY <1>2, PedidosOK DEF Atendida
<1> QED
  BY <1>2, <1>4, <1>5, EnFases, EnFasesPrima DEF Fases, TurnoAtender

\* A step that does not change the phase, the planner or the last word.
LEMMA IgualTurno ==
  ASSUME UNCHANGED <<plani, al_kernel>>, UNCHANGED cpu.id
  PROVE  TurnoSigue
BY DEF TurnoSigue, Llevado, Traido, EnCamino

LEMMA TomaTurno ==
  ASSUME Inv, UNCHANGED <<plani, al_kernel>>, al_kernel = <<>>, plani.pc # "atiende"
  PROVE  TurnoSigue
BY DEF TurnoSigue, Llevado, Traido, EnCamino

LEMMA DevolverTurno ==
  ASSUME Inv, Inv', cpu.vivo, NEW q \in Pedidos, UNCHANGED plani,
         Len(al_kernel') = 9, al_kernel'[9] = Codigo(q)
  PROVE  TurnoDevolver(q)
<1>1. Corre /\ plani.pcb \in Procesos
  BY ConContexto
<1>2. Regresa'
  <2>1. al_kernel' # <<>>
    BY Vacia
  <2>2. ~Quieta' /\ ~Viaja' /\ ~Corre' /\ ~Atendida'
    BY <2>1 DEF Quieta, Viaja, Corre, Atendida
  <2> QED
    BY <2>2 DEF Inv, Conversacion
<1>3. Ultima'[2] = q
  BY Codigos DEF Ultima
<1> QED
  BY <1>1, <1>2, <1>3, CpuOK, EnFases, EnFasesPrima DEF Fases, TurnoDevolver

LEMMA NucleoTurno ==
  ASSUME Inv, Inv', Nucleo
  PROVE  TurnoSigue \/ TurnoAtender \/ \E p \in Procesos : TurnoDespachar(p)
<1>1. CASE \E p \in Procesos : Despachar(p)
  BY <1>1, EnviarTurno DEF Despachar
<1>2. CASE Redespachar
  <2>1. plani.pc = "redespacha" /\ plani.pcb \in Procesos /\ Enviar(plani.pcb)
    BY <1>2 DEF Redespachar, Inv, EnSuLugar
  <2> QED
    BY <2>1, EnviarTurno
<1>3. CASE LeerCodigo \/ LeerCampo
  BY <1>3, LeerTurno
<1>4. CASE LeerPedido
  BY <1>4, LeerPedidoTurno
<1>5. CASE Atender
  BY <1>5, AtenderTurno
<1> QED
  BY <1>1, <1>2, <1>3, <1>4, <1>5 DEF Nucleo

\* The words an instruction leaves in the empty socket of a CPU that has a context.
LEMMA Devueltas ==
  ASSUME Inv, cpu.pc = "ejecuta"
  PROVE  /\ cpu.vivo
         /\ \A q \in Pedidos, n \in 0 .. Largo :
              al_kernel' = al_kernel \o Contexto(cpu.id, n) \o <<Codigo(q)>> =>
                Len(al_kernel') = 9 /\ al_kernel'[9] = Codigo(q)
<1>1. cpu.vivo
  BY DEF Inv, Banderas
<1>2. al_kernel = <<>> /\ cpu.id \in Procesos
  BY <1>1, ConContexto DEF Corre
<1>3. ASSUME NEW q \in Pedidos, NEW n \in 0 .. Largo
      PROVE  \A s : s = <<>> \o Contexto(cpu.id, n) \o <<Codigo(q)>> =>
                      Len(s) = 9 /\ s[9] = Codigo(q)
  BY <1>2, EnDevuelto
<1> QED
  BY <1>1, <1>2, <1>3, Zenon

LEMMA CicloTurno ==
  ASSUME Inv, Inv', Ciclo, ~(Interrumpir /\ cpu.termina)
  PROVE  TurnoSigue \/ \E q \in Pedidos : TurnoDevolver(q)
<1>1. CASE Recibir \/ Reasignar
  <2>1. UNCHANGED <<plani, al_kernel>> /\ Len(al_cpu) > 7
    BY <1>1 DEF Recibir, Reasignar, Toma, EnCpu, nucleo, Cuerpo
  <2>2. ~Atendida /\ ~Regresa /\ ~Corre
    BY <2>1 DEF Atendida, Regresa, Corre
  <2>3. al_kernel = <<>> /\ plani.pc # "atiende"
    BY <2>2 DEF Inv, Conversacion, Quieta, Viaja
  <2> QED
    BY <2>1, <2>3, TomaTurno
<1>2. CASE LeerRespuesta \/ Mirar \/ \E n \in 1 .. Largo - 1 : Operar(n)
  <2>1. UNCHANGED <<plani, al_kernel>>
    BY <1>2 DEF LeerRespuesta, Mirar, Operar, EnCpu, nucleo, enchufe
  <2>2. cpu'.id = cpu.id
    BY <1>2 DEF LeerRespuesta, Mirar, Operar, Inv, Tipos, TipoHilos, Cpus
  <2> QED
    BY <2>1, <2>2, IgualTurno
<1>3. CASE \E q \in ConRespuesta \cup SinRespuesta \cup {"SLEEP_BLOQUEANTE"} : Pedir(q)
  <2>1. PICK q \in ConRespuesta \cup SinRespuesta \cup {"SLEEP_BLOQUEANTE"} : Pedir(q)
    BY <1>3
  <2>2. /\ cpu.pc = "ejecuta" /\ cpu.contador < Largo - 1 /\ UNCHANGED plani /\ q \in Pedidos
        /\ al_kernel' = al_kernel \o Contexto(cpu.id, cpu.contador + 1) \o <<Codigo(q)>>
    BY <2>1 DEF Pedir, Ejecuta, Devuelve, EnCpu, nucleo, Pedidos
  <2>3. cpu.contador + 1 \in 0 .. Largo
    BY <2>2, CpuOK DEF Inv, Tipos, TipoHilos, Cpus
  <2> QED
    BY <2>2, <2>3, Devueltas, DevolverTurno
<1>4. CASE FaltarPagina
  <2>1. /\ cpu.pc = "ejecuta" /\ UNCHANGED plani
        /\ al_kernel' = al_kernel \o Contexto(cpu.id, cpu.contador) \o <<Codigo("PAGE_FAULT")>>
    BY <1>4 DEF FaltarPagina, Ejecuta, Devuelve, PcAlFaltar, EnCpu, nucleo
  <2>2. cpu.contador \in 0 .. Largo /\ "PAGE_FAULT" \in Pedidos
    BY DEF Inv, Tipos, TipoHilos, Cpus, Pedidos
  <2> QED
    BY <2>1, <2>2, Devueltas, DevolverTurno
<1>5. CASE Salir
  <2>1. /\ cpu.pc = "ejecuta" /\ UNCHANGED plani /\ al_kernel' = al_kernel \o UltimasPalabras
    BY <1>5 DEF Salir, EnCpu, nucleo
  <2>2. cpu.vivo /\ al_kernel = <<>>
    BY <2>1, Devueltas, ConContexto DEF Corre
  <2>3. Len(al_kernel') = 9 /\ al_kernel'[9] = Codigo("PROCESS_FINISHED")
    BY <2>1, <2>2, EnUltimas
  <2>4. "PROCESS_FINISHED" \in Pedidos
    BY DEF Pedidos
  <2> QED
    BY <2>1, <2>2, <2>3, <2>4, DevolverTurno
<1>6. CASE Interrumpir
  <2>1. /\ UNCHANGED plani /\ cpu'.id = cpu.id
        /\ al_kernel' = IF cpu.vivo THEN al_kernel \o Contexto(cpu.id, cpu.contador)
                                                   \o <<Codigo("DESALOJO")>>
                        ELSE al_kernel
    BY <1>6 DEF Interrumpir, Desaloja, SinDesalojo, EnCpu, nucleo, Inv, Tipos, TipoHilos, Cpus
  <2>2. CASE ~cpu.vivo
    BY <2>1, <2>2, IgualTurno
  <2>3. CASE cpu.vivo
    <3>1. al_kernel = <<>> /\ cpu.id \in Procesos /\ cpu.contador \in 0 .. Largo
      BY <2>3, ConContexto DEF Corre
    <3>2. "DESALOJO" \in Pedidos
      BY DEF Pedidos
    <3>3. \A s : s = <<>> \o Contexto(cpu.id, cpu.contador) \o <<Codigo("DESALOJO")>> =>
                   Len(s) = 9 /\ s[9] = Codigo("DESALOJO")
      BY <3>1, <3>2, EnDevuelto
    <3>4. Len(al_kernel') = 9 /\ al_kernel'[9] = Codigo("DESALOJO")
      BY <2>1, <2>3, <3>1, <3>3, Zenon
    <3> QED
      BY <2>1, <2>3, <3>2, <3>4, DevolverTurno
  <2> QED
    BY <2>2, <2>3
<1> QED
  BY <1>1, <1>2, <1>3, <1>4, <1>5, <1>6 DEF Ciclo

\* The words after an EXIT change nothing of what is on its way.
LEMMA TrasDosTurno ==
  ASSUME Inv, Interrumpir, cpu.termina
  PROVE  TurnoSigue
<1>1. al_kernel \in Seq(DeKernel) /\ ~cpu.vivo /\ cpu \in Cpus
  BY DEF Inv, Tipos, TipoEnchufe, TipoHilos, Banderas
<1>2. /\ al_kernel' = al_kernel \o Basura /\ UNCHANGED plani
      /\ cpu' = [cpu EXCEPT !.pc = "escucha", !.vivo = FALSE]
  BY <1>1 DEF Interrumpir, Desaloja, SinDesalojo, EnCpu, nucleo
<1>3. cpu'.id = cpu.id
  BY <1>1, <1>2 DEF Cpus
<1>4. EnCamino' = EnCamino
  BY <1>1, <1>2, EnBasura DEF EnCamino
<1> QED
  BY <1>2, <1>3, <1>4 DEF TurnoSigue, Llevado, Traido

LEMMA PasoTurno ==
  ASSUME Inv, Inv', [Next]_vars, ~(Interrumpir /\ cpu.termina)
  PROVE  TurnoSigue \/ TurnoAtender \/ (\E p \in Procesos : TurnoDespachar(p))
           \/ (\E q \in Pedidos : TurnoDevolver(q))
<1>1. CASE Nucleo
  BY <1>1, NucleoTurno
<1>2. CASE Ciclo
  BY <1>2, CicloTurno
<1>3. CASE RecibirInterrupcion \/ \E p \in Procesos : Desbloquear(p) \/ EnviarInterrupcion(p)
  BY <1>3, IgualTurno DEF RecibirInterrupcion, Desbloquear, EnviarInterrupcion, nucleo, enchufe
<1>4. CASE UNCHANGED vars
  BY <1>4, IgualTurno DEF vars, nucleo, enchufe
<1> QED
  BY <1>1, <1>2, <1>3, <1>4 DEF Next

\* The CPU and the planner implement Turno: each context comes back once, with a request of the
\* process it was sent for, before another one is sent.
THEOREM TurnoTeorema == Spec => CumpleTurno
<1>1. Init => UnTurno!Init
  BY DEF Init, UnTurno!Init, EnCamino
<1>2. Siempre /\ Siempre' /\ [Next]_vars => [UnTurno!Next]_<<Llevado, Traido>>
  <2> SUFFICES ASSUME Siempre, Siempre', [Next]_vars
               PROVE  [UnTurno!Next]_<<Llevado, Traido>>
    OBVIOUS
  <2>1. CASE TurnoSigue
    BY <2>1 DEF TurnoSigue
  <2>2. CASE TurnoAtender
    BY <2>2 DEF TurnoAtender, UnTurno!Next, UnTurno!Atender, Llevado, Traido
  <2>3. ASSUME NEW p \in Procesos, TurnoDespachar(p)
        PROVE  UnTurno!Next
    BY <2>3 DEF TurnoDespachar, UnTurno!Next, UnTurno!Despachar, Llevado, Traido
  <2>4. ASSUME NEW q \in Pedidos, TurnoDevolver(q)
        PROVE  UnTurno!Next
    BY <2>4 DEF TurnoDevolver, UnTurno!Next, UnTurno!Devolver, Llevado, Traido
  <2>5. CASE Next
    <3>1. Inv
      BY <2>5 DEF Next, Siempre, Inv
    <3>2. CASE Interrumpir /\ cpu.termina
      BY <2>1, <3>1, <3>2, TrasDosTurno
    <3>3. CASE ~(Interrumpir /\ cpu.termina)
      <4>1. Inv'
        BY <3>1, <3>3, PasoInv
      <4> QED
        BY <2>1, <2>2, <2>3, <2>4, <3>1, <3>3, <4>1, PasoTurno
    <3> QED
      BY <3>2, <3>3
  <2>6. CASE UNCHANGED vars
    BY <2>1, <2>6, IgualTurno DEF vars, nucleo, enchufe
  <2> QED
    BY <2>5, <2>6
<1> QED
  BY <1>1, <1>2, InvTeorema, PTL DEF Spec, CumpleTurno, UnTurno!Spec, Llevado, Traido
=============================================================================
