------------------------- MODULE PlanificadorPruebas -------------------------
(***************************************************************************)
(* Proofs about the scheduler, for any number of processes and threads.    *)
(***************************************************************************)
EXTENDS Planificador, Lemas

-----------------------------------------------------------------------------
(* Types, and what plani_exec holds at each point of the short-term planner *)

\* The places of a thread.  HiloOK leaves room for those of the exit thread of module
\* Finalizacion, whose proofs use these lemmas; SinFin says that no thread is there here.
PuntosFin == {"espera_manejo", "segun_estado", "recibe", "termina", "mira_grado", "devuelve",
              "agrega_exit"}
Puntos == EnEspera \cup EnMano \cup EnCola \cup PuntosFin

ColasOK ==
  /\ plani_new \in Seq(Procesos) /\ plani_ready \in Seq(Procesos)
  /\ plani_exec \in Seq(Procesos)
  /\ plani_block \subseteq Procesos /\ plani_exit \subseteq Procesos

PcbsOK ==
  /\ pid_global \in 0 .. MaxProcesos /\ total_pcbs \subseteq Creados
  /\ estado \in [Procesos -> Estados] /\ prioridad \in [Procesos -> Int]

SemOK  == sem \in [Semaforos -> Nat]
HiloOK == hilo \in [Hilos -> [pc : Puntos, pcb : Procesos \cup {NULO}]]

RestoOK ==
  /\ algoritmo_plani \in Algoritmos /\ multiprogramacion \in Nat
  /\ params \in Procesos \cup {NULO}
  /\ cpu \in Procesos \cup {NULO} /\ mensaje \in Servicios \cup {"DESALOJO", NULO}
  /\ interrupt_pid \in Procesos \cup {NULO} /\ quantum \in [Procesos -> Nat]
  /\ consola \in 0 .. 4

BoolOK == pausada \in BOOLEAN /\ fallo \in BOOLEAN

\* A thread that has a process has a pid.
PcbOK == \A h \in Hilos : hilo[h].pc \in EnMano \cup EnCola => hilo[h].pcb \in Procesos

\* Points of the short-term planner with something to say of plani_exec.
EnDespacho == {"despacha", "espera_cpu", "atiende", "redespacha"}
Atento     == {"elige", "agrega_exec"} \cup EnDespacho

ExecOK ==
  /\ Len(plani_exec) <= 1
  /\ hilo["corto"].pc \in {"elige", "agrega_exec"} => plani_exec = <<>>
  /\ hilo["corto"].pc \in EnDespacho => plani_exec = <<hilo["corto"].pcb>>

CpuOK ==
  /\ cpu # NULO => /\ hilo["corto"].pc = "espera_cpu" /\ hilo["corto"].pcb = cpu
                   /\ mensaje = NULO
  /\ hilo["corto"].pc \notin {"espera_cpu", "atiende"} => mensaje = NULO

Estructura ==
  ColasOK /\ PcbsOK /\ SemOK /\ HiloOK /\ RestoOK /\ PcbOK /\ ExecOK /\ CpuOK

SinFin == \A h \in Hilos : hilo[h].pc \notin PuntosFin

TipoInv == Estructura /\ BoolOK /\ SinFin

LEMMA TipoInvTipo == TipoInv => TipoOK /\ ExecCoherente
<1> SUFFICES ASSUME TipoInv PROVE TipoOK /\ ExecCoherente
  OBVIOUS
<1>1. TipoOK
  BY DEF TipoInv, Estructura, TipoOK, ColasOK, PcbsOK, SemOK, HiloOK, RestoOK, BoolOK,
     Puntos, SinFin
<1>2. ExecCoherente
  BY DEF TipoInv, Estructura, ExecOK, CpuOK, EnDespacho, ExecCoherente, En, Pcb
<1> QED
  BY <1>1, <1>2

-----------------------------------------------------------------------------
(* What the operators on semaphores and threads do *)

LEMMA AlBajar ==
  ASSUME SemOK, NEW s \in Semaforos, P(s)
  PROVE  SemOK' /\ sem'[s] = sem[s] - 1 /\ \A t \in Semaforos : t # s => sem'[t] = sem[t]
BY DEF SemOK, P

LEMMA AlSubir ==
  ASSUME SemOK, NEW s \in Semaforos, V(s)
  PROVE  SemOK' /\ sem'[s] = sem[s] + 1 /\ \A t \in Semaforos : t # s => sem'[t] = sem[t]
BY DEF SemOK, V

LEMMA AlSeguir ==
  ASSUME HiloOK, NEW h \in Hilos, NEW l \in Puntos, Sigue(h, l)
  PROVE  /\ HiloOK' /\ hilo'[h].pc = l /\ hilo'[h].pcb = hilo[h].pcb
         /\ \A g \in Hilos : g # h => hilo'[g] = hilo[g]
BY DEF HiloOK, Sigue

LEMMA AlIr ==
  ASSUME HiloOK, NEW h \in Hilos, NEW l \in Puntos, NEW p \in Procesos \cup {NULO}, Va(h, l, p)
  PROVE  /\ HiloOK' /\ hilo'[h].pc = l /\ hilo'[h].pcb = p
         /\ \A g \in Hilos : g # h => hilo'[g] = hilo[g]
BY DEF HiloOK, Va

LEMMA AlLanzar ==
  ASSUME HiloOK, NEW l \in Puntos, NEW p \in Procesos \cup {NULO}, Lanza(l, p)
  PROVE  /\ HiloOK' /\ hilo'["corto"].pc = "espera_ready" /\ hilo'["corto"].pcb = NULO
         /\ \E a \in Hilos \ {"corto"} :
              /\ hilo[a].pc = "libre" /\ hilo'[a].pc = l /\ hilo'[a].pcb = p
              /\ \A g \in Hilos : g \notin {a, "corto"} => hilo'[g] = hilo[g]
<1> DEFINE a == CHOOSE x \in Libres : TRUE
<1>1. a \in Libres
  BY DEF Lanza
<1>2. a \in Hilos \ {"corto"} /\ hilo[a].pc = "libre" /\ "corto" \in Hilos
  BY <1>1, ConstantesOK DEF Libres, Hilos, En
<1>3. hilo' = [hilo EXCEPT ![a] = [pc |-> l, pcb |-> p],
                           !["corto"] = [pc |-> "espera_ready", pcb |-> NULO]]
  BY DEF Lanza
<1> HIDE DEF a
<1>4. "espera_ready" \in Puntos
  BY DEF Puntos, EnEspera
<1> QED
  BY <1>2, <1>3, <1>4 DEF HiloOK

LEMMA EntradaLugar ==
  /\ EntradaReady \in {"mira_exec", "encola"}
  /\ EntradaReady \in Puntos /\ EntradaReady \in EnMano /\ EntradaReady \notin Atento
BY DEF EntradaReady, Puntos, EnMano, Atento, EnDespacho

\* A step in which only thread h moves.
LEMMA PcbSigue ==
  ASSUME PcbOK, NEW h \in Hilos, \A g \in Hilos : g # h => hilo'[g] = hilo[g],
         hilo'[h].pc \in EnMano \cup EnCola => hilo'[h].pcb \in Procesos
  PROVE  PcbOK'
BY DEF PcbOK

\* A step away from what ExecOK and CpuOK speak of.
LEMMA CortoAjeno ==
  ASSUME Estructura, UNCHANGED <<plani_exec, cpu, mensaje>>,
         \/ hilo'["corto"] = hilo["corto"]
         \/ hilo["corto"].pc \notin Atento /\ hilo'["corto"].pc \notin Atento
  PROVE  ExecOK' /\ CpuOK'
BY DEF Estructura, ExecOK, CpuOK, Atento, EnDespacho

-----------------------------------------------------------------------------
(* The type invariant *)

LEMMA TipoInicial == Init => TipoInv
<1> SUFFICES ASSUME Init PROVE TipoInv
  OBVIOUS
<1>1. ColasOK /\ PcbsOK
  BY ConstantesOK DEF Init, ColasOK, PcbsOK, Procesos, Creados, Estados
<1>2. SemOK
  BY ConstantesOK DEF Init, SemOK
<1>3. HiloOK
  BY DEF Init, HiloOK, Puntos, EnEspera
<1>4. RestoOK
  BY ConstantesOK DEF Init, RestoOK
<1>b. BoolOK
  BY Zenon DEF Init, BoolOK
<1>5. PcbOK
  <2>1. \A h \in Hilos : hilo[h].pc \in {"espera_new", "espera_ready", "libre"}
    BY DEF Init
  <2> QED
    BY <2>1 DEF PcbOK, EnMano, EnCola
<1>6. ExecOK /\ CpuOK
  <2>1. hilo["corto"].pc = "espera_ready"
    BY DEF Init, Hilos
  <2> QED
    BY <2>1 DEF Init, ExecOK, CpuOK, EnDespacho
<1>7. SinFin
  BY DEF Init, SinFin, PuntosFin
<1> QED
  BY <1>1, <1>2, <1>3, <1>4, <1>b, <1>5, <1>6, <1>7 DEF TipoInv, Estructura

LEMMA TocarBool == ASSUME BoolOK, NEW p, Toca(p) PROVE fallo' \in BOOLEAN
BY Zenon DEF Toca

LEMMA BoolAgregar ==
  ASSUME BoolOK, NEW h, AgregarAReady(h)
  PROVE  BoolOK'
<1>1. CASE MiraExec(h) \/ Encola(h) \/ Lista(h)
  BY <1>1, Zenon DEF MiraExec, Encola, Lista, BoolOK, pausa
<1>2. CASE Compara(h)
  <2>1. fallo' \in BOOLEAN
    <3>1. CASE plani_exec = <<>>
      BY <1>2, <3>1, Zenon DEF Compara
    <3>2. CASE plani_exec # <<>>
      BY <1>2, <3>2, TocarBool, Zenon DEF Compara
    <3> QED
      BY <3>1, <3>2
  <2> QED
    BY <1>2, <2>1, Zenon DEF Compara, BoolOK, pausa
<1>3. CASE Marca(h)
  BY <1>3, TocarBool, Zenon DEF Marca, BoolOK, pausa
<1> QED
  BY <1>1, <1>2, <1>3, Zenon DEF AgregarAReady

LEMMA BoolLargo == ASSUME BoolOK, Largo PROVE BoolOK'
<1>1. CASE LargoEsperaNew \/ LargoEsperaMulti \/ LargoCompuerta
  BY <1>1, Zenon DEF LargoEsperaNew, LargoEsperaMulti, LargoCompuerta, BoolOK, pausa
<1>2. CASE LargoSaca
  <2>1. fallo' \in BOOLEAN
    <3>1. CASE plani_new = <<>>
      BY <1>2, <3>1, Zenon DEF LargoSaca
    <3>2. CASE plani_new # <<>>
      BY <1>2, <3>2, Zenon DEF LargoSaca, BoolOK
    <3> QED
      BY <3>1, <3>2
  <2> QED
    BY <1>2, <2>1, Zenon DEF LargoSaca, BoolOK, pausa
<1> QED
  BY <1>1, <1>2, Zenon DEF Largo

LEMMA BoolCorto == ASSUME BoolOK, Corto PROVE BoolOK'
<1>1. CASE CortoEsperaReady \/ CortoEsperaEjecutar \/ CortoAgregaExec \/ CortoRecibe
  BY <1>1, Zenon DEF CortoEsperaReady, CortoEsperaEjecutar, CortoAgregaExec, CortoRecibe,
     BoolOK, pausa
<1>2. CASE CortoFinaliza \/ CortoSacaExec \/ CortoDuerme \/ CortoPideFS \/ CortoPageFault
  BY <1>2, Zenon DEF CortoFinaliza, CortoSacaExec, CortoDuerme, CortoPideFS, CortoPageFault,
     BoolOK, pausa
<1>3. CASE CortoContinua \/ CortoDesaloja
  BY <1>3, Zenon DEF CortoContinua, CortoDesaloja, BoolOK, pausa
<1>4. CASE CortoElige
  <2>1. fallo' \in BOOLEAN
    <3>1. CASE plani_ready = <<>>
      BY <1>4, <3>1, Zenon DEF CortoElige, BoolOK
    <3>2. CASE plani_ready # <<>>
      <4>1. fallo' \in {FALSE, AlguienRecorre} /\ AlguienRecorre \in BOOLEAN
        BY <1>4, <3>2, Zenon DEF CortoElige, AlguienRecorre
      <4> QED
        BY <4>1, Zenon
    <3> QED
      BY <3>1, <3>2
  <2> QED
    BY <1>4, <2>1, Zenon DEF CortoElige, BoolOK, pausa
<1>5. CASE CortoDespacha
  BY <1>5, TocarBool, Zenon DEF CortoDespacha, BoolOK, pausa
<1>6. CASE CortoRedespacha
  <2>1. fallo' \in BOOLEAN
    <3>1. CASE plani_exec = <<>>
      BY <1>6, <3>1, Zenon DEF CortoRedespacha
    <3>2. CASE plani_exec # <<>>
      BY <1>6, <3>2, Zenon DEF CortoRedespacha, BoolOK
    <3> QED
      BY <3>1, <3>2
  <2> QED
    BY <1>6, <2>1, Zenon DEF CortoRedespacha, BoolOK, pausa
<1> QED
  BY <1>1, <1>2, <1>3, <1>4, <1>5, <1>6, Zenon DEF Corto

LEMMA BoolAuxiliar == ASSUME BoolOK, NEW h, Auxiliar(h) PROVE BoolOK'
<1>1. CASE SaleDeBlock(h) \/ SaleDelSistema(h)
  BY <1>1, Zenon DEF SaleDeBlock, SaleDelSistema, BoolOK, pausa
<1>2. CASE LeeParams(h)
  <2>1. fallo' \in BOOLEAN
    <3>1. CASE params \in total_pcbs
      BY <1>2, <3>1, Zenon DEF LeeParams, BoolOK
    <3>2. CASE params \notin total_pcbs
      BY <1>2, <3>2, Zenon DEF LeeParams
    <3> QED
      BY <3>1, <3>2
  <2> QED
    BY <1>2, <2>1, Zenon DEF LeeParams, BoolOK, pausa
<1>3. CASE ResuelvePf(h)
  BY <1>3, TocarBool, Zenon DEF ResuelvePf, BoolOK, pausa
<1>4. CASE Libera(h)
  <2>1. fallo' \in BOOLEAN
    BY <1>4, Zenon DEF Libera
  <2> QED
    BY <1>4, <2>1, Zenon DEF Libera, BoolOK, pausa
<1> QED
  BY <1>1, <1>2, <1>3, <1>4, Zenon DEF Auxiliar

LEMMA BoolPaso == BoolOK /\ [Next]_vars => BoolOK'
<1> SUFFICES ASSUME BoolOK, [Next]_vars PROVE BoolOK'
  OBVIOUS
<1>1. CASE \E h \in Hilos : AgregarAReady(h)
  BY <1>1, BoolAgregar, Zenon
<1>2. CASE Largo \/ Corto
  BY <1>2, BoolLargo, BoolCorto, Zenon
<1>3. CASE \E h \in Auxiliares : Auxiliar(h)
  BY <1>3, BoolAuxiliar, Zenon
<1>4. CASE Consola
  <2>1. CASE DetenerPlanificacion
    <3>1. pausada' \in BOOLEAN
      BY <2>1, Zenon DEF DetenerPlanificacion
    <3> QED
      BY <2>1, <3>1, Zenon DEF DetenerPlanificacion, BoolOK
  <2>2. CASE IniciarPlanificacion
    BY <2>2, Zenon DEF IniciarPlanificacion, BoolOK
  <2>3. ASSUME NEW n, CambiarMultiprogramacion(n) PROVE BoolOK'
    BY <2>3, Zenon DEF CambiarMultiprogramacion, BoolOK, pausa
  <2>4. ASSUME NEW n, IniciarProceso(n) PROVE BoolOK'
    BY <2>4, Zenon DEF IniciarProceso, BoolOK, pausa
  <2> QED
    BY <1>4, <2>1, <2>2, <2>3, <2>4, Zenon DEF Consola
<1>5. CASE CpuDesaloja \/ \E c \in Servicios : CpuDevuelve(c)
  BY <1>5, Zenon DEF CpuDesaloja, CpuDevuelve, BoolOK, pausa
<1>6. CASE \E p \in Procesos : VenceQuantum(p)
  BY <1>6, Zenon DEF VenceQuantum, BoolOK, pausa
<1>7. CASE UNCHANGED vars
  BY <1>7, Zenon DEF vars, BoolOK, pausa
<1> QED
  BY <1>1, <1>2, <1>3, <1>4, <1>5, <1>6, <1>7, Zenon DEF Next

LEMMA TipoAgregar ==
  ASSUME Estructura, NEW h \in Hilos, AgregarAReady(h)
  PROVE  Estructura'
<1>0. /\ "corto" \in Hilos /\ ColasOK /\ PcbsOK /\ SemOK /\ HiloOK /\ RestoOK /\ PcbOK
      /\ hilo[h].pc \in EnMano \cup EnCola
  BY DEF Estructura, Hilos, AgregarAReady, MiraExec, Compara, Encola, Marca, Lista, En, EnMano,
     EnCola
<1>1. hilo[h].pcb \in Procesos
  BY <1>0 DEF PcbOK
<1>2. hilo[h].pc \notin Atento
  BY DEF AgregarAReady, MiraExec, Compara, Encola, Marca, Lista, En, Atento, EnDespacho
<1>3. UNCHANGED <<plani_exec, cpu, mensaje>>
  BY DEF AgregarAReady, MiraExec, Compara, Encola, Marca, Lista, colas, maquina
<1> DEFINE Movido == /\ HiloOK' /\ hilo'[h].pc \notin Atento
                     /\ hilo'[h].pc \in EnMano \cup EnCola => hilo'[h].pcb \in Procesos
                     /\ \A g \in Hilos : g # h => hilo'[g] = hilo[g]
<1>4. Movido
  <2>1. ASSUME NEW l \in {"encola", "compara", "marca", "lista"}, Sigue(h, l) PROVE Movido
    <3>1. l \in Puntos /\ l \notin Atento
      BY DEF Puntos, EnMano, EnCola, Atento, EnDespacho
    <3> QED
      BY <1>0, <1>1, <2>1, <3>1, AlSeguir
  <2>2. ASSUME NEW l \in {"espera_new", "espera_ready", "libre"}, Va(h, l, NULO) PROVE Movido
    <3>1. l \in Puntos /\ l \notin Atento /\ l \notin EnMano \cup EnCola
      BY DEF Puntos, EnEspera, EnMano, EnCola, Atento, EnDespacho
    <3> QED
      BY <1>0, <2>2, <3>1, AlIr
  <2> QED
    BY <2>1, <2>2 DEF AgregarAReady, MiraExec, Compara, Encola, Marca, Lista
<1>5. PcbOK'
  BY <1>0, <1>4, PcbSigue
<1>6. ExecOK' /\ CpuOK'
  BY <1>0, <1>2, <1>3, <1>4, CortoAjeno
<1>7. ColasOK' /\ PcbsOK' /\ SemOK' /\ RestoOK'
  <2>1. CASE MiraExec(h)
    BY <1>0, <2>1 DEF MiraExec, ColasOK, PcbsOK, SemOK, RestoOK, Creados, config, colas, pcbs,
       maquina, pausa
  <2>2. CASE Compara(h)
    <3>1. interrupt_pid' \in Procesos \cup {NULO}
      <4>1. CASE plani_exec = <<>>
        BY <1>0, <2>2, <4>1 DEF Compara, RestoOK
      <4>2. CASE plani_exec # <<>>
        <5>1. Head(plani_exec) \in Procesos
          BY <1>0, <4>2 DEF ColasOK
        <5> QED
          BY <1>0, <2>2, <4>2, <5>1 DEF Compara, RestoOK
      <4> QED
        BY <4>1, <4>2
    <3> QED
      BY <1>0, <2>2, <3>1 DEF Compara, ColasOK, PcbsOK, SemOK, RestoOK, Creados, config, colas,
         pcbs, pausa
  <2>3. CASE Encola(h)
    <3>1. plani_ready' \in Seq(Procesos)
      BY <1>0, <1>1, <2>3 DEF Encola, ColasOK, Pcb
    <3>2. SemOK'
      BY <1>0, <2>3, AlSubir DEF Encola, Semaforos
    <3> QED
      BY <1>0, <2>3, <3>1, <3>2 DEF Encola, ColasOK, PcbsOK, RestoOK, Creados, config, pcbs,
         maquina, pausa
  <2>4. CASE Marca(h)
    <3>1. estado' \in [Procesos -> Estados]
      BY <1>0, <2>4 DEF Marca, PcbsOK, Estados
    <3> QED
      BY <1>0, <2>4, <3>1 DEF Marca, ColasOK, PcbsOK, SemOK, RestoOK, Creados, config, colas,
         maquina, pausa
  <2>5. CASE Lista(h)
    <3>1. SemOK'
      BY <1>0, <2>5, AlSubir DEF Lista, Semaforos
    <3> QED
      BY <1>0, <2>5, <3>1 DEF Lista, ColasOK, PcbsOK, RestoOK, Creados, config, colas, pcbs,
         maquina, pausa
  <2> QED
    BY <2>1, <2>2, <2>3, <2>4, <2>5 DEF AgregarAReady
<1> QED
  BY <1>4, <1>5, <1>6, <1>7 DEF Estructura

LEMMA TipoLargo ==
  ASSUME Estructura, Largo
  PROVE  Estructura'
<1>0. /\ {"largo", "corto"} \subseteq Hilos
      /\ ColasOK /\ PcbsOK /\ SemOK /\ HiloOK /\ RestoOK /\ PcbOK
  BY DEF Estructura, Hilos
<1>1. ASSUME NEW l \in {"espera_multi", "bloqueado", "compuerta", "saca_new"},
             Sigue("largo", l), SemOK', UNCHANGED <<config, colas, pcbs, params, maquina, pausa>>
      PROVE  Estructura'
  <2>1. l \in Puntos /\ l \notin EnMano \cup EnCola
    BY DEF Puntos, EnEspera, EnMano, EnCola
  <2>2. /\ HiloOK' /\ hilo'["largo"].pc = l
        /\ \A g \in Hilos : g # "largo" => hilo'[g] = hilo[g]
    BY <1>0, <1>1, <2>1, AlSeguir
  <2>3. PcbOK'
    BY <1>0, <2>1, <2>2, PcbSigue
  <2>4. ExecOK' /\ CpuOK'
    BY <1>0, <1>1, <2>2, CortoAjeno DEF colas, maquina
  <2>5. ColasOK' /\ PcbsOK' /\ RestoOK'
    BY <1>0, <1>1 DEF ColasOK, PcbsOK, RestoOK, Creados, config, colas, pcbs, maquina, pausa
  <2> QED
    BY <1>1, <2>2, <2>3, <2>4, <2>5 DEF Estructura
<1>2. CASE LargoEsperaNew
  BY <1>0, <1>1, <1>2, AlBajar DEF LargoEsperaNew, Semaforos
<1>3. CASE LargoEsperaMulti
  <2>1. SemOK'
    BY <1>0, <1>3, AlBajar DEF LargoEsperaMulti, Semaforos, SemOK
  <2> QED
    BY <1>1, <1>3, <2>1 DEF LargoEsperaMulti
<1>4. CASE LargoCompuerta
  BY <1>0, <1>1, <1>4 DEF LargoCompuerta, Cruza, SemOK
<1>5. CASE LargoSaca
  <2>1. CASE plani_new = <<>>
    BY <1>0, <1>5, <2>1 DEF LargoSaca, Estructura, ColasOK, PcbsOK, SemOK, HiloOK, RestoOK,
       PcbOK, ExecOK, CpuOK, Creados, config, pcbs, maquina, pausa
  <2>2. CASE plani_new # <<>>
    <3>0. Head(plani_new) \in Procesos /\ Tail(plani_new) \in Seq(Procesos)
      BY <1>0, <2>2, EnCabeza DEF ColasOK
    <3>1. Head(plani_new) \in Procesos /\ plani_new' \in Seq(Procesos)
      BY <1>5, <2>2, <3>0 DEF LargoSaca
    <3>2. /\ HiloOK' /\ hilo'["largo"].pcb = Head(plani_new)
          /\ \A g \in Hilos : g # "largo" => hilo'[g] = hilo[g]
      BY <1>0, <1>5, <2>2, <3>1, AlIr, EntradaLugar DEF LargoSaca
    <3>3. PcbOK'
      BY <1>0, <3>1, <3>2, PcbSigue
    <3>4. ExecOK' /\ CpuOK'
      BY <1>0, <1>5, <3>2, CortoAjeno DEF LargoSaca, maquina
    <3>5. ColasOK' /\ PcbsOK' /\ SemOK' /\ RestoOK'
      BY <1>0, <1>5, <3>1 DEF LargoSaca, ColasOK, PcbsOK, SemOK, RestoOK, Creados, config, pcbs,
         maquina, pausa
    <3> QED
      BY <3>2, <3>3, <3>4, <3>5 DEF Estructura
  <2> QED
    BY <2>1, <2>2
<1> QED
  BY <1>2, <1>3, <1>4, <1>5 DEF Largo

\* The planner goes from one point to another with no more than its pcb changed.
LEMMA CortoPaso ==
  ASSUME Estructura, NEW l \in Puntos, NEW p \in Procesos \cup {NULO}, Va("corto", l, p),
         l \in EnMano \cup EnCola => p \in Procesos,
         plani_exec' \in Seq(Procesos), Len(plani_exec') <= 1,
         l \in {"elige", "agrega_exec"} => plani_exec' = <<>>,
         l \in EnDespacho => plani_exec' = <<p>>,
         cpu' # NULO => l = "espera_cpu" /\ p = cpu' /\ mensaje' = NULO,
         l \notin {"espera_cpu", "atiende"} => mensaje' = NULO
  PROVE  HiloOK' /\ PcbOK' /\ ExecOK' /\ CpuOK'
<1>0. "corto" \in Hilos /\ HiloOK /\ PcbOK
  BY DEF Estructura, Hilos
<1>1. /\ HiloOK' /\ hilo'["corto"].pc = l /\ hilo'["corto"].pcb = p
      /\ \A g \in Hilos : g # "corto" => hilo'[g] = hilo[g]
  BY <1>0, AlIr
<1>2. PcbOK'
  BY <1>0, <1>1, PcbSigue
<1>3. ExecOK' /\ CpuOK'
  BY <1>1 DEF ExecOK, CpuOK
<1> QED
  BY <1>1, <1>2, <1>3

LEMMA SeguirEsIr ==
  ASSUME HiloOK, NEW h \in Hilos, NEW l, Sigue(h, l)
  PROVE  Va(h, l, hilo[h].pcb) /\ hilo[h].pcb \in Procesos \cup {NULO}
<1>1. hilo[h] \in [pc : Puntos, pcb : Procesos \cup {NULO}]
  BY DEF HiloOK
<1>2. [hilo[h] EXCEPT !.pc = l] = [pc |-> l, pcb |-> hilo[h].pcb]
  BY <1>1
<1>3. [hilo EXCEPT ![h].pc = l] = [hilo EXCEPT ![h] = [hilo[h] EXCEPT !.pc = l]]
  BY DEF HiloOK
<1> QED
  BY <1>1, <1>2, <1>3 DEF Sigue, Va

\* The planner hands a process over to a new thread and plans again.
LEMMA CortoLanza ==
  ASSUME Estructura, NEW l \in Puntos \ Atento, NEW p \in Procesos \cup {NULO}, Lanza(l, p),
         l \in EnMano \cup EnCola => p \in Procesos,
         plani_exec' = plani_exec, cpu = NULO, cpu' = NULO, mensaje' = NULO
  PROVE  HiloOK' /\ PcbOK' /\ ExecOK' /\ CpuOK'
<1>0. HiloOK /\ PcbOK /\ ExecOK
  BY DEF Estructura
<1>1. HiloOK' /\ hilo'["corto"].pc = "espera_ready"
  BY <1>0, AlLanzar
<1>2. PICK a \in Hilos \ {"corto"} :
        /\ hilo'[a].pc = l /\ hilo'[a].pcb = p
        /\ \A g \in Hilos : g \notin {a, "corto"} => hilo'[g] = hilo[g]
  BY <1>0, AlLanzar
<1>3. PcbOK'
  BY <1>0, <1>1, <1>2 DEF PcbOK, EnMano, EnCola
<1>4. ExecOK' /\ CpuOK'
  BY <1>0, <1>1 DEF ExecOK, CpuOK, EnDespacho
<1> QED
  BY <1>1, <1>3, <1>4

LEMMA TipoCorto ==
  ASSUME Estructura, Corto
  PROVE  Estructura'
<1>0. /\ "corto" \in Hilos
      /\ ColasOK /\ PcbsOK /\ SemOK /\ HiloOK /\ RestoOK /\ PcbOK /\ ExecOK /\ CpuOK
  BY DEF Estructura, Hilos
<1> DEFINE p == hilo["corto"].pcb
<1>1. CASE CortoEsperaReady
  <2>1. "espera_ejecutar" \in Puntos \ (Atento \cup EnMano \cup EnCola)
    BY DEF Puntos, EnEspera, Atento, EnDespacho, EnMano, EnCola
  <2>2. Va("corto", "espera_ejecutar", p) /\ p \in Procesos \cup {NULO}
    BY <1>0, <1>1, SeguirEsIr DEF CortoEsperaReady
  <2>3. HiloOK' /\ PcbOK' /\ ExecOK' /\ CpuOK'
    BY <1>0, <1>1, <2>1, <2>2, CortoPaso DEF CortoEsperaReady, En, ColasOK, ExecOK, CpuOK,
       Atento, EnDespacho, colas, maquina
  <2>4. SemOK'
    BY <1>0, <1>1, AlBajar DEF CortoEsperaReady, Semaforos
  <2>5. ColasOK' /\ PcbsOK' /\ RestoOK'
    BY <1>0, <1>1 DEF CortoEsperaReady, ColasOK, PcbsOK, RestoOK, Creados, config, colas, pcbs,
       maquina, pausa
  <2> QED
    BY <2>3, <2>4, <2>5 DEF Estructura
<1>2. CASE CortoEsperaEjecutar
  <2>1. "elige" \in Puntos \ (EnDespacho \cup EnMano \cup EnCola)
    BY DEF Puntos, EnEspera, EnDespacho, EnMano, EnCola
  <2>2. Va("corto", "elige", p) /\ p \in Procesos \cup {NULO}
    BY <1>0, <1>2, SeguirEsIr DEF CortoEsperaEjecutar
  <2>3. plani_exec' = <<>>
    <3>1. CASE plani_exec = <<>>
      BY <1>2, <3>1 DEF CortoEsperaEjecutar
    <3>2. CASE plani_exec # <<>>
      <4>1. Tail(plani_exec) \in Seq(Procesos) /\ Len(Tail(plani_exec)) = Len(plani_exec) - 1
        BY <1>0, <3>2, EnCabeza DEF ColasOK
      <4>2. Len(plani_exec) \in Nat /\ Len(Tail(plani_exec)) \in Nat
        BY <1>0, <4>1 DEF ColasOK
      <4>3. Len(Tail(plani_exec)) = 0
        BY <1>0, <4>1, <4>2 DEF ExecOK
      <4> QED
        BY <1>2, <3>2, <4>1, <4>3 DEF CortoEsperaEjecutar
    <3> QED
      BY <3>1, <3>2
  <2>4. HiloOK' /\ PcbOK' /\ ExecOK' /\ CpuOK'
    <3>1. cpu' = NULO /\ mensaje' = NULO
      BY <1>0, <1>2 DEF CortoEsperaEjecutar, En, CpuOK, maquina
    <3>2. plani_exec' \in Seq(Procesos) /\ Len(plani_exec') = 0
      BY <2>3
    <3> QED
      BY <2>1, <2>2, <2>3, <3>1, <3>2, CortoPaso
  <2>5. SemOK'
    BY <1>0, <1>2, AlBajar DEF CortoEsperaEjecutar, Semaforos
  <2>6. ColasOK' /\ PcbsOK' /\ RestoOK'
    BY <1>0, <1>2, <2>3 DEF CortoEsperaEjecutar, ColasOK, PcbsOK, RestoOK, Creados, config, pcbs,
       maquina, pausa
  <2> QED
    BY <2>4, <2>5, <2>6 DEF Estructura
<1>3. CASE CortoElige
  <2>0. /\ {"agrega_exec", "espera_ready"} \subseteq Puntos /\ "agrega_exec" \notin EnDespacho
        /\ "espera_ready" \notin EnMano \cup EnCola \cup Atento
    BY DEF Puntos, EnEspera, EnMano, EnCola, EnDespacho, Atento
  <2>1. plani_exec' = plani_exec /\ plani_exec = <<>> /\ cpu' = NULO /\ mensaje' = NULO
    BY <1>0, <1>3 DEF CortoElige, ExecOK, CpuOK, En, maquina
  <2>2. PcbsOK' /\ SemOK' /\ RestoOK'
    BY <1>0, <1>3 DEF CortoElige, PcbsOK, SemOK, RestoOK, Creados, config, pcbs, maquina, pausa
  <2>3. CASE plani_ready = <<>>
    <3>1. Va("corto", "espera_ready", p) /\ p \in Procesos \cup {NULO}
      BY <1>0, <1>3, <2>3, SeguirEsIr DEF CortoElige
    <3>2. HiloOK' /\ PcbOK' /\ ExecOK' /\ CpuOK'
      BY <2>0, <2>1, <3>1, CortoPaso DEF Atento
    <3>3. ColasOK'
      BY <1>0, <1>3, <2>1, <2>3 DEF CortoElige, ColasOK
    <3> QED
      BY <2>2, <3>2, <3>3 DEF Estructura
  <2>4. CASE plani_ready # <<>>
    <3>1. PICK i \in DOMAIN plani_ready : /\ plani_ready' = RemoveAt(plani_ready, i)
                                          /\ Va("corto", "agrega_exec", plani_ready[i])
      BY <1>3, <2>4 DEF CortoElige
    <3>2. plani_ready[i] \in Procesos /\ RemoveAt(plani_ready, i) \in Seq(Procesos)
      BY <1>0, <3>1, AlQuitar DEF ColasOK
    <3>3. HiloOK' /\ PcbOK' /\ ExecOK' /\ CpuOK'
      BY <2>0, <2>1, <3>1, <3>2, CortoPaso
    <3>4. ColasOK'
      BY <1>0, <1>3, <2>1, <3>1, <3>2 DEF CortoElige, ColasOK
    <3> QED
      BY <2>2, <3>3, <3>4 DEF Estructura
  <2> QED
    BY <2>3, <2>4
<1>4. CASE CortoAgregaExec
  <2>0. "despacha" \in Puntos
    BY DEF Puntos, EnMano
  <2>1. p \in Procesos
    BY <1>0, <1>4 DEF CortoAgregaExec, PcbOK, En, EnMano
  <2>2. plani_exec' = <<p>> /\ cpu' = NULO /\ mensaje' = NULO
    BY <1>0, <1>4 DEF CortoAgregaExec, ExecOK, CpuOK, En, Pcb, maquina
  <2>a. plani_exec' \in Seq(Procesos)
    BY <2>1, <2>2
  <2>3. Va("corto", "despacha", p)
    BY <1>0, <1>4, SeguirEsIr DEF CortoAgregaExec
  <2>4. HiloOK' /\ PcbOK' /\ ExecOK' /\ CpuOK'
    BY <2>0, <2>1, <2>2, <2>3, CortoPaso
  <2>5. ColasOK' /\ PcbsOK' /\ SemOK' /\ RestoOK'
    BY <1>0, <1>4, <2>a DEF CortoAgregaExec, ColasOK, PcbsOK, SemOK, RestoOK, Creados, config,
       pcbs, maquina, pausa
  <2> QED
    BY <2>4, <2>5 DEF Estructura
<1>5. CASE CortoDespacha
  <2>1. p \in Procesos /\ plani_exec = <<p>>
    BY <1>0, <1>5 DEF CortoDespacha, PcbOK, ExecOK, En, EnMano, EnDespacho
  <2>2. /\ Va("corto", "espera_cpu", p) /\ "espera_cpu" \in Puntos \ {"elige", "agrega_exec"}
        /\ cpu' = p /\ mensaje' = NULO /\ UNCHANGED plani_exec
    BY <1>0, <1>5 DEF CortoDespacha, CpuOK, En, Envia, Pcb, colas, Puntos, EnMano
  <2>3. HiloOK' /\ PcbOK' /\ ExecOK' /\ CpuOK'
    BY <1>0, <2>1, <2>2, CortoPaso DEF ColasOK, ExecOK
  <2>4. quantum' \in [Procesos -> Nat] /\ estado' \in [Procesos -> Estados]
    BY <1>0, <1>5, <2>1 DEF CortoDespacha, Envia, Pcb, RestoOK, PcbsOK, Estados
  <2>5. ColasOK' /\ PcbsOK' /\ SemOK' /\ RestoOK'
    BY <1>0, <1>5, <2>1, <2>2, <2>4 DEF CortoDespacha, Envia, ColasOK, PcbsOK, SemOK, RestoOK,
       Creados, config, colas, pausa
  <2> QED
    BY <2>3, <2>5 DEF Estructura
<1>6. CASE CortoRedespacha
  <2>1. plani_exec = <<p>> /\ p \in Procesos
    BY <1>0, <1>6 DEF CortoRedespacha, PcbOK, ExecOK, En, EnMano, EnDespacho
  <2>2. Head(plani_exec) = p /\ plani_exec # <<>>
    BY <2>1
  <2>3. Envia(p)
    BY <1>6, <2>2 DEF CortoRedespacha
  <2>4. /\ Va("corto", "espera_cpu", p) /\ "espera_cpu" \in Puntos \ {"elige", "agrega_exec"}
        /\ cpu' = p /\ mensaje' = NULO /\ UNCHANGED plani_exec
    BY <1>0, <1>6, <2>3 DEF CortoRedespacha, CpuOK, En, Envia, colas, Puntos, EnMano
  <2>5. HiloOK' /\ PcbOK' /\ ExecOK' /\ CpuOK'
    BY <1>0, <2>1, <2>4, CortoPaso DEF ColasOK, ExecOK
  <2>6. quantum' \in [Procesos -> Nat]
    BY <1>0, <2>1, <2>3 DEF Envia, RestoOK
  <2>7. ColasOK' /\ PcbsOK' /\ SemOK' /\ RestoOK'
    BY <1>0, <1>6, <2>1, <2>3, <2>4, <2>6 DEF CortoRedespacha, Envia, ColasOK, PcbsOK, SemOK,
       RestoOK, Creados, config, colas, pcbs, pausa
  <2> QED
    BY <2>5, <2>7 DEF Estructura
<1>7. CASE CortoRecibe
  <2>1. p \in Procesos /\ plani_exec = <<p>> /\ cpu = NULO
    BY <1>0, <1>7 DEF CortoRecibe, PcbOK, ExecOK, CpuOK, En, EnMano, EnDespacho
  <2>2. /\ Va("corto", "atiende", p) /\ "atiende" \in Puntos \ {"elige", "agrega_exec"}
        /\ cpu' = NULO /\ UNCHANGED plani_exec
    BY <1>0, <1>7, <2>1, SeguirEsIr DEF CortoRecibe, colas, maquina, Puntos, EnMano
  <2>3. HiloOK' /\ PcbOK' /\ ExecOK' /\ CpuOK'
    BY <1>0, <2>1, <2>2, CortoPaso DEF ColasOK, ExecOK
  <2>4. ColasOK' /\ PcbsOK' /\ SemOK' /\ RestoOK'
    BY <1>0, <1>7 DEF CortoRecibe, Cruza, ColasOK, PcbsOK, SemOK, RestoOK, Creados, config, colas,
       pcbs, maquina, pausa
  <2> QED
    BY <2>3, <2>4 DEF Estructura
\* What holds whenever a request of the CPU is handled.
<1>8. ASSUME NEW c, c # NULO, Atiende(c)
      PROVE  /\ p \in Procesos /\ plani_exec = <<p>> /\ cpu = NULO
             /\ hilo["corto"].pc = "atiende" /\ mensaje' = NULO
  BY <1>0, <1>8 DEF Atiende, PcbOK, ExecOK, CpuOK, En, EnMano, EnDespacho
<1>9. /\ {"EXIT", "SLEEP", "FS", "PAGE_FAULT", "CONTINUA", "DESALOJO"} \cap {NULO} = {}
      /\ {"sale", "espera", "lee_params"} \subseteq Puntos \ Atento
      /\ "lee_params" \notin EnMano \cup EnCola
  BY ConstantesOK DEF TodosLosServicios, Puntos, EnEspera, EnMano, EnCola, Atento, EnDespacho
<1>10. CASE CortoFinaliza
  <2>1. p \in Procesos /\ cpu = NULO /\ cpu' = NULO /\ mensaje' = NULO /\ UNCHANGED plani_exec
    BY <1>8, <1>9, <1>10 DEF CortoFinaliza, colas
  <2>2. HiloOK' /\ PcbOK' /\ ExecOK' /\ CpuOK'
    BY <1>9, <1>10, <2>1, CortoLanza DEF CortoFinaliza, Pcb
  <2>3. estado' \in [Procesos -> Estados]
    BY <1>0, <1>10 DEF CortoFinaliza, PcbsOK, Estados
  <2>4. ColasOK' /\ PcbsOK' /\ SemOK' /\ RestoOK'
    BY <1>0, <1>10, <2>1, <2>3 DEF CortoFinaliza, ColasOK, PcbsOK, SemOK, RestoOK, Creados,
       config, colas, pausa
  <2> QED
    BY <2>2, <2>4 DEF Estructura
<1>11. CASE CortoSacaExec
  <2>1. p \in Procesos /\ plani_exec = <<p>> /\ cpu = NULO /\ cpu' = NULO /\ mensaje' = NULO
    BY <1>8, <1>9, <1>11 DEF CortoSacaExec
  <2>2. Head(plani_exec) = p /\ Tail(plani_exec) = <<>>
    BY <2>1
  <2>3. plani_exec' = <<>> /\ Va("corto", "bloquea", p) /\ "bloquea" \in Puntos \ Atento
    BY <1>11, <2>2 DEF CortoSacaExec, Puntos, EnMano, Atento, EnDespacho
  <2>4. plani_exec' \in Seq(Procesos) /\ Len(plani_exec') = 0
    BY <2>3
  <2>5. HiloOK' /\ PcbOK' /\ ExecOK' /\ CpuOK'
    BY <2>1, <2>3, <2>4, CortoPaso DEF Atento
  <2>6. ColasOK' /\ PcbsOK' /\ SemOK' /\ RestoOK'
    BY <1>0, <1>11, <2>1, <2>4 DEF CortoSacaExec, ColasOK, PcbsOK, SemOK, RestoOK, Creados,
       config, pcbs, pausa
  <2> QED
    BY <2>5, <2>6 DEF Estructura
<1>12. CASE CortoDuerme
  <2>1. /\ p \in Procesos /\ cpu = NULO /\ cpu' = NULO /\ mensaje' = NULO
        /\ UNCHANGED plani_exec
    BY <1>0, <1>12 DEF CortoDuerme, PcbOK, CpuOK, En, EnMano, maquina
  <2>2. HiloOK' /\ PcbOK' /\ ExecOK' /\ CpuOK'
    BY <1>9, <1>12, <2>1, CortoLanza DEF CortoDuerme, Pcb
  <2>3. estado' \in [Procesos -> Estados] /\ plani_block' \subseteq Procesos
    BY <1>0, <1>12, <2>1 DEF CortoDuerme, Bloquea, Pcb, ColasOK, PcbsOK, Estados
  <2>4. ColasOK' /\ PcbsOK' /\ SemOK' /\ RestoOK'
    BY <1>0, <1>12, <2>1, <2>3 DEF CortoDuerme, ColasOK, PcbsOK, SemOK, RestoOK, Creados, config,
       maquina, pausa
  <2> QED
    BY <2>2, <2>4 DEF Estructura
<1>13. CASE CortoPideFS
  <2>1. p \in Procesos /\ cpu = NULO /\ cpu' = NULO /\ mensaje' = NULO /\ UNCHANGED plani_exec
    BY <1>8, <1>9, <1>13 DEF CortoPideFS
  <2>2. HiloOK' /\ PcbOK' /\ ExecOK' /\ CpuOK'
    BY <1>9, <1>13, <2>1, CortoLanza DEF CortoPideFS, Pcb
  <2>3. estado' \in [Procesos -> Estados] /\ plani_block' \subseteq Procesos
    BY <1>0, <1>13, <2>1 DEF CortoPideFS, Bloquea, Pcb, ColasOK, PcbsOK, Estados
  <2>4. ColasOK' /\ PcbsOK' /\ SemOK' /\ RestoOK'
    BY <1>0, <1>13, <2>1, <2>3 DEF CortoPideFS, ColasOK, PcbsOK, SemOK, RestoOK, Creados, config,
       pausa
  <2> QED
    BY <2>2, <2>4 DEF Estructura
<1>14. CASE CortoPageFault
  <2>1. p \in Procesos /\ cpu = NULO /\ cpu' = NULO /\ mensaje' = NULO /\ UNCHANGED plani_exec
    BY <1>8, <1>9, <1>14 DEF CortoPageFault
  <2>2. HiloOK' /\ PcbOK' /\ ExecOK' /\ CpuOK'
    BY <1>9, <1>14, <2>1, CortoLanza DEF CortoPageFault
  <2>3. /\ estado' \in [Procesos -> Estados] /\ plani_block' \subseteq Procesos
        /\ params' \in Procesos
    BY <1>0, <1>14, <2>1 DEF CortoPageFault, Bloquea, Pcb, ColasOK, PcbsOK, Estados
  <2>4. ColasOK' /\ PcbsOK' /\ SemOK' /\ RestoOK'
    BY <1>0, <1>14, <2>1, <2>3 DEF CortoPageFault, ColasOK, PcbsOK, SemOK, RestoOK, Creados,
       config, pausa
  <2> QED
    BY <2>2, <2>4 DEF Estructura
<1>15. CASE CortoContinua
  <2>1. /\ p \in Procesos /\ plani_exec = <<p>> /\ cpu' = NULO /\ mensaje' = NULO
        /\ UNCHANGED plani_exec
    BY <1>8, <1>9, <1>15 DEF CortoContinua, colas
  <2>2. Va("corto", "redespacha", p) /\ "redespacha" \in Puntos
    BY <1>0, <1>15, SeguirEsIr DEF CortoContinua, Puntos, EnMano
  <2>3. HiloOK' /\ PcbOK' /\ ExecOK' /\ CpuOK'
    BY <1>0, <2>1, <2>2, CortoPaso DEF ColasOK, ExecOK
  <2>4. ColasOK' /\ PcbsOK' /\ SemOK' /\ RestoOK'
    BY <1>0, <1>15, <2>1 DEF CortoContinua, ColasOK, PcbsOK, SemOK, RestoOK, Creados, config,
       colas, pcbs, pausa
  <2> QED
    BY <2>3, <2>4 DEF Estructura
<1>16. CASE CortoDesaloja
  <2>1. /\ p \in Procesos /\ plani_exec = <<p>> /\ cpu' = NULO /\ mensaje' = NULO
        /\ UNCHANGED plani_exec
    BY <1>8, <1>9, <1>16 DEF CortoDesaloja, colas
  <2>2. PICK l \in {EntradaReady, "espera_ready"} : Sigue("corto", l)
    BY <1>16 DEF CortoDesaloja
  <2>3. l \in Puntos \ Atento
    BY EntradaLugar DEF Puntos, EnEspera, Atento, EnDespacho
  <2>4. Va("corto", l, p)
    BY <1>0, <2>2, SeguirEsIr
  <2>5. HiloOK' /\ PcbOK' /\ ExecOK' /\ CpuOK'
    BY <1>0, <2>1, <2>3, <2>4, CortoPaso DEF ColasOK, ExecOK, Atento
  <2>6. ColasOK' /\ PcbsOK' /\ SemOK' /\ RestoOK'
    BY <1>0, <1>16, <2>1 DEF CortoDesaloja, ColasOK, PcbsOK, SemOK, RestoOK, Creados, config,
       colas, pcbs, pausa
  <2> QED
    BY <2>5, <2>6 DEF Estructura
<1> QED
  BY <1>1, <1>2, <1>3, <1>4, <1>5, <1>6, <1>7, <1>10, <1>11, <1>12, <1>13, <1>14, <1>15, <1>16
     DEF Corto

LEMMA TipoAuxiliar ==
  ASSUME Estructura, NEW h \in Auxiliares, Auxiliar(h)
  PROVE  Estructura'
<1>0. /\ h \in Hilos /\ h # "corto" /\ "corto" \in Hilos
      /\ ColasOK /\ PcbsOK /\ SemOK /\ HiloOK /\ RestoOK /\ PcbOK
  BY ConstantesOK DEF Estructura, Hilos
<1>1. UNCHANGED <<plani_exec, cpu, mensaje>>
  BY DEF Auxiliar, SaleDeBlock, LeeParams, ResuelvePf, SaleDelSistema, Libera, colas, maquina
<1> DEFINE Movido == /\ HiloOK' /\ \A g \in Hilos : g # h => hilo'[g] = hilo[g]
                     /\ hilo'[h].pc \in EnMano \cup EnCola => hilo'[h].pcb \in Procesos
<1>2. Movido
  <2>1. CASE LeeParams(h)
    <3>1. CASE params \in total_pcbs
      <4>1. params \in Procesos /\ "pide_pagina" \in Puntos
        BY <1>0, <3>1, ConstantesOK DEF PcbsOK, Creados, Procesos, Puntos, EnMano
      <4> QED
        BY <1>0, <2>1, <3>1, <4>1, AlIr DEF LeeParams
    <3>2. CASE params \notin total_pcbs
      BY <1>0, <2>1, <3>2 DEF LeeParams, HiloOK, PcbOK
    <3> QED
      BY <3>1, <3>2
  <2>2. CASE Libera(h)
    <3>1. "libre" \in Puntos \ (EnMano \cup EnCola)
      BY DEF Puntos, EnEspera, EnMano, EnCola
    <3> QED
      BY <1>0, <2>2, <3>1, AlIr DEF Libera
  <2>3. ASSUME NEW l \in Puntos, Sigue(h, l), hilo[h].pc \in EnMano
        PROVE  Movido
    BY <1>0, <2>3, AlSeguir DEF PcbOK
  <2>4. CASE SaleDeBlock(h) \/ ResuelvePf(h) \/ SaleDelSistema(h)
    <3>1. "libera" \in Puntos /\ EntradaReady \in Puntos
      BY EntradaLugar DEF Puntos, EnMano
    <3> QED
      BY <2>3, <2>4, <3>1 DEF SaleDeBlock, ResuelvePf, SaleDelSistema, En, EnMano
  <2> QED
    BY <2>1, <2>2, <2>4 DEF Auxiliar
<1>3. PcbOK'
  BY <1>0, <1>2, PcbSigue
<1>4. ExecOK' /\ CpuOK'
  BY <1>0, <1>1, <1>2, CortoAjeno
<1>5. ColasOK' /\ PcbsOK' /\ SemOK' /\ RestoOK'
  <2>1. CASE SaleDelSistema(h)
    <3>1. SemOK'
      BY <1>0, <2>1, AlSubir DEF SaleDelSistema, Semaforos
    <3>2. plani_exit' \subseteq Procesos
      BY <1>0, <2>1 DEF SaleDelSistema, ColasOK, PcbOK, En, Pcb, EnMano
    <3> QED
      BY <1>0, <2>1, <3>1, <3>2 DEF SaleDelSistema, ColasOK, PcbsOK, RestoOK, Creados, config, pcbs,
         maquina, pausa
  <2>2. CASE SaleDeBlock(h) \/ ResuelvePf(h)
    BY <1>0, <2>2 DEF SaleDeBlock, ResuelvePf, Cruza, ColasOK, PcbsOK, SemOK, RestoOK, Creados,
       config, pcbs, maquina, pausa
  <2>3. CASE LeeParams(h)
    BY <1>0, <2>3 DEF LeeParams, ColasOK, PcbsOK, SemOK, RestoOK, Creados, config, colas, pcbs,
       maquina, pausa
  <2>4. CASE Libera(h)
    BY <1>0, <2>4 DEF Libera, ColasOK, PcbsOK, SemOK, RestoOK, Creados, config, colas, maquina,
       pausa
  <2> QED
    BY <2>1, <2>2, <2>3, <2>4 DEF Auxiliar
<1> QED
  BY <1>2, <1>3, <1>4, <1>5 DEF Estructura

LEMMA TipoConsola ==
  ASSUME Estructura, Consola
  PROVE  Estructura'
<1>0. ColasOK /\ PcbsOK /\ SemOK /\ HiloOK /\ RestoOK /\ PcbOK /\ ExecOK /\ CpuOK
  BY DEF Estructura
<1>1. ASSUME NEW prio \in Int, IniciarProceso(prio) PROVE Estructura'
  <2>1. pid_global \in Procesos /\ pid_global' \in 0 .. MaxProcesos
    BY <1>0, <1>1, ConstantesOK DEF IniciarProceso, PcbsOK, Procesos
  <2>2. PcbsOK'
    BY <1>0, <1>1, <2>1, ConstantesOK DEF IniciarProceso, PcbsOK, Creados, Estados
  <2>3. plani_new' \in Seq(Procesos)
    BY <1>0, <1>1, <2>1 DEF IniciarProceso, ColasOK
  <2>4. SemOK'
    BY <1>0, <1>1, AlSubir DEF IniciarProceso, Semaforos
  <2>5. HiloOK' /\ PcbOK' /\ ExecOK' /\ CpuOK'
    BY <1>0, <1>1 DEF IniciarProceso, HiloOK, PcbOK, ExecOK, CpuOK, maquina
  <2>6. ColasOK' /\ RestoOK'
    BY <1>0, <1>1, <2>3 DEF IniciarProceso, ColasOK, RestoOK, config, maquina, pausa
  <2> QED
    BY <2>2, <2>4, <2>5, <2>6 DEF Estructura
<1>2. CASE DetenerPlanificacion
  <2>1. consola' \in 0 .. 4
    BY <1>0, <1>2 DEF DetenerPlanificacion, RestoOK
  <2>2. SemOK'
    <3> DEFINE o == OrdenDetener[consola + 1]
    <3>1. sem[o] > 0 /\ sem' = [s \in Semaforos |->
                                  CASE s = o -> sem[s] - 1
                                    [] s = "sem_detener_planificacion" /\ consola = 4 -> sem[s] + 1
                                    [] OTHER -> sem[s]]
      BY <1>2 DEF DetenerPlanificacion
    <3> HIDE DEF o
    <3> QED
      BY <1>0, <3>1 DEF SemOK
  <2>3. HiloOK' /\ PcbOK' /\ ExecOK' /\ CpuOK' /\ ColasOK' /\ PcbsOK' /\ RestoOK'
    BY <1>0, <1>2, <2>1 DEF DetenerPlanificacion, HiloOK, PcbOK, ExecOK, CpuOK, ColasOK, PcbsOK,
       RestoOK, Creados, config, colas, pcbs, maquina
  <2> QED
    BY <2>2, <2>3 DEF Estructura
<1>3. CASE IniciarPlanificacion
  <2>1. SemOK'
    BY <1>0, <1>3 DEF IniciarPlanificacion, SemOK
  <2>2. HiloOK' /\ PcbOK' /\ ExecOK' /\ CpuOK' /\ ColasOK' /\ PcbsOK' /\ RestoOK'
    BY <1>0, <1>3 DEF IniciarPlanificacion, HiloOK, PcbOK, ExecOK, CpuOK, ColasOK, PcbsOK,
       RestoOK, Creados, config, colas, pcbs, maquina
  <2> QED
    BY <2>1, <2>2 DEF Estructura
<1>4. ASSUME NEW n \in Grados, CambiarMultiprogramacion(n) PROVE Estructura'
  <2>1. n \in Nat /\ "largo" \in Hilos /\ "corto" \in Hilos
    BY ConstantesOK DEF Hilos
  <2>2. SemOK'
    BY <1>0, <1>4, <2>1 DEF CambiarMultiprogramacion, SemOK
  <2>3. UNCHANGED <<plani_exec, cpu, mensaje>>
    BY <1>4 DEF CambiarMultiprogramacion, colas, maquina
  <2>4. HiloOK' /\ PcbOK' /\ ExecOK' /\ CpuOK'
    <3>1. CASE En("largo", "bloqueado")
      <4>1. "perdido" \in Puntos \ (EnMano \cup EnCola)
        BY DEF Puntos, EnEspera, EnMano, EnCola
      <4>2. /\ HiloOK' /\ hilo'["largo"].pc = "perdido"
            /\ \A g \in Hilos : g # "largo" => hilo'[g] = hilo[g]
        BY <1>0, <1>4, <2>1, <3>1, <4>1, AlSeguir DEF CambiarMultiprogramacion
      <4>3. PcbOK'
        BY <1>0, <2>1, <4>1, <4>2, PcbSigue
      <4>4. ExecOK' /\ CpuOK'
        BY <2>1, <2>3, <4>2, CortoAjeno
      <4> QED
        BY <4>2, <4>3, <4>4
    <3>2. CASE ~En("largo", "bloqueado")
      BY <1>0, <1>4, <2>3, <3>2 DEF CambiarMultiprogramacion, HiloOK, PcbOK, ExecOK, CpuOK
    <3> QED
      BY <3>1, <3>2
  <2>5. ColasOK' /\ PcbsOK' /\ RestoOK'
    BY <1>0, <1>4, <2>1 DEF CambiarMultiprogramacion, ColasOK, PcbsOK, RestoOK, Creados, colas,
       pcbs, maquina, pausa
  <2> QED
    BY <2>2, <2>4, <2>5 DEF Estructura
<1>5. (IF algoritmo_plani = "PRIORIDADES" THEN Prioridades ELSE {-1}) \subseteq Int
  BY ConstantesOK
<1> QED
  BY <1>1, <1>2, <1>3, <1>4, <1>5 DEF Consola

LEMMA TipoCpu ==
  ASSUME Estructura,
         \/ CpuDesaloja \/ \E c \in Servicios : CpuDevuelve(c)
         \/ \E p \in Procesos : VenceQuantum(p)
  PROVE  Estructura'
<1>0. ColasOK /\ PcbsOK /\ SemOK /\ HiloOK /\ RestoOK /\ PcbOK /\ ExecOK /\ CpuOK
  BY DEF Estructura
<1>1. ASSUME NEW c \in Servicios \cup {"DESALOJO"}, mensaje' = c, cpu # NULO, cpu' = NULO,
             interrupt_pid' \in {interrupt_pid, NULO},
             UNCHANGED <<config, colas, pcbs, sem, hilo, params, quantum, pausa, fallo>>
      PROVE  Estructura'
  <2>1. CpuOK'
    BY <1>0, <1>1 DEF CpuOK
  <2> QED
    BY <1>0, <1>1, <2>1 DEF Estructura, ColasOK, PcbsOK, SemOK, HiloOK, RestoOK, PcbOK, ExecOK,
       Creados, config, colas, pcbs, pausa
<1>2. CASE CpuDesaloja
  BY <1>1, <1>2 DEF CpuDesaloja
<1>3. ASSUME NEW c \in Servicios, CpuDevuelve(c) PROVE Estructura'
  BY <1>1, <1>3 DEF CpuDevuelve
<1>4. ASSUME NEW p \in Procesos, VenceQuantum(p) PROVE Estructura'
  <2>1. quantum' \in [Procesos -> Nat] /\ interrupt_pid' \in Procesos \cup {NULO}
    BY <1>0, <1>4 DEF VenceQuantum, RestoOK
  <2> QED
    BY <1>0, <1>4, <2>1 DEF VenceQuantum, Estructura, ColasOK, PcbsOK, SemOK, HiloOK, RestoOK,
       PcbOK, ExecOK, CpuOK, Creados, config, colas, pcbs, pausa
<1> QED
  BY <1>2, <1>3, <1>4

\* A thread is never moved to a place of PuntosFin, nor a planner to that of a page fault.
Vedados(h) == PuntosFin \cup (IF h \in {"largo", "corto"} THEN {"lee_params"} ELSE {})
FinAjeno   == \A h \in Hilos : hilo'[h].pc \in Vedados(h) => hilo'[h] = hilo[h]

LEMMA FinMueve ==
  ASSUME HiloOK, NEW h \in Hilos, NEW l, l \notin Vedados(h), NEW p, Sigue(h, l) \/ Va(h, l, p)
  PROVE  FinAjeno
BY DEF HiloOK, FinAjeno, Sigue, Va

LEMMA FinLanza ==
  ASSUME HiloOK, NEW l, l \notin PuntosFin, NEW p, Lanza(l, p)
  PROVE  FinAjeno
<1>1. PICK a \in Auxiliares :
        hilo' = [hilo EXCEPT ![a] = [pc |-> l, pcb |-> p],
                             !["corto"] = [pc |-> "espera_ready", pcb |-> NULO]]
  BY DEF Lanza, Libres
<1>2. "espera_ready" \notin Vedados("corto") /\ l \notin Vedados(a)
  BY ConstantesOK DEF Vedados, PuntosFin
<1> QED
  BY <1>1, <1>2 DEF HiloOK, FinAjeno, Hilos

LEMMA FinPaso == Estructura /\ [Next]_vars => FinAjeno
<1> SUFFICES ASSUME Estructura, [Next]_vars PROVE FinAjeno
  OBVIOUS
<1>1. HiloOK /\ "largo" \in Hilos /\ "corto" \in Hilos /\ Auxiliares \subseteq Hilos
  BY DEF Estructura, Hilos
<1>2. \A h : ({"espera_new", "espera_multi", "bloqueado", "perdido", "compuerta", "saca_new",
              "libre", "espera_ready", "espera_ejecutar", "elige", "espera"}
               \cup EnMano \cup EnCola) \cap Vedados(h) = {}
  BY DEF EnMano, EnCola, PuntosFin, Vedados
<1>3. \A h : EntradaReady \notin Vedados(h)
  BY EntradaLugar DEF PuntosFin, Vedados
<1>4. CASE Largo
  <2>1. \/ UNCHANGED hilo
        \/ \E l \in {"espera_multi", "bloqueado", "compuerta", "saca_new"} : Sigue("largo", l)
        \/ \E p : Va("largo", EntradaReady, p)
    BY <1>4 DEF Largo, LargoEsperaNew, LargoEsperaMulti, LargoCompuerta, LargoSaca
  <2>2. CASE UNCHANGED hilo
    BY <2>2 DEF FinAjeno
  <2> QED
    BY <1>1, <1>2, <1>3, <2>1, <2>2, FinMueve
<1>5. CASE Corto
  <2>1. CASE \/ CortoEsperaReady \/ CortoEsperaEjecutar \/ CortoElige \/ CortoAgregaExec
             \/ CortoDespacha \/ CortoRedespacha \/ CortoRecibe \/ CortoSacaExec \/ CortoContinua
             \/ CortoDesaloja
    <3>1. \/ UNCHANGED hilo
          \/ \E l \in {"espera_ejecutar", "elige", "espera_ready", "despacha", "atiende",
                       "redespacha", EntradaReady} : Sigue("corto", l)
          \/ \E p : \E l \in {"agrega_exec", "espera_cpu", "bloquea"} : Va("corto", l, p)
      BY <2>1 DEF CortoEsperaReady, CortoEsperaEjecutar, CortoElige, CortoAgregaExec,
         CortoDespacha, CortoRedespacha, CortoRecibe, CortoSacaExec, CortoContinua,
         CortoDesaloja, Envia
    <3>2. {"despacha", "atiende", "redespacha", "agrega_exec", "espera_cpu", "bloquea"}
            \subseteq EnMano
      BY DEF EnMano
    <3>3. CASE UNCHANGED hilo
      BY <3>3 DEF FinAjeno
    <3> QED
      BY <1>1, <1>2, <1>3, <3>1, <3>2, <3>3, FinMueve
  <2>2. CASE CortoFinaliza \/ CortoDuerme \/ CortoPideFS \/ CortoPageFault
    <3>1. \E l \in {"sale", "espera", "lee_params"} : \E p : Lanza(l, p)
      BY <2>2 DEF CortoFinaliza, CortoDuerme, CortoPideFS, CortoPageFault
    <3>2. {"sale", "espera", "lee_params"} \cap PuntosFin = {}
      BY DEF PuntosFin
    <3> QED
      BY <1>1, <3>1, <3>2, FinLanza
  <2> QED
    BY <1>5, <2>1, <2>2 DEF Corto
<1>6. ASSUME NEW h \in Hilos, AgregarAReady(h)
      PROVE  FinAjeno
  <2>1. \E l \in {"encola", "compara", "marca", "lista", "espera_new", "espera_ready", "libre"} :
          \E p : Sigue(h, l) \/ Va(h, l, p)
    BY <1>6 DEF AgregarAReady, MiraExec, Compara, Encola, Marca, Lista
  <2>2. {"encola", "compara"} \subseteq EnMano /\ {"marca", "lista"} \subseteq EnCola
    BY DEF EnMano, EnCola
  <2> QED
    BY <1>1, <1>2, <2>1, <2>2, FinMueve
<1>7. ASSUME NEW h \in Auxiliares, Auxiliar(h)
      PROVE  FinAjeno
  <2>1. \/ UNCHANGED hilo
        \/ \E l \in {EntradaReady, "pide_pagina", "libera", "libre"} :
             \E p : Sigue(h, l) \/ Va(h, l, p)
    BY <1>7 DEF Auxiliar, SaleDeBlock, LeeParams, ResuelvePf, SaleDelSistema, Libera
  <2>2. {"pide_pagina", "libera"} \subseteq EnMano
    BY DEF EnMano
  <2>3. CASE UNCHANGED hilo
    BY <2>3 DEF FinAjeno
  <2> QED
    BY <1>1, <1>2, <1>3, <2>1, <2>2, <2>3, FinMueve
<1>8. CASE Consola
  <2>1. UNCHANGED hilo \/ Sigue("largo", "perdido")
    BY <1>8 DEF Consola, IniciarProceso, DetenerPlanificacion, IniciarPlanificacion,
       CambiarMultiprogramacion
  <2>2. CASE UNCHANGED hilo
    BY <2>2 DEF FinAjeno
  <2> QED
    BY <1>1, <1>2, <2>1, <2>2, FinMueve
<1>9. CASE \/ CpuDesaloja \/ \E c \in Servicios : CpuDevuelve(c)
           \/ \E p \in Procesos : VenceQuantum(p)
           \/ UNCHANGED vars
  <2>1. UNCHANGED hilo
    BY <1>9 DEF CpuDesaloja, CpuDevuelve, VenceQuantum, vars
  <2> QED
    BY <2>1 DEF FinAjeno
<1> QED
  BY <1>4, <1>5, <1>6, <1>7, <1>8, <1>9 DEF Next

LEMMA TipoPaso == TipoInv /\ [Next]_vars => TipoInv'
<1> SUFFICES ASSUME TipoInv, [Next]_vars PROVE TipoInv'
  OBVIOUS
<1>1. Estructura'
  <2>1. Estructura
    BY DEF TipoInv
  <2>2. CASE UNCHANGED vars
    BY <2>1, <2>2 DEF vars, Estructura, ColasOK, PcbsOK, SemOK, HiloOK, RestoOK, PcbOK, ExecOK,
       CpuOK, Creados, config, colas, pcbs, maquina, pausa
  <2> QED
    BY <2>1, <2>2, TipoAgregar, TipoLargo, TipoCorto, TipoAuxiliar, TipoConsola, TipoCpu DEF Next
<1>2. BoolOK'
  BY BoolPaso DEF TipoInv
<1>3. SinFin'
  BY FinPaso DEF TipoInv, SinFin, FinAjeno, Vedados
<1> QED
  BY <1>1, <1>2, <1>3 DEF TipoInv

\* The inductive invariant behind the type: queues, pcbs, semaphores and threads, with
\* plani_exec and the CPU, in the shapes the code gives them.
THEOREM TipoSiempre == Spec => []TipoInv
BY TipoInicial, TipoPaso, PTL DEF Spec

\* The scheduler's variables keep their types, whatever the requests and the commands.
THEOREM TipoTeorema == Spec => []TipoOK
BY TipoSiempre, TipoInvTipo, PTL

\* plani_exec and the process on the CPU agree, for any number of processes, any algorithm,
\* any command of the console and any request, page faults included.
THEOREM ExecTeorema == Spec => []ExecCoherente
BY TipoSiempre, TipoInvTipo, PTL

-----------------------------------------------------------------------------
(* The two semaphores of READY count its processes *)

Uno(b)     == IF b THEN 1 ELSE 0
EnTransito == {h \in Hilos : hilo[h].pc \in EnCola}

\* A process in READY has posted pcbs_en_ready when it got in and will post puede_ejecutar
\* when its agregar_a_ready ends; the short-term planner consumes one of each per process.
Fichas ==
  /\ Len(plani_ready) = sem["pcbs_en_ready"]
                          + Uno(hilo["corto"].pc \in {"espera_ejecutar", "elige"})
  /\ Len(plani_ready) = sem["puede_ejecutar"] + Cardinality(EnTransito)
                          + Uno(hilo["corto"].pc = "elige")

LEMMA HilosFinitos == IsFiniteSet(Hilos) /\ "largo" \in Hilos /\ "corto" \in Hilos
<1>1. IsFiniteSet({"largo"} \cup {"corto"}) /\ {"largo"} \cup {"corto"} = {"largo", "corto"}
  BY FS_AddElement, FS_Singleton
<1> QED
  BY <1>1, ConstantesOK, FS_Union DEF Hilos

LEMMA TransitoFinito == IsFiniteSet(EnTransito) /\ Cardinality(EnTransito) \in Nat
<1>1. IsFiniteSet(EnTransito)
  BY HilosFinitos, FS_Subset DEF EnTransito
<1> QED
  BY <1>1, FS_CardinalityType

LEMMA FichasVarado == TipoInv /\ Fichas => NadieVarado
<1> SUFFICES ASSUME TipoInv, Fichas PROVE NadieVarado
  OBVIOUS
<1>0. /\ plani_ready \in Seq(Procesos) /\ Len(plani_ready) \in Nat
      /\ sem["pcbs_en_ready"] \in Nat /\ sem["puede_ejecutar"] \in Nat
  BY DEF TipoInv, Estructura, ColasOK, SemOK, Semaforos
<1>1. ASSUME En("corto", "espera_ready"), sem["pcbs_en_ready"] = 0 PROVE plani_ready = <<>>
  BY <1>0, <1>1 DEF Fichas, Uno, En
<1>2. ASSUME En("corto", "espera_ejecutar"), sem["puede_ejecutar"] = 0
      PROVE  \E h \in Hilos : hilo[h].pc \in EnCola
  <2>1. Len(plani_ready) >= 1 /\ Len(plani_ready) = Cardinality(EnTransito)
    BY <1>0, <1>2, TransitoFinito DEF Fichas, Uno, En
  <2>2. EnTransito # {}
    BY <2>1, FS_EmptySet
  <2> QED
    BY <2>2 DEF EnTransito
<1>3. ASSUME En("corto", "elige") PROVE plani_ready # <<>>
  BY <1>0, <1>3 DEF Fichas, Uno, En
<1> QED
  BY <1>1, <1>2, <1>3 DEF NadieVarado

LEMMA FichasInicial == Init => Fichas
<1> SUFFICES ASSUME Init PROVE Fichas
  OBVIOUS
<1>1. /\ \A h \in Hilos : hilo[h].pc \in {"espera_new", "espera_ready", "libre"}
      /\ hilo["corto"].pc = "espera_ready"
  BY DEF Init, Hilos
<1>2. EnTransito = {}
  BY <1>1 DEF EnTransito, EnCola
<1>3. sem["pcbs_en_ready"] = 0 /\ sem["puede_ejecutar"] = 0 /\ Len(plani_ready) = 0
  BY DEF Init, Semaforos, Compuertas
<1> QED
  BY <1>1, <1>2, <1>3, FS_EmptySet DEF Fichas, Uno

SemReady == UNCHANGED <<sem["pcbs_en_ready"], sem["puede_ejecutar"]>>

\* A step that touches neither READY nor what counts it.
LEMMA FichasMarco ==
  ASSUME Fichas, UNCHANGED plani_ready, SemReady,
         \A h \in Hilos : hilo'[h].pc \in EnCola <=> hilo[h].pc \in EnCola,
         \/ hilo'["corto"].pc = hilo["corto"].pc
         \/ /\ hilo["corto"].pc \notin {"espera_ejecutar", "elige"}
            /\ hilo'["corto"].pc \notin {"espera_ejecutar", "elige"}
  PROVE  Fichas'
<1>1. EnTransito' = EnTransito
  BY DEF EnTransito
<1> QED
  BY <1>1 DEF Fichas, Uno, SemReady

\* The same when one thread moves, away from READY.
LEMMA FichasSigue ==
  ASSUME Fichas, HiloOK, NEW h \in Hilos, NEW l \in Puntos \ EnCola,
         NEW p \in Procesos \cup {NULO}, Va(h, l, p) \/ Sigue(h, l),
         hilo[h].pc \notin EnCola, UNCHANGED plani_ready, SemReady,
         h = "corto" => {hilo[h].pc, l} \cap {"espera_ejecutar", "elige"} = {}
  PROVE  Fichas'
<1>1. hilo'[h].pc = l /\ \A g \in Hilos : g # h => hilo'[g] = hilo[g]
  BY AlIr, AlSeguir
<1> QED
  BY <1>1, FichasMarco, HilosFinitos

LEMMA FichasAgregar ==
  ASSUME TipoInv, Fichas, NEW h \in Hilos, AgregarAReady(h)
  PROVE  Fichas'
<1>0. /\ plani_ready \in Seq(Procesos) /\ SemOK /\ HiloOK /\ PcbOK
      /\ "pcbs_en_ready" \in Semaforos /\ "puede_ejecutar" \in Semaforos /\ "corto" \in Hilos
      /\ sem["pcbs_en_ready"] \in Nat /\ sem["puede_ejecutar"] \in Nat
  BY DEF TipoInv, Estructura, ColasOK, SemOK, Semaforos, Hilos
<1> DEFINE SinMoverFichas ==
       /\ hilo'["corto"].pc \in {"espera_ejecutar", "elige"}
            <=> hilo["corto"].pc \in {"espera_ejecutar", "elige"}
       /\ hilo'["corto"].pc = "elige" <=> hilo["corto"].pc = "elige"
<1>1. {"encola", "compara"} \subseteq Puntos \ EnCola
  BY DEF Puntos, EnMano, EnCola
<1>2. ASSUME MiraExec(h) \/ Compara(h) PROVE Fichas'
  <2>1. PICK l \in {"encola", "compara"} : Sigue(h, l)
    BY <1>2 DEF MiraExec, Compara
  <2>2. /\ UNCHANGED plani_ready /\ SemReady
        /\ hilo[h].pc \notin EnCola \cup {"espera_ejecutar", "elige"}
    BY <1>2 DEF MiraExec, Compara, colas, SemReady, En, EnCola
  <2> QED
    BY <1>0, <1>1, <2>1, <2>2, FichasSigue
<1>3. CASE Encola(h)
  <2>1. /\ hilo[h].pc = "encola" /\ hilo'[h].pc = "marca"
        /\ \A g \in Hilos : g # h => hilo'[g] = hilo[g]
    BY <1>0, <1>3, AlSeguir DEF Encola, En, Puntos, EnCola
  <2>2. hilo[h].pcb \in Procesos
    BY <1>0, <2>1 DEF PcbOK, EnMano
  <2>3. Len(plani_ready') = Len(plani_ready) + 1
    BY <1>0, <1>3, <2>2 DEF Encola, Pcb
  <2>4. /\ sem'["pcbs_en_ready"] = sem["pcbs_en_ready"] + 1
        /\ sem'["puede_ejecutar"] = sem["puede_ejecutar"]
    BY <1>0, <1>3, AlSubir DEF Encola
  <2>5. h \notin EnTransito /\ EnTransito' = EnTransito \cup {h}
    BY <2>1 DEF EnTransito, EnCola
  <2>6. Cardinality(EnTransito') = Cardinality(EnTransito) + 1
    BY <2>5, TransitoFinito, FS_AddElement
  <2>7. SinMoverFichas
    BY <1>0, <2>1
  <2>8. /\ Uno(hilo["corto"].pc \in {"espera_ejecutar", "elige"}) \in Nat
        /\ Uno(hilo["corto"].pc = "elige") \in Nat /\ Len(plani_ready) \in Nat
    BY <1>0 DEF Uno
  <2>9. /\ Uno(hilo'["corto"].pc \in {"espera_ejecutar", "elige"})
             = Uno(hilo["corto"].pc \in {"espera_ejecutar", "elige"})
        /\ Uno(hilo'["corto"].pc = "elige") = Uno(hilo["corto"].pc = "elige")
    BY <2>7 DEF Uno
  <2>10. /\ Len(plani_ready') = sem'["pcbs_en_ready"]
                                  + Uno(hilo'["corto"].pc \in {"espera_ejecutar", "elige"})
         /\ Len(plani_ready') = sem'["puede_ejecutar"] + Cardinality(EnTransito')
                                  + Uno(hilo'["corto"].pc = "elige")
    BY <1>0, <2>3, <2>4, <2>6, <2>8, <2>9, TransitoFinito DEF Fichas
  <2> QED
    BY <2>10 DEF Fichas
<1>4. CASE Marca(h)
  <2>1. /\ hilo[h].pc = "marca" /\ hilo'[h].pc = "lista"
        /\ \A g \in Hilos : g # h => hilo'[g] = hilo[g]
    BY <1>0, <1>4, AlSeguir DEF Marca, En, Puntos, EnCola
  <2> QED
    BY <1>0, <1>4, <2>1, FichasMarco DEF Marca, colas, SemReady, EnCola
<1>5. CASE Lista(h)
  <2>1. /\ hilo[h].pc = "lista" /\ hilo'[h].pc \in {"espera_new", "espera_ready", "libre"}
        /\ \A g \in Hilos : g # h => hilo'[g] = hilo[g]
    <3>1. PICK l \in {"espera_new", "espera_ready", "libre"} : Va(h, l, NULO)
      BY <1>5 DEF Lista
    <3> QED
      BY <1>0, <1>5, <3>1, AlIr DEF Lista, En, Puntos, EnEspera
  <2>2. /\ sem'["puede_ejecutar"] = sem["puede_ejecutar"] + 1
        /\ sem'["pcbs_en_ready"] = sem["pcbs_en_ready"] /\ UNCHANGED plani_ready
    BY <1>0, <1>5, AlSubir DEF Lista, colas
  <2>3. h \in EnTransito /\ EnTransito' = EnTransito \ {h}
    BY <2>1 DEF EnTransito, EnCola
  <2>4. Cardinality(EnTransito') = Cardinality(EnTransito) - 1
    BY <2>3, TransitoFinito, FS_RemoveElement
  <2>5. SinMoverFichas
    BY <1>0, <2>1
  <2> QED
    BY <1>0, <2>2, <2>4, <2>5, TransitoFinito DEF Fichas, Uno
<1> QED
  BY <1>2, <1>3, <1>4, <1>5 DEF AgregarAReady

LEMMA FichasLargo ==
  ASSUME TipoInv, Fichas, Largo
  PROVE  Fichas'
<1>0. HiloOK /\ SemOK /\ "largo" \in Hilos /\ hilo["largo"].pcb \in Procesos \cup {NULO}
  BY HilosFinitos DEF TipoInv, Estructura, HiloOK
<1>1. /\ UNCHANGED plani_ready /\ hilo["largo"].pc \notin EnCola
      /\ {"espera_multi", "bloqueado", "compuerta", "saca_new"} \subseteq Puntos \ EnCola
      /\ EntradaReady \in Puntos \ EnCola
  BY DEF Largo, LargoEsperaNew, LargoEsperaMulti, LargoCompuerta, LargoSaca, En, colas, Puntos,
     EnEspera, EnMano, EnCola, EntradaReady
<1>2. SemReady
  BY <1>0, AlBajar DEF Largo, LargoEsperaNew, LargoEsperaMulti, LargoCompuerta, LargoSaca, Cruza,
     SemReady, Semaforos
<1>3. CASE LargoEsperaNew \/ LargoEsperaMulti \/ LargoCompuerta
  <2>1. PICK l \in {"espera_multi", "bloqueado", "compuerta", "saca_new"} : Sigue("largo", l)
    BY <1>3 DEF LargoEsperaNew, LargoEsperaMulti, LargoCompuerta
  <2> QED
    BY <1>0, <1>1, <1>2, <2>1, FichasSigue
<1>4. CASE LargoSaca
  <2>1. CASE plani_new = <<>>
    BY <1>1, <1>2, <1>4, <2>1, FichasMarco DEF LargoSaca
  <2>2. CASE plani_new # <<>>
    <3>1. Head(plani_new) \in Procesos
      BY <2>2, EnCabeza DEF TipoInv, Estructura, ColasOK
    <3> QED
      BY <1>0, <1>1, <1>2, <1>4, <2>2, <3>1, FichasSigue DEF LargoSaca
  <2> QED
    BY <2>1, <2>2
<1> QED
  BY <1>3, <1>4 DEF Largo

\* A new thread does not start inside agregar_a_ready's second half.
LEMMA FichasLanza ==
  ASSUME Fichas, HiloOK, NEW l \in Puntos \ EnCola, NEW p \in Procesos \cup {NULO},
         Lanza(l, p), UNCHANGED plani_ready, SemReady,
         hilo["corto"].pc \notin EnCola \cup {"espera_ejecutar", "elige"}
  PROVE  Fichas'
<1>1. hilo'["corto"].pc = "espera_ready"
  BY AlLanzar
<1>2. PICK a \in Hilos \ {"corto"} :
        /\ hilo[a].pc = "libre" /\ hilo'[a].pc = l
        /\ \A g \in Hilos : g \notin {a, "corto"} => hilo'[g] = hilo[g]
  BY AlLanzar
<1>3. \A h \in Hilos : hilo'[h].pc \in EnCola <=> hilo[h].pc \in EnCola
  BY <1>1, <1>2 DEF EnCola
<1> QED
  BY <1>1, <1>3, FichasMarco

LEMMA FichasCorto ==
  ASSUME TipoInv, Fichas, Corto
  PROVE  Fichas'
<1> DEFINE p == hilo["corto"].pcb
<1>0. /\ HiloOK /\ SemOK /\ "corto" \in Hilos /\ p \in Procesos \cup {NULO}
      /\ plani_ready \in Seq(Procesos) /\ plani_exec \in Seq(Procesos)
      /\ Len(plani_ready) \in Nat
      /\ sem["pcbs_en_ready"] \in Nat /\ sem["puede_ejecutar"] \in Nat
  BY HilosFinitos, TransitoFinito DEF TipoInv, Estructura, HiloOK, ColasOK, SemOK, Semaforos
\* What becomes of the planner's thread when it goes on by itself.
<1>1. ASSUME NEW l \in Puntos, NEW q \in Procesos \cup {NULO},
             Va("corto", l, q) \/ Sigue("corto", l), hilo["corto"].pc \notin EnCola, l \notin EnCola
      PROVE  hilo'["corto"].pc = l /\ EnTransito' = EnTransito
  <2>1. hilo'["corto"].pc = l /\ \A g \in Hilos : g # "corto" => hilo'[g] = hilo[g]
    BY <1>0, <1>1, AlIr, AlSeguir
  <2> QED
    BY <1>1, <2>1 DEF EnTransito
<1>2. CASE CortoEsperaReady
  <2>1. /\ hilo["corto"].pc = "espera_ready" /\ "espera_ejecutar" \in Puntos \ EnCola
        /\ hilo["corto"].pc \notin EnCola
    BY <1>2 DEF CortoEsperaReady, En, Puntos, EnEspera, EnCola
  <2>2. hilo'["corto"].pc = "espera_ejecutar" /\ EnTransito' = EnTransito
    BY <1>0, <1>1, <1>2, <2>1 DEF CortoEsperaReady
  <2>3. /\ sem'["pcbs_en_ready"] = sem["pcbs_en_ready"] - 1
        /\ sem'["puede_ejecutar"] = sem["puede_ejecutar"] /\ UNCHANGED plani_ready
    BY <1>0, <1>2, AlBajar DEF CortoEsperaReady, Semaforos, colas
  <2> QED
    BY <1>0, <2>1, <2>2, <2>3 DEF Fichas, Uno
<1>3. CASE CortoEsperaEjecutar
  <2>1. /\ hilo["corto"].pc = "espera_ejecutar" /\ "elige" \in Puntos \ EnCola
        /\ hilo["corto"].pc \notin EnCola
    BY <1>3 DEF CortoEsperaEjecutar, En, Puntos, EnEspera, EnCola
  <2>2. hilo'["corto"].pc = "elige" /\ EnTransito' = EnTransito
    BY <1>0, <1>1, <1>3, <2>1 DEF CortoEsperaEjecutar
  <2>3. /\ sem'["puede_ejecutar"] = sem["puede_ejecutar"] - 1
        /\ sem'["pcbs_en_ready"] = sem["pcbs_en_ready"] /\ UNCHANGED plani_ready
    BY <1>0, <1>3, AlBajar DEF CortoEsperaEjecutar, Semaforos
  <2> QED
    BY <1>0, <2>1, <2>2, <2>3, TransitoFinito DEF Fichas, Uno
<1>4. CASE CortoElige
  <2>1. /\ hilo["corto"].pc = "elige" /\ "agrega_exec" \in Puntos \ EnCola
        /\ hilo["corto"].pc \notin EnCola /\ UNCHANGED sem
    BY <1>4 DEF CortoElige, En, Puntos, EnMano, EnCola
  <2>2. plani_ready # <<>>
    BY <1>0, <2>1 DEF Fichas, Uno
  <2>3. PICK i \in DOMAIN plani_ready : /\ plani_ready' = RemoveAt(plani_ready, i)
                                        /\ Va("corto", "agrega_exec", plani_ready[i])
    BY <1>4, <2>2 DEF CortoElige
  <2>4. plani_ready[i] \in Procesos /\ Len(plani_ready') = Len(plani_ready) - 1
    BY <1>0, <2>3, AlQuitar
  <2>5. hilo'["corto"].pc = "agrega_exec" /\ EnTransito' = EnTransito
    BY <1>0, <1>1, <2>1, <2>3, <2>4
  <2>6. /\ Len(plani_ready) = sem["pcbs_en_ready"] + 1
        /\ Len(plani_ready) = sem["puede_ejecutar"] + Cardinality(EnTransito) + 1
    BY <2>1 DEF Fichas, Uno
  <2>7. /\ Len(plani_ready') = sem'["pcbs_en_ready"]
        /\ Len(plani_ready') = sem'["puede_ejecutar"] + Cardinality(EnTransito')
    BY <1>0, <2>1, <2>4, <2>5, <2>6, TransitoFinito
  <2> QED
    BY <1>0, <2>1, <2>5, <2>7, TransitoFinito DEF Fichas, Uno
<1>5. CASE \/ CortoAgregaExec \/ CortoDespacha \/ CortoRedespacha \/ CortoRecibe
           \/ CortoSacaExec \/ CortoContinua \/ CortoDesaloja
  <2>1. /\ hilo["corto"].pc \notin EnCola \cup {"espera_ejecutar", "elige"}
        /\ UNCHANGED plani_ready /\ SemReady
    BY <1>5 DEF CortoAgregaExec, CortoDespacha, CortoRedespacha, CortoRecibe, CortoSacaExec,
       CortoContinua, CortoDesaloja, Atiende, Cruza, En, EnCola, SemReady, colas
  <2>2. CASE CortoRedespacha /\ plani_exec = <<>>
    BY <2>1, <2>2, FichasMarco DEF CortoRedespacha
  <2>3. CASE ~(CortoRedespacha /\ plani_exec = <<>>)
    <3>1. PICK l \in {"despacha", "espera_cpu", "atiende", "bloquea", "redespacha",
                      "espera_ready", EntradaReady} :
               Sigue("corto", l) \/ \E q : Va("corto", l, q)
      BY <1>5, <2>3 DEF CortoAgregaExec, CortoDespacha, CortoRedespacha, CortoRecibe,
         CortoSacaExec, CortoContinua, CortoDesaloja, Envia
    <3>2. /\ hilo'["corto"].pc \notin EnCola \cup {"espera_ejecutar", "elige"}
          /\ \A g \in Hilos : g # "corto" => hilo'[g] = hilo[g]
      BY <1>0, <3>1, EntradaLugar DEF HiloOK, Sigue, Va, EnCola
    <3> QED
      BY <2>1, <3>2, FichasMarco
  <2> QED
    BY <2>2, <2>3
<1>6. CASE CortoFinaliza \/ CortoDuerme \/ CortoPideFS \/ CortoPageFault
  <2>1. /\ hilo["corto"].pc \notin EnCola \cup {"espera_ejecutar", "elige"}
        /\ UNCHANGED plani_ready /\ SemReady
    BY <1>6 DEF CortoFinaliza, CortoDuerme, CortoPideFS, CortoPageFault, Atiende, En, EnCola,
       SemReady, colas
  <2>2. PICK l \in {"sale", "espera", "lee_params"}, q \in {p, NULO} : Lanza(l, q)
    BY <1>6 DEF CortoFinaliza, CortoDuerme, CortoPideFS, CortoPageFault, Pcb
  <2>3. l \in Puntos \ EnCola
    BY DEF Puntos, EnEspera, EnMano, EnCola
  <2> QED
    BY <1>0, <2>1, <2>2, <2>3, FichasLanza
<1> QED
  BY <1>2, <1>3, <1>4, <1>5, <1>6 DEF Corto

LEMMA FichasAuxiliar ==
  ASSUME TipoInv, Fichas, NEW h \in Auxiliares, Auxiliar(h)
  PROVE  Fichas'
<1>0. HiloOK /\ SemOK /\ PcbsOK /\ h \in Hilos /\ h # "corto"
  BY ConstantesOK DEF TipoInv, Estructura, Hilos
<1>1. UNCHANGED plani_ready /\ hilo[h].pc \notin EnCola
  BY DEF Auxiliar, SaleDeBlock, LeeParams, ResuelvePf, SaleDelSistema, Libera, En, EnCola, colas
<1>2. SemReady
  BY <1>0, AlSubir DEF Auxiliar, SaleDeBlock, LeeParams, ResuelvePf, SaleDelSistema, Libera, Cruza,
     SemReady, Semaforos
<1>3. /\ {"libera", "libre", "pide_pagina", EntradaReady} \subseteq Puntos \ EnCola
  BY EntradaLugar DEF Puntos, EnEspera, EnMano, EnCola, EntradaReady
<1>4. CASE LeeParams(h) /\ params \notin total_pcbs
  BY <1>1, <1>2, <1>4, FichasMarco DEF LeeParams
<1>5. CASE ~(LeeParams(h) /\ params \notin total_pcbs)
  <2>1. PICK l \in {"libera", "libre", "pide_pagina", EntradaReady} :
             Sigue(h, l) \/ \E q \in total_pcbs \cup {NULO} : Va(h, l, q)
    BY <1>5 DEF Auxiliar, SaleDeBlock, LeeParams, ResuelvePf, SaleDelSistema, Libera
  <2>2. total_pcbs \subseteq Procesos
    BY <1>0, ConstantesOK DEF PcbsOK, Creados, Procesos
  <2> QED
    BY <1>0, <1>1, <1>2, <1>3, <2>1, <2>2, FichasSigue
<1> QED
  BY <1>4, <1>5

LEMMA FichasConsola ==
  ASSUME TipoInv, Fichas, Consola
  PROVE  Fichas'
<1>0. HiloOK /\ SemOK /\ RestoOK
  BY DEF TipoInv, Estructura
<1>1. ASSUME NEW prio, IniciarProceso(prio) PROVE Fichas'
  <2>1. SemReady /\ UNCHANGED <<plani_ready, hilo>>
    BY <1>0, <1>1, AlSubir DEF IniciarProceso, SemReady, Semaforos
  <2> QED
    BY <2>1, FichasMarco
<1>2. CASE DetenerPlanificacion
  <2>1. OrdenDetener[consola + 1] \in Compuertas
    BY <1>0 DEF OrdenDetener, Compuertas, RestoOK
  <2>2. SemReady /\ UNCHANGED <<plani_ready, hilo>>
    BY <1>0, <1>2, <2>1 DEF DetenerPlanificacion, SemReady, SemOK, Semaforos, Compuertas, colas
  <2> QED
    BY <2>2, FichasMarco
<1>3. CASE IniciarPlanificacion
  <2>1. SemReady /\ UNCHANGED <<plani_ready, hilo>>
    BY <1>0, <1>3 DEF IniciarPlanificacion, SemReady, SemOK, Semaforos, Compuertas, colas
  <2> QED
    BY <2>1, FichasMarco
<1>4. ASSUME NEW n \in Grados, CambiarMultiprogramacion(n) PROVE Fichas'
  <2>1. SemReady /\ UNCHANGED plani_ready
    BY <1>0, <1>4 DEF CambiarMultiprogramacion, SemReady, SemOK, Semaforos, colas
  <2>2. CASE En("largo", "bloqueado")
    <3>1. "perdido" \in Puntos \ EnCola /\ hilo["largo"].pc \notin EnCola
      BY <2>2 DEF Puntos, EnEspera, EnCola, En
    <3>2. Sigue("largo", "perdido")
      BY <1>4, <2>2 DEF CambiarMultiprogramacion
    <3>3. "largo" # "corto" /\ NULO \in Procesos \cup {NULO}
      OBVIOUS
    <3> QED
      BY <1>0, <2>1, <3>1, <3>2, <3>3, FichasSigue, HilosFinitos
  <2>3. CASE ~En("largo", "bloqueado")
    BY <1>4, <2>1, <2>3, FichasMarco DEF CambiarMultiprogramacion
  <2> QED
    BY <2>2, <2>3
<1> QED
  BY <1>1, <1>2, <1>3, <1>4 DEF Consola

LEMMA FichasPaso == TipoInv /\ Fichas /\ [Next]_vars => Fichas'
<1> SUFFICES ASSUME TipoInv, Fichas, [Next]_vars PROVE Fichas'
  OBVIOUS
<1>1. CASE \/ CpuDesaloja \/ \E c \in Servicios : CpuDevuelve(c)
           \/ \E p \in Procesos : VenceQuantum(p)
           \/ UNCHANGED vars
  <2>1. UNCHANGED <<plani_ready, hilo, sem>>
    BY <1>1 DEF CpuDesaloja, CpuDevuelve, VenceQuantum, vars, colas
  <2> QED
    BY <2>1, FichasMarco DEF SemReady
<1> QED
  BY <1>1, FichasAgregar, FichasLargo, FichasCorto, FichasAuxiliar, FichasConsola DEF Next

\* The short-term planner never sleeps beside a ready process nobody is announcing, and
\* never finds READY empty once it has passed both semaphores.
THEOREM VaradoTeorema == Spec => []NadieVarado
<1>1. Init => TipoInv /\ Fichas
  BY TipoInicial, FichasInicial
<1>2. TipoInv /\ Fichas /\ [Next]_vars => (TipoInv /\ Fichas)'
  BY TipoPaso, FichasPaso
<1> QED
  BY <1>1, <1>2, FichasVarado, PTL DEF Spec

-----------------------------------------------------------------------------
(* What the scheduler guarantees under hypotheses on what it is asked: without page faults it   *)
(* neither duplicates nor loses a process; if besides no MULTIPROGRAMACION command is given, it *)
(* respects the multiprogramming degree; and if INICIAR_PLANIFICACION is only given to a paused *)
(* scheduler, a pause is a pause.                                                               *)
(* The hypotheses are needed: the page-fault threads read a pid from a stack cell that a later  *)
(* fault overwrites, MULTIPROGRAMACION rebuilds its semaphore whatever the number of processes  *)
(* already admitted, and INICIAR_PLANIFICACION opens gates that are already open.               *)

SinFaltas == "PAGE_FAULT" \notin Servicios
SinCambio == "MULTIPROGRAMACION" \notin Comandos
UnaPausa  == MaxCompuerta = 1

-----------------------------------------------------------------------------
(* Each process in one place *)

EnColas == ToSet(plani_new) \cup ToSet(plani_ready)

ColasUnicas ==
  /\ IsInjective(plani_new) /\ IsInjective(plani_ready)
  /\ ToSet(plani_new) \cap ToSet(plani_ready) = {}
  /\ EnColas \subseteq total_pcbs /\ EnColas \cap plani_exit = {}
  /\ plani_exit \subseteq Creados

\* A thread that has a process has it alone, and its t_pcb is allocated; the process is in
\* plani_exit only between the two halves of agregar_a_exit.
ManosUnicas ==
  \A h \in Hilos : hilo[h].pc \in EnMano =>
    /\ hilo[h].pcb \in total_pcbs \ EnColas
    /\ hilo[h].pcb \in plani_exit <=> hilo[h].pc = "libera"
    /\ \A g \in Hilos \ {h} : hilo[g].pc \in EnMano => hilo[g].pcb # hilo[h].pcb

NadieFalta ==
  /\ mensaje # "PAGE_FAULT"
  /\ \A h \in Hilos : hilo[h].pc \notin {"lee_params", "pide_pagina"}

Unicos == ColasUnicas /\ ManosUnicas /\ NadieFalta

LEMMA UnicosDuplicados == Unicos => SinDuplicados
BY DEF Unicos, ColasUnicas, ManosUnicas, SinDuplicados, EnColas, Posee, Pcb

LEMMA UnicosInicial ==
  ASSUME Init
  PROVE  Unicos
<1>1. ToSet(<<>>) = {} /\ IsInjective(<<>>)
  BY DEF ToSet, IsInjective
<1>2. \A h \in Hilos : hilo[h].pc \in {"espera_new", "espera_ready", "libre"}
  BY DEF Init
<1>3. ColasUnicas
  BY <1>1 DEF Init, ColasUnicas, EnColas
<1>4. ManosUnicas
  BY <1>2 DEF ManosUnicas, EnMano
<1>5. NadieFalta
  BY <1>2, ConstantesOK DEF Init, NadieFalta, TodosLosServicios
<1> QED
  BY <1>3, <1>4, <1>5 DEF Unicos

\* A step in which the queues stay and every thread that ends up with a process had it.
LEMMA UnicosMarco ==
  ASSUME Unicos, UNCHANGED <<plani_new, plani_ready, plani_exit, total_pcbs, pid_global>>,
         \A h \in Hilos : hilo'[h].pc \in EnMano =>
           /\ hilo[h].pc \in EnMano /\ hilo'[h].pcb = hilo[h].pcb
           /\ hilo'[h].pc = "libera" <=> hilo[h].pc = "libera",
         NadieFalta'
  PROVE  Unicos'
<1>1. ColasUnicas'
  BY DEF Unicos, ColasUnicas, EnColas, Creados
<1>2. EnColas' = EnColas
  BY DEF EnColas
<1>3. ManosUnicas'
  BY <1>2 DEF Unicos, ManosUnicas
<1> QED
  BY <1>1, <1>3 DEF Unicos

\* A thread without a process takes one that no other thread has.
LEMMA ManosToma ==
  ASSUME ManosUnicas, NEW h \in Hilos, hilo'[h].pc \in EnMano, hilo'[h].pc # "libera",
         \A g \in Hilos : g # h => hilo'[g] = hilo[g],
         \A g \in Hilos \ {h} : hilo[g].pc \in EnMano => hilo[g].pcb # hilo'[h].pcb,
         hilo'[h].pcb \in total_pcbs \ EnColas', hilo'[h].pcb \notin plani_exit,
         EnColas' \subseteq EnColas, UNCHANGED <<total_pcbs, plani_exit>>
  PROVE  ManosUnicas'
BY DEF ManosUnicas

\* One thread moves and keeps what it had, or has nothing.
LEMMA UnicosSigue ==
  ASSUME Unicos, NEW h \in Hilos, \A g \in Hilos : g # h => hilo'[g] = hilo[g],
         UNCHANGED <<plani_new, plani_ready, plani_exit, total_pcbs, pid_global>>,
         mensaje' # "PAGE_FAULT", hilo'[h].pc \notin {"lee_params", "pide_pagina"},
         hilo'[h].pc \in EnMano =>
           /\ hilo[h].pc \in EnMano /\ hilo'[h].pcb = hilo[h].pcb
           /\ hilo'[h].pc = "libera" <=> hilo[h].pc = "libera"
  PROVE  Unicos'
<1>1. NadieFalta'
  BY DEF Unicos, NadieFalta
<1> QED
  BY <1>1, UnicosMarco

LEMMA UnicosAgregar ==
  ASSUME TipoInv, Unicos, NEW h \in Hilos, AgregarAReady(h)
  PROVE  Unicos'
<1>0. HiloOK /\ plani_ready \in Seq(Procesos) /\ PcbOK /\ ColasUnicas /\ ManosUnicas /\ NadieFalta
  BY DEF TipoInv, Estructura, ColasOK, Unicos
<1>1. mensaje' # "PAGE_FAULT"
  BY <1>0 DEF NadieFalta, AgregarAReady, MiraExec, Compara, Encola, Marca, Lista, maquina
<1>2. CASE MiraExec(h) \/ Compara(h)
  <2>1. PICK l \in {"encola", "compara"} : Sigue(h, l)
    BY <1>2 DEF MiraExec, Compara
  <2>2. l \in Puntos /\ l \in EnMano \ {"libera", "pide_pagina"} /\ l # "lee_params"
    BY DEF Puntos, EnMano
  <2>3. /\ hilo'[h].pc = l /\ hilo'[h].pcb = hilo[h].pcb
        /\ \A g \in Hilos : g # h => hilo'[g] = hilo[g]
    BY <1>0, <2>1, <2>2, AlSeguir
  <2>4. /\ hilo[h].pc \in EnMano /\ hilo[h].pc # "libera"
        /\ UNCHANGED <<plani_new, plani_ready, plani_exit, total_pcbs, pid_global>>
    BY <1>2 DEF MiraExec, Compara, En, EnMano, colas, pcbs
  <2> QED
    BY <1>1, <2>2, <2>3, <2>4, UnicosSigue
<1>3. CASE Encola(h)
  <2> DEFINE p == hilo[h].pcb
  <2>1. hilo[h].pc = "encola" /\ hilo[h].pc \in EnMano /\ p \in Procesos
    BY <1>0, <1>3 DEF Encola, En, EnMano, PcbOK
  <2>2. p \in total_pcbs \ EnColas /\ p \notin plani_exit
    BY <1>0, <2>1 DEF ManosUnicas
  <2>3. /\ hilo'[h].pc = "marca" /\ "marca" \notin EnMano
        /\ \A g \in Hilos : g # h => hilo'[g] = hilo[g]
    BY <1>0, <1>3, AlSeguir DEF Encola, Puntos, EnCola, EnMano
  <2>4. ToSet(plani_ready') = ToSet(plani_ready) \cup {p} /\ IsInjective(plani_ready')
    BY <1>0, <1>3, <2>1, <2>2, EnAgregado DEF Encola, Pcb, ColasUnicas, EnColas
  <2>5. UNCHANGED <<plani_new, plani_exit, total_pcbs, pid_global>>
    BY <1>3 DEF Encola, pcbs
  <2>6. EnColas' = EnColas \cup {p}
    BY <2>4, <2>5 DEF EnColas
  <2>7. ColasUnicas'
    BY <1>0, <2>2, <2>4, <2>5, <2>6 DEF ColasUnicas, EnColas, Creados
  <2>8. ManosUnicas'
    BY <1>0, <2>1, <2>3, <2>5, <2>6 DEF ManosUnicas
  <2>9. NadieFalta'
    BY <1>0, <1>1, <2>3 DEF NadieFalta
  <2> QED
    BY <2>7, <2>8, <2>9 DEF Unicos
<1>4. CASE Marca(h) \/ Lista(h)
  <2>1. PICK l \in {"lista", "espera_new", "espera_ready", "libre"} :
             Sigue(h, l) \/ Va(h, l, NULO)
    BY <1>4 DEF Marca, Lista
  <2>2. l \in Puntos \ (EnMano \cup {"lee_params", "pide_pagina"})
    BY DEF Puntos, EnEspera, EnMano, EnCola
  <2>3. hilo'[h].pc = l /\ \A g \in Hilos : g # h => hilo'[g] = hilo[g]
    BY <1>0, <2>1, <2>2, AlSeguir, AlIr
  <2>4. UNCHANGED <<plani_new, plani_ready, plani_exit, total_pcbs, pid_global>>
    BY <1>4 DEF Marca, Lista, colas, pcbs
  <2> QED
    BY <1>1, <2>2, <2>3, <2>4, UnicosSigue
<1> QED
  BY <1>2, <1>3, <1>4 DEF AgregarAReady

LEMMA UnicosLargo ==
  ASSUME TipoInv, Unicos, Largo
  PROVE  Unicos'
<1>0. /\ HiloOK /\ plani_new \in Seq(Procesos) /\ ColasUnicas /\ ManosUnicas /\ NadieFalta
      /\ "largo" \in Hilos
  BY HilosFinitos DEF TipoInv, Estructura, ColasOK, Unicos
<1>1. mensaje' # "PAGE_FAULT"
  BY <1>0 DEF NadieFalta, Largo, LargoEsperaNew, LargoEsperaMulti, LargoCompuerta, LargoSaca,
     maquina
<1>2. CASE LargoEsperaNew \/ LargoEsperaMulti \/ LargoCompuerta
  <2>1. PICK l \in {"espera_multi", "bloqueado", "compuerta", "saca_new"} : Sigue("largo", l)
    BY <1>2 DEF LargoEsperaNew, LargoEsperaMulti, LargoCompuerta
  <2>2. l \in Puntos \ (EnMano \cup {"lee_params", "pide_pagina"})
    BY DEF Puntos, EnEspera, EnMano
  <2>3. hilo'["largo"].pc = l /\ \A g \in Hilos : g # "largo" => hilo'[g] = hilo[g]
    BY <1>0, <2>1, <2>2, AlSeguir
  <2>4. UNCHANGED <<plani_new, plani_ready, plani_exit, total_pcbs, pid_global>>
    BY <1>2 DEF LargoEsperaNew, LargoEsperaMulti, LargoCompuerta, colas, pcbs
  <2> QED
    BY <1>0, <1>1, <2>2, <2>3, <2>4, UnicosSigue
<1>3. CASE LargoSaca
  <2>0. UNCHANGED <<plani_ready, plani_exit, total_pcbs, pid_global>>
    BY <1>3 DEF LargoSaca, pcbs
  <2>1. CASE plani_new = <<>>
    <3>1. UNCHANGED <<plani_new, hilo>>
      BY <1>3, <2>1 DEF LargoSaca
    <3> QED
      BY <1>0, <1>1, <2>0, <3>1, UnicosMarco DEF NadieFalta
  <2>2. CASE plani_new # <<>>
    <3> DEFINE p == Head(plani_new)
    <3>1. plani_new' = Tail(plani_new) /\ Va("largo", EntradaReady, p)
      BY <1>3, <2>2 DEF LargoSaca
    <3>2. /\ p \in Procesos /\ ToSet(plani_new) = ToSet(plani_new') \cup {p}
          /\ IsInjective(plani_new') /\ p \notin ToSet(plani_new')
      BY <1>0, <2>2, <3>1, EnCabeza DEF ColasUnicas
    <3>3. /\ hilo'["largo"].pc = EntradaReady /\ hilo'["largo"].pcb = p
          /\ \A g \in Hilos : g # "largo" => hilo'[g] = hilo[g]
      BY <1>0, <3>1, <3>2, AlIr, EntradaLugar
    <3>4. p \in total_pcbs /\ p \in EnColas /\ p \notin EnColas' /\ p \notin plani_exit
      BY <1>0, <2>0, <3>2 DEF ColasUnicas, EnColas
    <3>5. ColasUnicas'
      BY <1>0, <2>0, <3>2 DEF ColasUnicas, EnColas, Creados
    <3>6. EnColas' \subseteq EnColas
      BY <2>0, <3>2 DEF EnColas
    <3>7. EntradaReady \in EnMano /\ EntradaReady \notin {"libera", "lee_params", "pide_pagina"}
      BY EntradaLugar
    <3>8. \A g \in Hilos : hilo[g].pc \in EnMano => hilo[g].pcb # p
      BY <1>0, <3>4 DEF ManosUnicas
    <3>9. ManosUnicas'
      BY <1>0, <2>0, <3>3, <3>4, <3>6, <3>7, <3>8, ManosToma
    <3>10. NadieFalta'
      BY <1>0, <1>1, <3>3, <3>7 DEF NadieFalta
    <3> QED
      BY <3>5, <3>9, <3>10 DEF Unicos
  <2> QED
    BY <2>1, <2>2
<1> QED
  BY <1>2, <1>3 DEF Largo

\* The planner's process passes to a new thread.
LEMMA UnicosLanza ==
  ASSUME Unicos, HiloOK, NEW l \in {"sale", "espera"}, Lanza(l, hilo["corto"].pcb),
         hilo["corto"].pc \in EnMano \ {"libera"}, mensaje' # "PAGE_FAULT",
         UNCHANGED <<plani_new, plani_ready, plani_exit, total_pcbs, pid_global>>
  PROVE  Unicos'
<1>0. /\ "corto" \in Hilos /\ l \in Puntos /\ l \in EnMano \ {"libera", "pide_pagina"}
      /\ hilo["corto"].pcb \in Procesos \cup {NULO}
  BY HilosFinitos DEF Puntos, EnMano, HiloOK
<1>1. hilo'["corto"].pc = "espera_ready" /\ "espera_ready" \notin EnMano
  BY <1>0, AlLanzar DEF EnMano
<1>2. PICK a \in Hilos \ {"corto"} :
        /\ hilo'[a].pc = l /\ hilo'[a].pcb = hilo["corto"].pcb
        /\ \A g \in Hilos : g \notin {a, "corto"} => hilo'[g] = hilo[g]
  BY <1>0, AlLanzar
<1>3. ColasUnicas' /\ EnColas' = EnColas
  BY DEF Unicos, ColasUnicas, EnColas, Creados
<1>4. ManosUnicas'
  BY <1>0, <1>1, <1>2, <1>3 DEF Unicos, ManosUnicas
<1>5. NadieFalta'
  BY <1>0, <1>1, <1>2 DEF Unicos, NadieFalta
<1> QED
  BY <1>3, <1>4, <1>5 DEF Unicos

LEMMA UnicosCorto ==
  ASSUME TipoInv, Unicos, Corto
  PROVE  Unicos'
<1> DEFINE p == hilo["corto"].pcb
<1>0. /\ HiloOK /\ plani_ready \in Seq(Procesos) /\ ColasUnicas /\ ManosUnicas /\ NadieFalta
      /\ ExecOK /\ "corto" \in Hilos
  BY HilosFinitos DEF TipoInv, Estructura, ColasOK, Unicos
<1>1. ~CortoPageFault
  BY <1>0 DEF CortoPageFault, Atiende, NadieFalta
<1>2. mensaje' # "PAGE_FAULT"
  <2>1. NULO # "PAGE_FAULT"
    BY ConstantesOK DEF TodosLosServicios
  <2> QED
    BY <1>0, <1>1, <2>1 DEF NadieFalta, Corto, CortoEsperaReady, CortoEsperaEjecutar, CortoElige,
       CortoAgregaExec, CortoDespacha, CortoRedespacha, CortoRecibe, CortoFinaliza, CortoSacaExec,
       CortoDuerme, CortoPideFS, CortoContinua, CortoDesaloja, Envia, Atiende, maquina
<1>3. ASSUME UNCHANGED <<plani_new, plani_ready, plani_exit, total_pcbs, pid_global>>,
             NEW l \in {"espera_ejecutar", "elige", "espera_ready"}, Sigue("corto", l)
      PROVE  Unicos'
  <2>1. l \in Puntos \ (EnMano \cup {"lee_params", "pide_pagina"})
    BY DEF Puntos, EnEspera, EnMano
  <2>2. hilo'["corto"].pc = l /\ \A g \in Hilos : g # "corto" => hilo'[g] = hilo[g]
    BY <1>0, <1>3, <2>1, AlSeguir
  <2> QED
    BY <1>0, <1>2, <1>3, <2>1, <2>2, UnicosSigue
<1>4. CASE CortoEsperaReady \/ CortoEsperaEjecutar \/ (CortoElige /\ plani_ready = <<>>)
  BY <1>3, <1>4 DEF CortoEsperaReady, CortoEsperaEjecutar, CortoElige, colas, pcbs
<1>5. CASE CortoElige /\ plani_ready # <<>>
  <2>1. PICK i \in DOMAIN plani_ready : /\ plani_ready' = RemoveAt(plani_ready, i)
                                        /\ Va("corto", "agrega_exec", plani_ready[i])
    BY <1>5 DEF CortoElige
  <2> DEFINE q == plani_ready[i]
  <2>2. /\ q \in Procesos /\ ToSet(plani_ready) = ToSet(plani_ready') \cup {q}
        /\ IsInjective(plani_ready') /\ q \notin ToSet(plani_ready')
    BY <1>0, <2>1, AlQuitar DEF ColasUnicas
  <2>3. UNCHANGED <<plani_new, plani_exit, total_pcbs, pid_global>>
    BY <1>5 DEF CortoElige, pcbs
  <2>4. /\ "agrega_exec" \in Puntos
        /\ "agrega_exec" \in EnMano \ {"libera", "lee_params", "pide_pagina"}
    BY DEF Puntos, EnMano
  <2>5. /\ hilo'["corto"].pc = "agrega_exec" /\ hilo'["corto"].pcb = q
        /\ \A g \in Hilos : g # "corto" => hilo'[g] = hilo[g]
    BY <1>0, <2>1, <2>2, <2>4, AlIr
  <2>6. q \in total_pcbs /\ q \in EnColas /\ q \notin EnColas' /\ q \notin plani_exit
    BY <1>0, <2>2, <2>3 DEF ColasUnicas, EnColas
  <2>7. ColasUnicas' /\ EnColas' \subseteq EnColas
    BY <1>0, <2>2, <2>3 DEF ColasUnicas, EnColas, Creados
  <2>8. \A g \in Hilos : hilo[g].pc \in EnMano => hilo[g].pcb # q
    BY <1>0, <2>6 DEF ManosUnicas
  <2>9. ManosUnicas'
    BY <1>0, <2>3, <2>4, <2>5, <2>6, <2>7, <2>8, ManosToma
  <2>10. NadieFalta'
    BY <1>0, <1>2, <2>4, <2>5 DEF NadieFalta
  <2> QED
    BY <2>7, <2>9, <2>10 DEF Unicos
<1>6. ASSUME UNCHANGED <<plani_new, plani_ready, plani_exit, total_pcbs, pid_global>>,
             NEW l \in {"despacha", "espera_cpu", "atiende", "redespacha", "bloquea", EntradaReady},
             Sigue("corto", l) \/ Va("corto", l, p), hilo["corto"].pc \in EnMano \ {"libera"}
      PROVE  Unicos'
  <2>1. l \in Puntos /\ l \in EnMano \ {"libera", "lee_params", "pide_pagina"}
    BY EntradaLugar DEF Puntos, EnMano
  <2>2. /\ hilo'["corto"].pc = l /\ hilo'["corto"].pcb = p
        /\ \A g \in Hilos : g # "corto" => hilo'[g] = hilo[g]
    BY <1>0, <1>6, <2>1, AlSeguir, AlIr DEF HiloOK
  <2> QED
    BY <1>0, <1>2, <1>6, <2>1, <2>2, UnicosSigue
<1>7. CASE CortoAgregaExec \/ CortoDespacha \/ CortoRecibe \/ CortoContinua
  <2>1. /\ UNCHANGED <<plani_new, plani_ready, plani_exit, total_pcbs, pid_global>>
        /\ hilo["corto"].pc \in EnMano \ {"libera"}
    BY <1>7 DEF CortoAgregaExec, CortoDespacha, CortoRecibe, CortoContinua, Atiende, En, EnMano,
       colas, pcbs
  <2>2. \E l \in {"despacha", "espera_cpu", "atiende", "redespacha"} :
           Sigue("corto", l) \/ Va("corto", l, p)
    BY <1>7 DEF CortoAgregaExec, CortoDespacha, CortoRecibe, CortoContinua, Envia, Pcb
  <2> QED
    BY <1>6, <2>1, <2>2
<1>8. CASE CortoRedespacha
  <2>1. plani_exec = <<p>> /\ hilo["corto"].pc \in EnMano \ {"libera"}
    BY <1>0, <1>8 DEF CortoRedespacha, En, ExecOK, EnDespacho, EnMano
  <2>2. plani_exec # <<>> /\ Head(plani_exec) = p
    BY <2>1
  <2>3. /\ UNCHANGED <<plani_new, plani_ready, plani_exit, total_pcbs, pid_global>>
        /\ Va("corto", "espera_cpu", p)
    BY <1>8, <2>2 DEF CortoRedespacha, Envia, colas, pcbs
  <2> QED
    BY <1>6, <2>1, <2>3
<1>9. CASE CortoSacaExec
  <2>1. plani_exec = <<p>> /\ hilo["corto"].pc \in EnMano \ {"libera"}
    BY <1>0, <1>9 DEF CortoSacaExec, Atiende, En, ExecOK, EnDespacho, EnMano
  <2>2. Head(plani_exec) = p
    BY <2>1
  <2>3. /\ UNCHANGED <<plani_new, plani_ready, plani_exit, total_pcbs, pid_global>>
        /\ Va("corto", "bloquea", p)
    BY <1>9, <2>2 DEF CortoSacaExec, pcbs
  <2> QED
    BY <1>6, <2>1, <2>3
<1>10. CASE CortoDesaloja
  <2>1. /\ UNCHANGED <<plani_new, plani_ready, plani_exit, total_pcbs, pid_global>>
        /\ hilo["corto"].pc \in EnMano \ {"libera"}
        /\ Sigue("corto", EntradaReady) \/ Sigue("corto", "espera_ready")
    BY <1>10 DEF CortoDesaloja, Atiende, En, EnMano, colas, pcbs
  <2> QED
    BY <1>3, <1>6, <2>1
<1>11. CASE CortoFinaliza \/ CortoDuerme \/ CortoPideFS
  <2>1. /\ UNCHANGED <<plani_new, plani_ready, plani_exit, total_pcbs, pid_global>>
        /\ hilo["corto"].pc \in EnMano \ {"libera"}
        /\ Lanza("sale", p) \/ Lanza("espera", p)
    BY <1>11 DEF CortoFinaliza, CortoDuerme, CortoPideFS, Atiende, En, Pcb, EnMano, colas
  <2> QED
    BY <1>0, <1>2, <2>1, UnicosLanza
<1> QED
  BY <1>1, <1>4, <1>5, <1>7, <1>8, <1>9, <1>10, <1>11 DEF Corto

LEMMA UnicosAuxiliar ==
  ASSUME TipoInv, Unicos, NEW h \in Auxiliares, Auxiliar(h)
  PROVE  Unicos'
<1> DEFINE p == hilo[h].pcb
<1>0. HiloOK /\ ColasUnicas /\ ManosUnicas /\ NadieFalta /\ PcbsOK /\ h \in Hilos
  BY DEF TipoInv, Estructura, Unicos, Hilos
<1>1. ~LeeParams(h) /\ ~ResuelvePf(h)
  BY <1>0 DEF NadieFalta, LeeParams, ResuelvePf, En
<1>2. mensaje' # "PAGE_FAULT"
  BY <1>0, <1>1 DEF NadieFalta, Auxiliar, SaleDeBlock, SaleDelSistema, Libera, maquina
<1>3. CASE SaleDeBlock(h)
  <2>1. /\ hilo[h].pc = "espera" /\ Sigue(h, EntradaReady)
        /\ UNCHANGED <<plani_new, plani_ready, plani_exit, total_pcbs, pid_global>>
    BY <1>3 DEF SaleDeBlock, En, pcbs
  <2>2. /\ hilo'[h].pc = EntradaReady /\ hilo'[h].pcb = p
        /\ \A g \in Hilos : g # h => hilo'[g] = hilo[g]
    BY <1>0, <2>1, AlSeguir, EntradaLugar
  <2> QED
    BY <1>0, <1>2, <2>1, <2>2, EntradaLugar, UnicosSigue DEF EnMano
<1>4. CASE SaleDelSistema(h)
  <2>1. /\ hilo[h].pc = "sale" /\ Sigue(h, "libera") /\ plani_exit' = plani_exit \cup {p}
        /\ UNCHANGED <<plani_new, plani_ready, total_pcbs, pid_global>>
    BY <1>4 DEF SaleDelSistema, En, Pcb, pcbs
  <2>2. /\ hilo'[h].pc = "libera" /\ hilo'[h].pcb = p
        /\ \A g \in Hilos : g # h => hilo'[g] = hilo[g]
    BY <1>0, <2>1, AlSeguir DEF Puntos, EnMano
  <2>3. "sale" \in EnMano /\ "libera" \in EnMano
    BY DEF EnMano
  <2>4. p \in total_pcbs \ EnColas
    BY <1>0, <2>1, <2>3 DEF ManosUnicas
  <2>5. EnColas' = EnColas
    BY <2>1 DEF EnColas
  <2>6. ColasUnicas'
    BY <1>0, <2>1, <2>4, <2>5 DEF ColasUnicas, EnColas, PcbsOK, Creados
  <2>7. ManosUnicas'
    BY <1>0, <2>1, <2>2, <2>3, <2>5 DEF ManosUnicas
  <2>8. NadieFalta'
    BY <1>0, <1>2, <2>2 DEF NadieFalta
  <2> QED
    BY <2>6, <2>7, <2>8 DEF Unicos
<1>5. CASE Libera(h)
  <2>1. /\ hilo[h].pc = "libera" /\ Va(h, "libre", NULO) /\ total_pcbs' = total_pcbs \ {p}
        /\ UNCHANGED <<plani_new, plani_ready, plani_exit, pid_global>>
    BY <1>5 DEF Libera, En, Pcb, colas
  <2>2. /\ hilo'[h].pc = "libre" /\ \A g \in Hilos : g # h => hilo'[g] = hilo[g]
    BY <1>0, <2>1, AlIr DEF Puntos, EnEspera
  <2>3. "libre" \notin EnMano /\ "libera" \in EnMano
    BY DEF EnMano
  <2>4. p \notin EnColas /\ EnColas' = EnColas
    BY <1>0, <2>1, <2>3 DEF ManosUnicas, EnColas
  <2>5. ColasUnicas'
    BY <1>0, <2>1, <2>4 DEF ColasUnicas, EnColas, Creados
  <2>6. ManosUnicas'
    BY <1>0, <2>1, <2>2, <2>3, <2>4 DEF ManosUnicas
  <2>7. NadieFalta'
    BY <1>0, <1>2, <2>2 DEF NadieFalta
  <2> QED
    BY <2>5, <2>6, <2>7 DEF Unicos
<1> QED
  BY <1>1, <1>3, <1>4, <1>5 DEF Auxiliar

LEMMA UnicosConsola ==
  ASSUME TipoInv, Unicos, Consola
  PROVE  Unicos'
<1>0. /\ HiloOK /\ PcbsOK /\ plani_new \in Seq(Procesos)
      /\ ColasUnicas /\ ManosUnicas /\ NadieFalta
  BY DEF TipoInv, Estructura, ColasOK, Unicos
<1>1. ASSUME NEW prio, IniciarProceso(prio) PROVE Unicos'
  <2> DEFINE p == pid_global
  <2>1. /\ plani_new' = Append(plani_new, p) /\ total_pcbs' = total_pcbs \cup {p}
        /\ pid_global' = p + 1 /\ UNCHANGED <<plani_ready, plani_exit, hilo, mensaje>>
    BY <1>1 DEF IniciarProceso, maquina
  <2>2. p \in Procesos /\ p \notin Creados /\ p \in Creados' /\ Creados \subseteq Creados'
    BY <1>0, <1>1, <2>1, ConstantesOK DEF IniciarProceso, PcbsOK, Procesos, Creados
  <2>3. p \notin EnColas /\ p \notin plani_exit /\ p \notin total_pcbs
    BY <1>0, <2>2 DEF ColasUnicas, PcbsOK
  <2>4. ToSet(plani_new') = ToSet(plani_new) \cup {p} /\ IsInjective(plani_new')
    BY <1>0, <2>1, <2>2, <2>3, EnAgregado DEF ColasUnicas, EnColas
  <2>5. EnColas' = EnColas \cup {p}
    BY <2>1, <2>4 DEF EnColas
  <2>6. ColasUnicas'
    BY <1>0, <2>1, <2>2, <2>3, <2>4, <2>5 DEF ColasUnicas, EnColas
  <2>7. ManosUnicas'
    BY <1>0, <2>1, <2>3, <2>5 DEF ManosUnicas
  <2>8. NadieFalta'
    BY <1>0, <2>1 DEF NadieFalta
  <2> QED
    BY <2>6, <2>7, <2>8 DEF Unicos
<1>2. CASE DetenerPlanificacion \/ IniciarPlanificacion
  <2>1. /\ UNCHANGED <<plani_new, plani_ready, plani_exit, total_pcbs, pid_global>>
        /\ UNCHANGED <<hilo, mensaje>>
    BY <1>2 DEF DetenerPlanificacion, IniciarPlanificacion, colas, pcbs, maquina
  <2> QED
    BY <1>0, <2>1, UnicosMarco DEF NadieFalta
<1>3. ASSUME NEW n \in Grados, CambiarMultiprogramacion(n) PROVE Unicos'
  <2>1. UNCHANGED <<plani_new, plani_ready, plani_exit, total_pcbs, pid_global, mensaje>>
    BY <1>3 DEF CambiarMultiprogramacion, colas, pcbs, maquina
  <2>2. CASE En("largo", "bloqueado")
    <3>1. /\ "perdido" \in Puntos \ (EnMano \cup {"lee_params", "pide_pagina"})
          /\ "largo" \in Hilos
      BY DEF Puntos, EnEspera, EnMano, Hilos
    <3>2. hilo'["largo"].pc = "perdido" /\ \A g \in Hilos : g # "largo" => hilo'[g] = hilo[g]
      BY <1>0, <1>3, <2>2, <3>1, AlSeguir DEF CambiarMultiprogramacion
    <3>3. mensaje' # "PAGE_FAULT"
      BY <1>0, <2>1 DEF NadieFalta
    <3> QED
      BY <2>1, <3>1, <3>2, <3>3, UnicosSigue
  <2>3. CASE ~En("largo", "bloqueado")
    <3>1. UNCHANGED hilo
      BY <1>3, <2>3 DEF CambiarMultiprogramacion
    <3> QED
      BY <1>0, <2>1, <3>1, UnicosMarco DEF NadieFalta
  <2> QED
    BY <2>2, <2>3
<1> QED
  BY <1>1, <1>2, <1>3 DEF Consola

LEMMA UnicosPaso ==
  ASSUME SinFaltas
  PROVE  TipoInv /\ Unicos /\ [Next]_vars => Unicos'
<1> SUFFICES ASSUME TipoInv, Unicos, [Next]_vars PROVE Unicos'
  OBVIOUS
<1>1. CASE \/ CpuDesaloja \/ \E c \in Servicios : CpuDevuelve(c)
           \/ \E p \in Procesos : VenceQuantum(p)
           \/ UNCHANGED vars
  <2>1. UNCHANGED <<plani_new, plani_ready, plani_exit, total_pcbs, pid_global, hilo>>
    BY <1>1 DEF CpuDesaloja, CpuDevuelve, VenceQuantum, vars, colas, pcbs
  <2>2. NadieFalta'
    BY <1>1, <2>1 DEF SinFaltas, Unicos, NadieFalta, CpuDesaloja, CpuDevuelve, VenceQuantum, vars,
       maquina
  <2> QED
    BY <2>1, <2>2, UnicosMarco
<1> QED
  BY <1>1, UnicosAgregar, UnicosLargo, UnicosCorto, UnicosAuxiliar, UnicosConsola DEF Next

LEMMA UnicosSiempre ==
  ASSUME SinFaltas
  PROVE  Spec => [](TipoInv /\ Unicos)
<1>1. Init => TipoInv /\ Unicos
  BY TipoInicial, UnicosInicial
<1>2. TipoInv /\ Unicos /\ [Next]_vars => (TipoInv /\ Unicos)'
  BY TipoPaso, UnicosPaso
<1> QED
  BY <1>1, <1>2, PTL DEF Spec

\* Without page faults no process is ever in two queues or in the hands of two threads,
\* for any number of processes and threads, any algorithm and any command.
THEOREM DuplicadosTeorema ==
  ASSUME SinFaltas
  PROVE  Spec => []SinDuplicados
BY UnicosSiempre, UnicosDuplicados, PTL

-----------------------------------------------------------------------------
(* Each process somewhere *)

Tiene(h, p)  == hilo[h].pc \in EnMano /\ hilo[h].pcb = p
Despide(h, p) == hilo[h].pc \in {"sale", "libera"} /\ hilo[h].pcb = p

\* CortoDesaloja lets go of a process whose t_pcb says FIN: whoever says FIN has by then a
\* thread of its own, which is not the planner.
Presentes ==
  \A p \in total_pcbs :
    /\ p \in EnColas \/ \E h \in Hilos : Tiene(h, p)
    /\ estado[p] = "FIN" => \E h \in Hilos : Despide(h, p)

LEMMA PresentesPerdidos == Presentes => SinPerdidos
BY DEF Presentes, SinPerdidos, Tiene, EnColas, Posee, Pcb

\* One thread moves.  What it held, and what left the queues, is somewhere afterwards.
LEMMA PresentesSigue ==
  ASSUME Presentes, NEW h \in Hilos, \A g \in Hilos : g # h => hilo'[g] = hilo[g],
         total_pcbs' \subseteq total_pcbs,
         \A p \in total_pcbs' : estado'[p] = "FIN" => estado[p] = "FIN",
         \A p \in EnColas : p \in EnColas' \/ Tiene(h, p)',
         \A p \in total_pcbs' : Tiene(h, p) => p \in EnColas' \/ Tiene(h, p)',
         \A p \in total_pcbs' : Despide(h, p) => Despide(h, p)'
  PROVE  Presentes'
<1> SUFFICES ASSUME NEW p \in total_pcbs'
             PROVE  /\ p \in EnColas' \/ \E g \in Hilos : Tiene(g, p)'
                    /\ estado'[p] = "FIN" => \E g \in Hilos : Despide(g, p)'
  BY DEF Presentes
<1>1. \A g \in Hilos \ {h} : (Tiene(g, p)' <=> Tiene(g, p)) /\ (Despide(g, p)' <=> Despide(g, p))
  BY DEF Tiene, Despide
<1>2. p \in EnColas' \/ \E g \in Hilos : Tiene(g, p)'
  BY <1>1 DEF Presentes
<1>3. ASSUME estado'[p] = "FIN" PROVE \E g \in Hilos : Despide(g, p)'
  BY <1>1, <1>3 DEF Presentes
<1> QED
  BY <1>2, <1>3

LEMMA PresentesMarco ==
  ASSUME Presentes, UNCHANGED <<plani_new, plani_ready, total_pcbs, estado, hilo>>
  PROVE  Presentes'
BY DEF Presentes, EnColas, Tiene, Despide

LEMMA PresentesAgregar ==
  ASSUME TipoInv, Presentes, NEW h \in Hilos, AgregarAReady(h)
  PROVE  Presentes'
<1>0. HiloOK /\ PcbsOK /\ PcbOK /\ plani_ready \in Seq(Procesos)
  BY DEF TipoInv, Estructura, ColasOK
<1>1. UNCHANGED <<plani_new, total_pcbs>>
  BY DEF AgregarAReady, MiraExec, Compara, Encola, Marca, Lista, colas, pcbs
<1>2. \A p \in total_pcbs' : estado'[p] = "FIN" => estado[p] = "FIN"
  <2>1. ASSUME NEW p \in Procesos, estado' = [estado EXCEPT ![p] = "READY"]
        PROVE  \A q \in Procesos : estado'[q] = "FIN" => estado[q] = "FIN"
    BY <1>0, <2>1 DEF PcbsOK
  <2>2. total_pcbs' \subseteq Procesos
    BY <1>0, <1>1, ConstantesOK DEF PcbsOK, Creados, Procesos
  <2> QED
    BY <1>0, <2>1, <2>2 DEF AgregarAReady, MiraExec, Compara, Encola, Marca, Lista, pcbs, Pcb,
       PcbsOK, Creados
<1>3. CASE MiraExec(h) \/ Compara(h)
  <2>1. PICK l \in {"encola", "compara"} : Sigue(h, l)
    BY <1>3 DEF MiraExec, Compara
  <2>2. l \in Puntos /\ l \in EnMano
    BY DEF Puntos, EnMano
  <2>3. /\ hilo'[h].pc = l /\ hilo'[h].pcb = hilo[h].pcb
        /\ \A g \in Hilos : g # h => hilo'[g] = hilo[g]
    BY <1>0, <2>1, <2>2, AlSeguir
  <2>4. UNCHANGED plani_ready /\ hilo[h].pc \in {"mira_exec", "compara"}
    BY <1>3 DEF MiraExec, Compara, colas, En
  <2> QED
    BY <1>1, <1>2, <2>2, <2>3, <2>4, PresentesSigue DEF Tiene, Despide, EnColas
<1>4. CASE Encola(h)
  <2> DEFINE p == hilo[h].pcb
  <2>1. hilo[h].pc = "encola" /\ p \in Procesos /\ plani_ready' = Append(plani_ready, p)
    BY <1>0, <1>4 DEF Encola, En, EnMano, PcbOK, Pcb
  <2>2. \A g \in Hilos : g # h => hilo'[g] = hilo[g]
    BY <1>0, <1>4, AlSeguir DEF Encola, Puntos, EnCola
  <2>3. EnColas' = EnColas \cup {p}
    BY <1>0, <1>1, <2>1, EnAgregado DEF EnColas
  <2> QED
    BY <1>1, <1>2, <2>1, <2>2, <2>3, PresentesSigue DEF Tiene, Despide
<1>5. CASE Marca(h) \/ Lista(h)
  <2>1. PICK l \in {"lista", "espera_new", "espera_ready", "libre"} :
             Sigue(h, l) \/ Va(h, l, NULO)
    BY <1>5 DEF Marca, Lista
  <2>2. l \in Puntos
    BY DEF Puntos, EnEspera, EnCola
  <2>3. \A g \in Hilos : g # h => hilo'[g] = hilo[g]
    BY <1>0, <2>1, <2>2, AlSeguir, AlIr
  <2>4. UNCHANGED plani_ready /\ hilo[h].pc \in {"marca", "lista"}
    BY <1>5 DEF Marca, Lista, colas, En
  <2> QED
    BY <1>1, <1>2, <2>3, <2>4, PresentesSigue DEF Tiene, Despide, EnColas, EnMano
<1> QED
  BY <1>3, <1>4, <1>5 DEF AgregarAReady

LEMMA PresentesLargo ==
  ASSUME TipoInv, Presentes, Largo
  PROVE  Presentes'
<1>0. HiloOK /\ plani_new \in Seq(Procesos) /\ "largo" \in Hilos
  BY HilosFinitos DEF TipoInv, Estructura, ColasOK
<1>1. UNCHANGED <<plani_ready, total_pcbs, estado>>
  BY DEF Largo, LargoEsperaNew, LargoEsperaMulti, LargoCompuerta, LargoSaca, colas, pcbs
<1>2. hilo["largo"].pc \in EnEspera /\ hilo["largo"].pc \notin EnMano \cup {"sale", "libera"}
  BY DEF Largo, LargoEsperaNew, LargoEsperaMulti, LargoCompuerta, LargoSaca, En, EnEspera, EnMano
<1>3. CASE LargoEsperaNew \/ LargoEsperaMulti \/ LargoCompuerta
  <2>1. PICK l \in {"espera_multi", "bloqueado", "compuerta", "saca_new"} : Sigue("largo", l)
    BY <1>3 DEF LargoEsperaNew, LargoEsperaMulti, LargoCompuerta
  <2>2. l \in Puntos
    BY DEF Puntos, EnEspera
  <2>3. \A g \in Hilos : g # "largo" => hilo'[g] = hilo[g]
    BY <1>0, <2>1, <2>2, AlSeguir
  <2>4. UNCHANGED plani_new
    BY <1>3 DEF LargoEsperaNew, LargoEsperaMulti, LargoCompuerta, colas
  <2> QED
    BY <1>0, <1>1, <1>2, <2>3, <2>4, PresentesSigue DEF Tiene, Despide, EnColas
<1>4. CASE LargoSaca /\ plani_new = <<>>
  BY <1>1, <1>4, PresentesMarco DEF LargoSaca
<1>5. CASE LargoSaca /\ plani_new # <<>>
  <2> DEFINE p == Head(plani_new)
  <2>1. plani_new' = Tail(plani_new) /\ Va("largo", EntradaReady, p)
    BY <1>5 DEF LargoSaca
  <2>2. p \in Procesos /\ ToSet(plani_new) = ToSet(plani_new') \cup {p}
    BY <1>0, <1>5, <2>1, EnCabeza
  <2>3. /\ hilo'["largo"].pc = EntradaReady /\ hilo'["largo"].pcb = p
        /\ \A g \in Hilos : g # "largo" => hilo'[g] = hilo[g]
    BY <1>0, <2>1, <2>2, AlIr, EntradaLugar
  <2>4. \A q \in EnColas : q \in EnColas' \/ Tiene("largo", q)'
    BY <1>1, <2>2, <2>3, EntradaLugar DEF EnColas, Tiene
  <2> QED
    BY <1>0, <1>1, <1>2, <2>3, <2>4, PresentesSigue DEF Tiene, Despide
<1> QED
  BY <1>3, <1>4, <1>5 DEF Largo

\* The planner's process passes to a new thread, the one that says FIN to "sale".
LEMMA PresentesLanza ==
  ASSUME Presentes, HiloOK, NEW l \in {"sale", "espera"}, Lanza(l, hilo["corto"].pcb),
         hilo["corto"].pc \notin {"sale", "libera"},
         UNCHANGED <<plani_new, plani_ready, total_pcbs>>,
         \A p \in total_pcbs :
           estado'[p] = "FIN" => estado[p] = "FIN" \/ (l = "sale" /\ p = hilo["corto"].pcb)
  PROVE  Presentes'
<1>0. /\ "corto" \in Hilos /\ l \in Puntos /\ l \in EnMano
      /\ hilo["corto"].pcb \in Procesos \cup {NULO}
  BY HilosFinitos DEF Puntos, EnMano, HiloOK
<1>1. PICK a \in Hilos \ {"corto"} :
        /\ hilo[a].pc = "libre" /\ hilo'[a].pc = l /\ hilo'[a].pcb = hilo["corto"].pcb
        /\ \A g \in Hilos : g \notin {a, "corto"} => hilo'[g] = hilo[g]
  BY <1>0, AlLanzar
<1> SUFFICES ASSUME NEW p \in total_pcbs
             PROVE  /\ p \in EnColas' \/ \E g \in Hilos : Tiene(g, p)'
                    /\ estado'[p] = "FIN" => \E g \in Hilos : Despide(g, p)'
  BY DEF Presentes
<1>2. Tiene("corto", p) => Tiene(a, p)'
  BY <1>0, <1>1 DEF Tiene
<1>3. \A g \in Hilos \ {"corto"} : Tiene(g, p) => Tiene(g, p)'
  BY <1>1 DEF Tiene, EnMano
<1>4. \A g \in Hilos : Despide(g, p) => Despide(g, p)'
  BY <1>1 DEF Despide
<1>5. l = "sale" /\ p = hilo["corto"].pcb => Despide(a, p)'
  BY <1>1 DEF Despide
<1>6. p \in EnColas' \/ \E g \in Hilos : Tiene(g, p)'
  BY <1>0, <1>1, <1>2, <1>3 DEF Presentes, EnColas
<1>7. estado'[p] = "FIN" => \E g \in Hilos : Despide(g, p)'
  BY <1>1, <1>4, <1>5 DEF Presentes
<1> QED
  BY <1>6, <1>7

LEMMA PresentesCorto ==
  ASSUME TipoInv, Unicos, Presentes, Corto
  PROVE  Presentes'
<1> DEFINE p == hilo["corto"].pcb
<1>0. /\ HiloOK /\ PcbsOK /\ PcbOK /\ ExecOK /\ plani_ready \in Seq(Procesos)
      /\ ManosUnicas /\ NadieFalta /\ "corto" \in Hilos /\ total_pcbs \subseteq Procesos
  BY HilosFinitos, ConstantesOK DEF TipoInv, Estructura, ColasOK, Unicos, PcbsOK, Creados, Procesos
<1>1. ~CortoPageFault
  BY <1>0 DEF CortoPageFault, Atiende, NadieFalta
<1>2. UNCHANGED <<plani_new, total_pcbs>>
  BY <1>1 DEF Corto, CortoEsperaReady, CortoEsperaEjecutar, CortoElige,
     CortoAgregaExec, CortoDespacha, CortoRedespacha, CortoRecibe, CortoFinaliza, CortoSacaExec,
     CortoDuerme, CortoPideFS, CortoContinua, CortoDesaloja, colas, pcbs
<1>3. ASSUME NEW q \in Procesos, NEW e \in Estados, estado' = [estado EXCEPT ![q] = e]
      PROVE  \A r \in total_pcbs : estado'[r] = IF r = q THEN e ELSE estado[r]
  BY <1>0, <1>3 DEF PcbsOK
<1>4. CASE CortoEsperaReady \/ CortoEsperaEjecutar \/ (CortoElige /\ plani_ready = <<>>)
  <2>1. PICK l \in {"espera_ejecutar", "elige", "espera_ready"} : Sigue("corto", l)
    BY <1>4 DEF CortoEsperaReady, CortoEsperaEjecutar, CortoElige
  <2>2. l \in Puntos
    BY DEF Puntos, EnEspera
  <2>3. \A g \in Hilos : g # "corto" => hilo'[g] = hilo[g]
    BY <1>0, <2>1, <2>2, AlSeguir
  <2>4. /\ UNCHANGED <<plani_ready, estado>>
        /\ hilo["corto"].pc \in {"espera_ready", "espera_ejecutar", "elige"}
    BY <1>4 DEF CortoEsperaReady, CortoEsperaEjecutar, CortoElige, colas, pcbs, En
  <2> QED
    BY <1>0, <1>2, <2>3, <2>4, PresentesSigue DEF Tiene, Despide, EnColas, EnMano
<1>5. CASE CortoElige /\ plani_ready # <<>>
  <2>1. PICK i \in DOMAIN plani_ready : /\ plani_ready' = RemoveAt(plani_ready, i)
                                        /\ Va("corto", "agrega_exec", plani_ready[i])
    BY <1>5 DEF CortoElige
  <2> DEFINE q == plani_ready[i]
  <2>2. q \in Procesos /\ ToSet(plani_ready) = ToSet(plani_ready') \cup {q}
    BY <1>0, <2>1, AlQuitar
  <2>3. /\ hilo'["corto"].pc = "agrega_exec" /\ hilo'["corto"].pcb = q
        /\ \A g \in Hilos : g # "corto" => hilo'[g] = hilo[g]
    BY <1>0, <2>1, <2>2, AlIr DEF Puntos, EnMano
  <2>4. UNCHANGED estado /\ hilo["corto"].pc = "elige"
    BY <1>5 DEF CortoElige, pcbs, En
  <2>5. \A r \in EnColas : r \in EnColas' \/ Tiene("corto", r)'
    BY <1>2, <2>2, <2>3 DEF EnColas, Tiene, EnMano
  <2> QED
    BY <1>0, <1>2, <2>3, <2>4, <2>5, PresentesSigue DEF Tiene, Despide, EnMano
<1>6. ASSUME UNCHANGED plani_ready, \A r \in total_pcbs : estado'[r] = "FIN" => estado[r] = "FIN",
             NEW l \in {"despacha", "espera_cpu", "atiende", "redespacha", "bloquea", EntradaReady},
             Sigue("corto", l) \/ Va("corto", l, p), hilo["corto"].pc \notin {"sale", "libera"}
      PROVE  Presentes'
  <2>1. l \in Puntos /\ l \in EnMano
    BY EntradaLugar DEF Puntos, EnMano
  <2>2. /\ hilo'["corto"].pc = l /\ hilo'["corto"].pcb = p
        /\ \A g \in Hilos : g # "corto" => hilo'[g] = hilo[g]
    BY <1>0, <1>6, <2>1, AlSeguir, AlIr DEF HiloOK
  <2> QED
    BY <1>0, <1>2, <1>6, <2>1, <2>2, PresentesSigue DEF Tiene, Despide, EnColas
<1>7. CASE CortoAgregaExec \/ CortoRecibe \/ CortoContinua
  <2>1. UNCHANGED <<plani_ready, estado>> /\ hilo["corto"].pc \notin {"sale", "libera"}
    BY <1>7 DEF CortoAgregaExec, CortoRecibe, CortoContinua, Atiende, En, colas, pcbs
  <2>2. \E l \in {"despacha", "atiende", "redespacha"} : Sigue("corto", l)
    BY <1>7 DEF CortoAgregaExec, CortoRecibe, CortoContinua
  <2> QED
    BY <1>6, <2>1, <2>2
<1>8. CASE CortoDespacha
  <2>1. /\ UNCHANGED plani_ready /\ hilo["corto"].pc = "despacha" /\ Va("corto", "espera_cpu", p)
        /\ estado' = [estado EXCEPT ![p] = "EXEC"]
    BY <1>8 DEF CortoDespacha, Envia, En, Pcb, colas
  <2>2. p \in Procesos /\ "EXEC" \in Estados
    BY <1>0, <2>1 DEF PcbOK, EnMano, Estados
  <2> QED
    BY <1>3, <1>6, <2>1, <2>2
<1>9. CASE CortoRedespacha \/ CortoSacaExec
  <2>1. plani_exec = <<p>> /\ hilo["corto"].pc \notin {"sale", "libera"}
    BY <1>0, <1>9 DEF CortoRedespacha, CortoSacaExec, Atiende, En, ExecOK, EnDespacho
  <2>2. plani_exec # <<>> /\ Head(plani_exec) = p
    BY <2>1
  <2>3. /\ UNCHANGED <<plani_ready, estado>>
        /\ Va("corto", "espera_cpu", p) \/ Va("corto", "bloquea", p)
    BY <1>9, <2>2 DEF CortoRedespacha, CortoSacaExec, Envia, colas, pcbs
  <2> QED
    BY <1>6, <2>1, <2>3
<1>10. CASE CortoDesaloja
  <2>1. /\ UNCHANGED <<plani_ready, estado>> /\ hilo["corto"].pc = "atiende"
        /\ Sigue("corto", IF estado[p] # "FIN" THEN EntradaReady ELSE "espera_ready")
    BY <1>10 DEF CortoDesaloja, Atiende, En, Pcb, colas, pcbs
  <2>2. \A g \in Hilos \ {"corto"} : hilo[g].pc \in EnMano => hilo[g].pcb # p
    BY <1>0, <2>1 DEF ManosUnicas, EnMano
  <2>3. p \in total_pcbs
    BY <1>0, <2>1 DEF ManosUnicas, EnMano
  <2>4. ~\E g \in Hilos : Despide(g, p)
    BY <2>1, <2>2 DEF Despide, EnMano
  <2>5. estado[p] # "FIN"
    BY <2>3, <2>4 DEF Presentes
  <2> QED
    BY <1>6, <2>1, <2>5
<1>11. CASE CortoFinaliza \/ CortoDuerme \/ CortoPideFS
  <2>1. hilo["corto"].pc \in {"atiende", "bloquea"} /\ UNCHANGED plani_ready
    BY <1>11 DEF CortoFinaliza, CortoDuerme, CortoPideFS, Atiende, En, colas
  <2>2. p \in Procesos /\ {"FIN", "BLOCK"} \subseteq Estados
    BY <1>0, <2>1 DEF PcbOK, EnMano, Estados
  <2>3. \/ Lanza("sale", p) /\ estado' = [estado EXCEPT ![p] = "FIN"]
        \/ Lanza("espera", p) /\ estado' = [estado EXCEPT ![p] = "BLOCK"]
    BY <1>11 DEF CortoFinaliza, CortoDuerme, CortoPideFS, Bloquea, Pcb
  <2>4. \/ /\ Lanza("sale", p)
           /\ \A r \in total_pcbs : estado'[r] = "FIN" => estado[r] = "FIN" \/ r = p
        \/ /\ Lanza("espera", p)
           /\ \A r \in total_pcbs : estado'[r] = "FIN" => estado[r] = "FIN"
    BY <1>3, <2>2, <2>3
  <2> QED
    BY <1>0, <1>2, <2>1, <2>4, PresentesLanza
<1> QED
  BY <1>1, <1>4, <1>5, <1>7, <1>8, <1>9, <1>10, <1>11 DEF Corto

LEMMA PresentesAuxiliar ==
  ASSUME TipoInv, Unicos, Presentes, NEW h \in Auxiliares, Auxiliar(h)
  PROVE  Presentes'
<1> DEFINE p == hilo[h].pcb
<1>0. HiloOK /\ NadieFalta /\ h \in Hilos
  BY DEF TipoInv, Estructura, Unicos, Hilos
<1>1. ~LeeParams(h) /\ ~ResuelvePf(h)
  BY <1>0 DEF NadieFalta, LeeParams, ResuelvePf, En
<1>2. UNCHANGED <<plani_new, plani_ready, estado>>
  BY <1>1 DEF Auxiliar, SaleDeBlock, SaleDelSistema, Libera, colas, pcbs
<1>3. CASE SaleDeBlock(h) \/ SaleDelSistema(h)
  <2>1. \/ hilo[h].pc = "espera" /\ Sigue(h, EntradaReady)
        \/ hilo[h].pc = "sale" /\ Sigue(h, "libera")
    BY <1>3 DEF SaleDeBlock, SaleDelSistema, En
  <2>2. {EntradaReady, "libera"} \subseteq Puntos
    BY EntradaLugar DEF Puntos, EnMano
  <2>3. /\ hilo'[h].pcb = p /\ \A g \in Hilos : g # h => hilo'[g] = hilo[g]
        /\ \/ hilo[h].pc = "espera" /\ hilo'[h].pc = EntradaReady
           \/ hilo[h].pc = "sale" /\ hilo'[h].pc = "libera"
    BY <1>0, <2>1, <2>2, AlSeguir
  <2>4. UNCHANGED total_pcbs /\ EntradaReady \in EnMano /\ "libera" \in EnMano
    BY <1>3, EntradaLugar DEF SaleDeBlock, SaleDelSistema, pcbs, EnMano
  <2> QED
    BY <1>0, <1>2, <2>3, <2>4, PresentesSigue DEF Tiene, Despide, EnColas
<1>4. CASE Libera(h)
  <2>1. total_pcbs' = total_pcbs \ {p} /\ Va(h, "libre", NULO)
    BY <1>4 DEF Libera, Pcb
  <2>2. \A g \in Hilos : g # h => hilo'[g] = hilo[g]
    BY <1>0, <2>1, AlIr DEF Puntos, EnEspera
  <2> QED
    BY <1>0, <1>2, <2>1, <2>2, PresentesSigue DEF Tiene, Despide, EnColas
<1> QED
  BY <1>1, <1>3, <1>4 DEF Auxiliar

LEMMA PresentesConsola ==
  ASSUME TipoInv, Presentes, Consola
  PROVE  Presentes'
<1>0. HiloOK /\ PcbsOK /\ plani_new \in Seq(Procesos) /\ "largo" \in Hilos
  BY HilosFinitos DEF TipoInv, Estructura, ColasOK
<1>1. ASSUME NEW prio, IniciarProceso(prio) PROVE Presentes'
  <2> DEFINE p == pid_global
  <2>1. /\ plani_new' = Append(plani_new, p) /\ total_pcbs' = total_pcbs \cup {p}
        /\ estado' = [estado EXCEPT ![p] = "NEW"] /\ UNCHANGED <<plani_ready, hilo>>
        /\ p \in Procesos /\ total_pcbs \subseteq Procesos
    BY <1>0, <1>1, ConstantesOK DEF IniciarProceso, PcbsOK, Procesos, Creados
  <2>2. EnColas' = EnColas \cup {p}
    BY <1>0, <2>1, EnAgregado DEF EnColas
  <2>3. \A q \in total_pcbs' : estado'[q] = "FIN" => q # p /\ estado[q] = "FIN"
    BY <1>0, <2>1 DEF PcbsOK
  <2> QED
    BY <2>1, <2>2, <2>3 DEF Presentes, Tiene, Despide
<1>2. CASE DetenerPlanificacion \/ IniciarPlanificacion
  BY <1>2, PresentesMarco DEF DetenerPlanificacion, IniciarPlanificacion, colas, pcbs
<1>3. ASSUME NEW n \in Grados, CambiarMultiprogramacion(n) PROVE Presentes'
  <2>1. UNCHANGED <<plani_new, plani_ready, total_pcbs, estado>>
    BY <1>3 DEF CambiarMultiprogramacion, colas, pcbs
  <2>2. CASE En("largo", "bloqueado")
    <3>1. Sigue("largo", "perdido") /\ "perdido" \in Puntos
      BY <1>3, <2>2 DEF CambiarMultiprogramacion, Puntos, EnEspera
    <3>2. \A g \in Hilos : g # "largo" => hilo'[g] = hilo[g]
      BY <1>0, <3>1, AlSeguir
    <3> QED
      BY <1>0, <2>1, <2>2, <3>2, PresentesSigue DEF Tiene, Despide, EnColas, EnMano, En
  <2>3. CASE ~En("largo", "bloqueado")
    BY <1>3, <2>1, <2>3, PresentesMarco DEF CambiarMultiprogramacion
  <2> QED
    BY <2>2, <2>3
<1> QED
  BY <1>1, <1>2, <1>3 DEF Consola

LEMMA PresentesPaso == TipoInv /\ Unicos /\ Presentes /\ [Next]_vars => Presentes'
<1> SUFFICES ASSUME TipoInv, Unicos, Presentes, [Next]_vars PROVE Presentes'
  OBVIOUS
<1>1. CASE \/ CpuDesaloja \/ \E c \in Servicios : CpuDevuelve(c)
           \/ \E p \in Procesos : VenceQuantum(p)
           \/ UNCHANGED vars
  <2>1. UNCHANGED <<plani_new, plani_ready, total_pcbs, estado, hilo>>
    BY <1>1 DEF CpuDesaloja, CpuDevuelve, VenceQuantum, vars, colas, pcbs
  <2> QED
    BY <2>1, PresentesMarco
<1> QED
  BY <1>1, PresentesAgregar, PresentesLargo, PresentesCorto, PresentesAuxiliar, PresentesConsola
     DEF Next

\* Without page faults no process is ever lost: while its t_pcb is allocated it is in NEW,
\* in READY or in the hands of a thread that will hand it on.
THEOREM PerdidosTeorema ==
  ASSUME SinFaltas
  PROVE  Spec => []SinPerdidos
<1>1. Init => TipoInv /\ Unicos /\ Presentes
  BY TipoInicial, UnicosInicial DEF Init, Presentes
<1>2. TipoInv /\ Unicos /\ Presentes /\ [Next]_vars => (TipoInv /\ Unicos /\ Presentes)'
  BY TipoPaso, UnicosPaso, PresentesPaso
<1> QED
  BY <1>1, <1>2, PresentesPerdidos, PTL DEF Spec

-----------------------------------------------------------------------------
(* The multiprogramming degree *)

ConPermiso == {"compuerta", "saca_new"}

\* Every permit is free, in the hands of the long-term planner, or held by a process.
Permisos ==
  sem["multiprog_disponible"] + Uno(hilo["largo"].pc \in ConPermiso) + Cardinality(Admitidos)
    = multiprogramacion

LEMMA AdmitidosFinito ==
  ASSUME PcbsOK
  PROVE  IsFiniteSet(Admitidos) /\ Cardinality(Admitidos) \in Nat
<1>1. pid_global \in Nat
  BY ConstantesOK DEF PcbsOK
<1>2. IsFiniteSet(Creados)
  BY <1>1, FS_Interval DEF Creados
<1>3. IsFiniteSet(Admitidos)
  BY <1>2, FS_Subset DEF Admitidos
<1> QED
  BY <1>3, FS_CardinalityType

LEMMA PermisosGrado ==
  ASSUME TipoInv, Permisos
  PROVE  GradoRespetado
<1>1. sem["multiprog_disponible"] \in Nat /\ multiprogramacion \in Nat
  BY DEF TipoInv, Estructura, SemOK, Semaforos, RestoOK
<1>2. Cardinality(Admitidos) \in Nat
  BY AdmitidosFinito DEF TipoInv, Estructura
<1> QED
  BY <1>1, <1>2 DEF Permisos, GradoRespetado, Uno

LEMMA PermisosInicial ==
  ASSUME Init
  PROVE  Permisos
<1>1. Creados = {}
  BY DEF Init, Creados
<1>2. Cardinality(Admitidos) = 0
  BY <1>1, FS_EmptySet DEF Admitidos
<1>3. sem["multiprog_disponible"] = GradoInicial
  <2>1. "multiprog_disponible" \in Semaforos \ Compuertas
    BY DEF Semaforos, Compuertas
  <2>2. sem["multiprog_disponible"] = CASE TRUE -> GradoInicial
                                       [] FALSE -> 1
                                       [] OTHER -> 0
    BY <2>1 DEF Init
  <2> QED
    BY <2>2
<1>4. hilo["largo"].pc = "espera_new"
  BY DEF Init, Hilos
<1> QED
  BY <1>2, <1>3, <1>4, ConstantesOK DEF Init, Permisos, ConPermiso, Uno

Admision == <<plani_new, plani_exit, pid_global, multiprogramacion, sem["multiprog_disponible"]>>

LEMMA PermisosMarco ==
  ASSUME Permisos, UNCHANGED Admision,
         hilo'["largo"].pc \in ConPermiso <=> hilo["largo"].pc \in ConPermiso
  PROVE  Permisos'
<1>1. Admitidos' = Admitidos
  BY DEF Admision, Admitidos, Creados
<1> QED
  BY <1>1 DEF Permisos, Admision, Uno

\* One thread moves, away from the long-term planner's permit.
LEMMA PermisosSigue ==
  ASSUME Permisos, HiloOK, NEW h \in Hilos, NEW l \in Puntos \ ConPermiso,
         NEW p \in Procesos \cup {NULO}, Va(h, l, p) \/ Sigue(h, l),
         h = "largo" => hilo[h].pc \notin ConPermiso, UNCHANGED Admision
  PROVE  Permisos'
<1>1. hilo'[h].pc = l /\ \A g \in Hilos : g # h => hilo'[g] = hilo[g]
  BY AlIr, AlSeguir
<1> QED
  BY <1>1, PermisosMarco, HilosFinitos

LEMMA PermisosAgregar ==
  ASSUME TipoInv, Permisos, NEW h \in Hilos, AgregarAReady(h)
  PROVE  Permisos'
<1>0. HiloOK /\ SemOK /\ "multiprog_disponible" \in Semaforos
  BY DEF TipoInv, Estructura, Semaforos
<1>1. UNCHANGED Admision
  BY <1>0, AlSubir DEF AgregarAReady, MiraExec, Compara, Encola, Marca, Lista, Admision, config,
     colas, pcbs, Semaforos
<1>2. hilo[h].pc \notin ConPermiso
  BY DEF AgregarAReady, MiraExec, Compara, Encola, Marca, Lista, En, ConPermiso
<1>3. PICK l \in {"encola", "compara", "marca", "lista", "espera_new", "espera_ready", "libre"} :
           Sigue(h, l) \/ Va(h, l, NULO)
  BY DEF AgregarAReady, MiraExec, Compara, Encola, Marca, Lista
<1>4. l \in Puntos \ ConPermiso
  BY DEF Puntos, EnEspera, EnMano, EnCola, ConPermiso
<1> QED
  BY <1>0, <1>1, <1>2, <1>3, <1>4, PermisosSigue

LEMMA PermisosLargo ==
  ASSUME TipoInv, Unicos, Permisos, Largo
  PROVE  Permisos'
<1>0. /\ HiloOK /\ SemOK /\ PcbsOK /\ RestoOK /\ plani_new \in Seq(Procesos) /\ ColasUnicas
      /\ "largo" \in Hilos /\ "multiprog_disponible" \in Semaforos
      /\ "pcbs_en_new" \in Semaforos
  BY HilosFinitos DEF TipoInv, Estructura, ColasOK, Semaforos, Unicos
<1>1. CASE LargoEsperaNew
  <2>1. Sigue("largo", "espera_multi") /\ UNCHANGED Admision /\ hilo["largo"].pc = "espera_new"
    BY <1>0, <1>1, AlBajar DEF LargoEsperaNew, Admision, config, colas, pcbs, En
  <2>2. "espera_multi" \in Puntos \ ConPermiso /\ "espera_new" \notin ConPermiso
    BY DEF Puntos, EnEspera, ConPermiso
  <2> QED
    BY <1>0, <2>1, <2>2, PermisosSigue
<1>2. CASE LargoEsperaMulti
  <2>0. /\ {"espera_multi", "bloqueado"} \cap ConPermiso = {} /\ "compuerta" \in ConPermiso
        /\ {"bloqueado", "compuerta"} \subseteq Puntos
    BY DEF Puntos, EnEspera, ConPermiso
  <2>1. /\ UNCHANGED <<plani_new, plani_exit, pid_global, multiprogramacion>>
        /\ hilo["largo"].pc \in {"espera_multi", "bloqueado"}
    BY <1>2 DEF LargoEsperaMulti, config, colas, pcbs, En
  <2>2. CASE P("multiprog_disponible") /\ Sigue("largo", "compuerta")
    <3>1. sem'["multiprog_disponible"] = sem["multiprog_disponible"] - 1
      BY <1>0, <2>2, AlBajar
    <3>2. hilo'["largo"].pc = "compuerta"
      BY <1>0, <2>0, <2>2, AlSeguir
    <3>3. Admitidos' = Admitidos
      BY <2>1 DEF Admitidos, Creados
    <3>4. /\ sem["multiprog_disponible"] \in Nat /\ multiprogramacion \in Nat
          /\ Cardinality(Admitidos) \in Nat
      BY <1>0, AdmitidosFinito DEF SemOK, RestoOK
    <3> QED
      BY <2>0, <2>1, <3>1, <3>2, <3>3, <3>4 DEF Permisos, Uno
  <2>3. CASE UNCHANGED sem /\ Sigue("largo", "bloqueado")
    BY <1>0, <2>0, <2>1, <2>3, PermisosSigue DEF Admision
  <2> QED
    BY <1>2, <2>2, <2>3 DEF LargoEsperaMulti
<1>3. CASE LargoCompuerta
  <2>1. /\ Sigue("largo", "saca_new") /\ UNCHANGED Admision /\ hilo["largo"].pc = "compuerta"
    BY <1>3 DEF LargoCompuerta, Cruza, Admision, config, colas, pcbs, En
  <2>2. hilo'["largo"].pc = "saca_new"
    BY <1>0, <2>1, AlSeguir DEF Puntos, EnEspera
  <2> QED
    BY <2>1, <2>2, PermisosMarco DEF ConPermiso
<1>4. CASE LargoSaca
  <2>0. /\ UNCHANGED <<plani_exit, pid_global, multiprogramacion, sem, plani_ready, total_pcbs>>
        /\ hilo["largo"].pc = "saca_new"
    BY <1>4 DEF LargoSaca, config, pcbs, En
  <2>1. CASE plani_new = <<>>
    <3>1. UNCHANGED <<plani_new, hilo>>
      BY <1>4, <2>1 DEF LargoSaca
    <3> QED
      BY <2>0, <3>1, PermisosMarco DEF Admision
  <2>2. CASE plani_new # <<>>
    <3> DEFINE p == Head(plani_new)
    <3>1. plani_new' = Tail(plani_new) /\ Va("largo", EntradaReady, p)
      BY <1>4, <2>2 DEF LargoSaca
    <3>2. /\ p \in Procesos /\ ToSet(plani_new) = ToSet(plani_new') \cup {p}
          /\ p \notin ToSet(plani_new')
      BY <1>0, <2>2, <3>1, EnCabeza DEF ColasUnicas
    <3>3. hilo'["largo"].pc \notin ConPermiso
      BY <1>0, <3>1, <3>2, AlIr, EntradaLugar DEF ConPermiso
    <3>4. p \in Creados \ plani_exit
      BY <1>0, <3>2 DEF ColasUnicas, EnColas, PcbsOK
    <3>5. Admitidos' = Admitidos \cup {p} /\ p \notin Admitidos
      BY <2>0, <3>2, <3>4 DEF Admitidos, Creados
    <3>6. Cardinality(Admitidos') = Cardinality(Admitidos) + 1
      BY <1>0, <3>5, AdmitidosFinito, FS_AddElement
    <3>7. /\ sem["multiprog_disponible"] \in Nat /\ multiprogramacion \in Nat
          /\ Cardinality(Admitidos) \in Nat /\ "saca_new" \in ConPermiso
      BY <1>0, AdmitidosFinito DEF SemOK, RestoOK, ConPermiso
    <3> QED
      BY <2>0, <3>3, <3>6, <3>7 DEF Permisos, Uno
  <2> QED
    BY <2>1, <2>2
<1> QED
  BY <1>1, <1>2, <1>3, <1>4 DEF Largo

LEMMA PermisosCorto ==
  ASSUME TipoInv, Permisos, Corto
  PROVE  Permisos'
<1>0. /\ HiloOK /\ SemOK /\ "corto" \in Hilos /\ "largo" \in Hilos
      /\ {"pcbs_en_ready", "puede_ejecutar", "multiprog_disponible"} \subseteq Semaforos
  BY HilosFinitos DEF TipoInv, Estructura, Semaforos
<1>1. UNCHANGED Admision
  BY <1>0, AlBajar DEF Corto, CortoEsperaReady, CortoEsperaEjecutar, CortoElige,
     CortoAgregaExec, CortoDespacha, CortoRedespacha, CortoRecibe, CortoFinaliza, CortoSacaExec,
     CortoDuerme, CortoPideFS, CortoPageFault, CortoContinua, CortoDesaloja, Admision, config,
     colas, pcbs, Cruza
<1>2. hilo'["largo"].pc \in ConPermiso <=> hilo["largo"].pc \in ConPermiso
  <2>1. ASSUME NEW a \in Hilos, NEW l \in Puntos \ ConPermiso, NEW q, hilo[a].pc = "libre",
               hilo' = [hilo EXCEPT ![a] = [pc |-> l, pcb |-> q],
                                    !["corto"] = [pc |-> "espera_ready", pcb |-> NULO]]
        PROVE  hilo'["largo"].pc \in ConPermiso <=> hilo["largo"].pc \in ConPermiso
    BY <1>0, <2>1 DEF HiloOK, ConPermiso
  <2>2. ASSUME NEW l, NEW q, Lanza(l, q), l \in Puntos \ ConPermiso
        PROVE  hilo'["largo"].pc \in ConPermiso <=> hilo["largo"].pc \in ConPermiso
    <3>1. PICK a \in Libres : hilo' = [hilo EXCEPT ![a] = [pc |-> l, pcb |-> q],
                                        !["corto"] = [pc |-> "espera_ready", pcb |-> NULO]]
      BY <2>2 DEF Lanza
    <3> QED
      BY <2>1, <2>2, <3>1 DEF Libres, Hilos, En
  <2>3. {"sale", "espera", "lee_params"} \subseteq Puntos \ ConPermiso
    BY DEF Puntos, EnEspera, EnMano, ConPermiso
  <2>4. CASE CortoFinaliza \/ CortoDuerme \/ CortoPideFS \/ CortoPageFault
    BY <2>2, <2>3, <2>4 DEF CortoFinaliza, CortoDuerme, CortoPideFS, CortoPageFault
  <2>5. CASE ~(CortoFinaliza \/ CortoDuerme \/ CortoPideFS \/ CortoPageFault)
    <3>1. hilo' = hilo \/ \E l, q : Sigue("corto", l) \/ Va("corto", l, q)
      BY <2>5 DEF Corto, CortoEsperaReady, CortoEsperaEjecutar, CortoElige, CortoAgregaExec,
         CortoDespacha, CortoRedespacha, CortoRecibe, CortoSacaExec, CortoContinua, CortoDesaloja,
         Envia
    <3> QED
      BY <1>0, <3>1 DEF HiloOK, Sigue, Va
  <2> QED
    BY <2>4, <2>5
<1> QED
  BY <1>1, <1>2, PermisosMarco

LEMMA PermisosAuxiliar ==
  ASSUME TipoInv, Unicos, Permisos, NEW h \in Auxiliares, Auxiliar(h)
  PROVE  Permisos'
<1> DEFINE p == hilo[h].pcb
<1>0. /\ HiloOK /\ SemOK /\ PcbsOK /\ RestoOK /\ ColasUnicas /\ ManosUnicas /\ NadieFalta
      /\ h \in Hilos /\ h # "largo" /\ "multiprog_disponible" \in Semaforos
      /\ "largo" \in Hilos
  BY ConstantesOK DEF TipoInv, Estructura, Unicos, Hilos, Semaforos
<1>1. ~LeeParams(h) /\ ~ResuelvePf(h)
  BY <1>0 DEF NadieFalta, LeeParams, ResuelvePf, En
<1>2. CASE SaleDeBlock(h) \/ Libera(h)
  <2>1. /\ UNCHANGED Admision
        /\ \E l \in {EntradaReady, "libre"} : Sigue(h, l) \/ Va(h, l, NULO)
    BY <1>2 DEF SaleDeBlock, Libera, Cruza, Admision, config, colas, pcbs
  <2>2. {EntradaReady, "libre"} \subseteq Puntos \ ConPermiso
    BY EntradaLugar DEF Puntos, EnEspera, ConPermiso
  <2> QED
    BY <1>0, <2>1, <2>2, PermisosSigue
<1>3. CASE SaleDelSistema(h)
  <2>1. /\ hilo[h].pc = "sale" /\ Sigue(h, "libera") /\ V("multiprog_disponible")
        /\ plani_exit' = plani_exit \cup {p}
        /\ UNCHANGED <<plani_new, pid_global, multiprogramacion>>
    BY <1>3 DEF SaleDelSistema, En, Pcb, pcbs, config
  <2>2. sem'["multiprog_disponible"] = sem["multiprog_disponible"] + 1
    BY <1>0, <2>1, AlSubir
  <2>3. hilo'["largo"] = hilo["largo"]
    BY <1>0, <2>1, AlSeguir DEF Puntos, EnMano
  <2>4. p \in total_pcbs \ EnColas /\ p \notin plani_exit
    BY <1>0, <2>1 DEF ManosUnicas, EnMano
  <2>5. Admitidos' = Admitidos \ {p} /\ p \in Admitidos
    BY <1>0, <2>1, <2>4 DEF Admitidos, EnColas, Creados, PcbsOK
  <2>6. Cardinality(Admitidos') = Cardinality(Admitidos) - 1
    BY <1>0, <2>5, AdmitidosFinito, FS_RemoveElement
  <2>7. /\ sem["multiprog_disponible"] \in Nat /\ multiprogramacion \in Nat
        /\ Cardinality(Admitidos) \in Nat
    BY <1>0, AdmitidosFinito DEF SemOK, RestoOK
  <2> QED
    BY <2>1, <2>2, <2>3, <2>6, <2>7 DEF Permisos, Uno
<1> QED
  BY <1>1, <1>2, <1>3 DEF Auxiliar

LEMMA PermisosConsola ==
  ASSUME SinCambio, TipoInv, Unicos, Permisos, Consola
  PROVE  Permisos'
<1>0. /\ SemOK /\ PcbsOK /\ RestoOK /\ ColasUnicas /\ plani_new \in Seq(Procesos)
      /\ {"multiprog_disponible", "pcbs_en_new"} \subseteq Semaforos
  BY DEF TipoInv, Estructura, ColasOK, Unicos, Semaforos
<1>1. ASSUME NEW prio, IniciarProceso(prio) PROVE Permisos'
  <2> DEFINE p == pid_global
  <2>1. /\ plani_new' = Append(plani_new, p) /\ pid_global' = p + 1 /\ p \in Nat
        /\ p \in Procesos /\ UNCHANGED <<plani_exit, hilo, multiprogramacion>>
    BY <1>0, <1>1, ConstantesOK DEF IniciarProceso, config, PcbsOK, Procesos
  <2>2. UNCHANGED sem["multiprog_disponible"]
    BY <1>0, <1>1, AlSubir DEF IniciarProceso
  <2>3. ToSet(plani_new') = ToSet(plani_new) \cup {p}
    BY <1>0, <2>1, EnAgregado
  <2>4. Creados' = Creados \cup {p} /\ p \notin Creados
    BY <2>1 DEF Creados
  <2>5. Admitidos' = Admitidos
    BY <2>1, <2>3, <2>4 DEF Admitidos
  <2> QED
    BY <2>1, <2>2, <2>5 DEF Permisos
<1>2. CASE DetenerPlanificacion \/ IniciarPlanificacion
  <2>1. consola + 1 \in 1 .. 5 => OrdenDetener[consola + 1] \in Compuertas
    BY DEF OrdenDetener, Compuertas
  <2>2. consola + 1 \in 1 .. 5
    BY <1>0 DEF RestoOK
  <2>3. UNCHANGED <<Admision, hilo>>
    BY <1>0, <1>2, <2>1, <2>2 DEF DetenerPlanificacion, IniciarPlanificacion, Admision, SemOK,
       Semaforos, Compuertas, config, colas, pcbs
  <2> QED
    BY <2>3, PermisosMarco
<1>3. \A n : ~CambiarMultiprogramacion(n)
  BY DEF SinCambio, CambiarMultiprogramacion
<1> QED
  BY <1>1, <1>2, <1>3 DEF Consola

LEMMA PermisosPaso ==
  ASSUME SinCambio
  PROVE  TipoInv /\ Unicos /\ Permisos /\ [Next]_vars => Permisos'
<1> SUFFICES ASSUME TipoInv, Unicos, Permisos, [Next]_vars PROVE Permisos'
  OBVIOUS
<1>1. CASE \/ CpuDesaloja \/ \E c \in Servicios : CpuDevuelve(c)
           \/ \E p \in Procesos : VenceQuantum(p)
           \/ UNCHANGED vars
  <2>1. UNCHANGED <<Admision, hilo>>
    BY <1>1 DEF CpuDesaloja, CpuDevuelve, VenceQuantum, vars, colas, pcbs, config, Admision
  <2> QED
    BY <2>1, PermisosMarco
<1> QED
  BY <1>1, PermisosAgregar, PermisosLargo, PermisosCorto, PermisosAuxiliar, PermisosConsola
     DEF Next

\* The multiprogramming degree is respected for any number of processes and threads: every
\* permit taken by the long-term planner comes back exactly once, with the exit thread of
\* the process it let in.
THEOREM GradoTeorema ==
  ASSUME SinFaltas, SinCambio
  PROVE  Spec => []GradoRespetado
<1>1. Init => TipoInv /\ Unicos /\ Permisos
  BY TipoInicial, UnicosInicial, PermisosInicial
<1>2. TipoInv /\ Unicos /\ Permisos /\ [Next]_vars => (TipoInv /\ Unicos /\ Permisos)'
  BY TipoPaso, UnicosPaso, PermisosPaso
<1> QED
  BY <1>1, <1>2, PermisosGrado, PTL DEF Spec

-----------------------------------------------------------------------------
(* The life cycle: each process's place says its phase, and each step is one of CicloDeVida *)

\* What the cases of Fase say of process q.
Ejecuta(q)   == hilo["corto"].pc \in EnEjecucion /\ hilo["corto"].pcb = q
Bloqueado(q) == \E h \in Hilos : hilo[h].pc \in {"espera", "pide_pagina"} /\ hilo[h].pcb = q
Saliendo(q)  == q \in Creados \ total_pcbs \/ \E h \in Hilos : Despide(h, q)

\* The phase of the process that thread h has.
Etapa(h) ==
  IF h = "corto" /\ hilo[h].pc \in EnEjecucion THEN "EXEC"
  ELSE IF hilo[h].pc \in {"espera", "pide_pagina"} THEN "BLOCK"
  ELSE IF hilo[h].pc \in {"sale", "libera"} THEN "EXIT"
  ELSE "READY"

LEMMA FaseValor ==
  ASSUME NEW q \in Procesos
  PROVE  Fase[q] = CASE q >= pid_global -> "SIN_CREAR"
                     [] q \in ToSet(plani_new) -> "NEW"
                     [] Ejecuta(q) -> "EXEC"
                     [] Bloqueado(q) -> "BLOCK"
                     [] Saliendo(q) -> "EXIT"
                     [] OTHER -> "READY"
BY DEF Fase, Ejecuta, Bloqueado, Saliendo, Despide, Pcb

\* The places a process can be in exclude each other, so that Fase is what each says.
FasePorLugar ==
  \A p \in Procesos :
    /\ p >= pid_global => Fase[p] = "SIN_CREAR"
    /\ p \in ToSet(plani_new) => Fase[p] = "NEW"
    /\ p \in ToSet(plani_ready) => Fase[p] = "READY"
    /\ p \in Creados \ total_pcbs => Fase[p] = "EXIT"
    /\ \A h \in Hilos : Tiene(h, p) => Fase[p] = Etapa(h)

LEMMA FaseLugar == TipoInv /\ Unicos => FasePorLugar
<1> SUFFICES ASSUME TipoInv, Unicos, NEW p \in Procesos
             PROVE  /\ p >= pid_global => Fase[p] = "SIN_CREAR"
                    /\ p \in ToSet(plani_new) => Fase[p] = "NEW"
                    /\ p \in ToSet(plani_ready) => Fase[p] = "READY"
                    /\ p \in Creados \ total_pcbs => Fase[p] = "EXIT"
                    /\ \A h \in Hilos : Tiene(h, p) => Fase[p] = Etapa(h)
  BY DEF FasePorLugar
<1>1. /\ pid_global \in Nat /\ Procesos \subseteq Nat /\ total_pcbs \subseteq Creados
      /\ ToSet(plani_new) \cup ToSet(plani_ready) \subseteq total_pcbs
      /\ ToSet(plani_new) \cap ToSet(plani_ready) = {}
      /\ "corto" \in Hilos /\ p \in Nat
  BY ConstantesOK DEF TipoInv, Estructura, PcbsOK, Unicos, ColasUnicas, EnColas, Hilos, Procesos
<1>2. p \in Creados <=> ~(p >= pid_global)
  BY <1>1 DEF Creados
<1>3. ASSUME NEW h \in Hilos, Tiene(h, p)
      PROVE  /\ p \in total_pcbs /\ p \notin ToSet(plani_new) /\ p \notin ToSet(plani_ready)
             /\ \A g \in Hilos : Tiene(g, p) => g = h
  BY <1>3 DEF Unicos, ManosUnicas, EnColas, Tiene
<1>4. /\ Ejecuta(p) => Tiene("corto", p)
      /\ Bloqueado(p) => \E h \in Hilos :
                           Tiene(h, p) /\ hilo[h].pc \in {"espera", "pide_pagina"}
      /\ \A h \in Hilos : Despide(h, p) => Tiene(h, p)
  BY DEF Ejecuta, Bloqueado, Despide, Tiene, EnMano, EnEjecucion
<1>5. p >= pid_global => ~Ejecuta(p) /\ ~Bloqueado(p) /\ ~Saliendo(p) /\ p \notin EnColas
  BY <1>1, <1>2, <1>3, <1>4 DEF Saliendo, EnColas
<1>6. p \in EnColas => ~Ejecuta(p) /\ ~Bloqueado(p) /\ ~Saliendo(p)
  BY <1>1, <1>3, <1>4 DEF Saliendo, EnColas
<1>7. p \in Creados \ total_pcbs => ~Ejecuta(p) /\ ~Bloqueado(p) /\ p \notin EnColas
  BY <1>1, <1>3, <1>4 DEF EnColas
<1>8. ASSUME NEW h \in Hilos, Tiene(h, p)
      PROVE  Fase[p] = Etapa(h)
  <2>1. /\ ~(p >= pid_global) /\ p \notin ToSet(plani_new)
        /\ Ejecuta(p) <=> h = "corto" /\ hilo[h].pc \in EnEjecucion
        /\ Bloqueado(p) <=> hilo[h].pc \in {"espera", "pide_pagina"}
        /\ Saliendo(p) <=> hilo[h].pc \in {"sale", "libera"}
    BY <1>1, <1>2, <1>3, <1>4, <1>8 DEF Ejecuta, Bloqueado, Saliendo, Despide, Tiene
  <2>2. EnEjecucion \cap {"espera", "pide_pagina", "sale", "libera"} = {}
    BY DEF EnEjecucion
  <2> QED
    BY <2>1, <2>2, FaseValor DEF Etapa
<1>9. p >= pid_global => Fase[p] = "SIN_CREAR"
  BY <1>5, FaseValor DEF EnColas
<1>10. p \in ToSet(plani_new) => Fase[p] = "NEW"
  BY <1>1, <1>2, <1>6, FaseValor DEF EnColas
<1>11. p \in ToSet(plani_ready) => Fase[p] = "READY"
  BY <1>1, <1>2, <1>6, FaseValor DEF EnColas
<1>12. p \in Creados \ total_pcbs => Fase[p] = "EXIT"
  BY <1>1, <1>2, <1>7, FaseValor DEF EnColas, Saliendo
<1> QED
  BY <1>8, <1>9, <1>10, <1>11, <1>12

LEMMA FaseLugarPrima == TipoInv' /\ Unicos' => FasePorLugar'
BY FaseLugar, PTL

\* What a phase says of the place.
LEMMA FaseImplica ==
  ASSUME TipoInv, Unicos, NEW q \in Procesos
  PROVE  /\ Fase[q] = "SIN_CREAR" => q >= pid_global
         /\ Fase[q] = "NEW" => q \in ToSet(plani_new)
         /\ Fase[q] = "EXEC" => Ejecuta(q)
         /\ Fase[q] \in {"READY", "EXEC", "BLOCK"} =>
              q \in Creados /\ q \notin ToSet(plani_new) /\ ~Saliendo(q)
<1>1. /\ Fase[q] = "SIN_CREAR" => q >= pid_global
      /\ Fase[q] = "NEW" => q \in ToSet(plani_new)
      /\ Fase[q] = "EXEC" => Ejecuta(q)
  BY FaseValor
<1>2. pid_global \in Nat /\ q \in Nat
  BY ConstantesOK DEF TipoInv, Estructura, PcbsOK, Procesos
<1>3. ~(q >= pid_global) => q \in Creados
  BY <1>2 DEF Creados
<1>4. Saliendo(q) => Fase[q] = "EXIT"
  <2>1. ASSUME NEW h \in Hilos, Despide(h, q)
        PROVE  Tiene(h, q) /\ Etapa(h) = "EXIT"
    BY <2>1 DEF Despide, Tiene, EnMano, Etapa, EnEjecucion
  <2> QED
    BY <2>1, FaseLugar DEF FasePorLugar, Saliendo
<1> QED
  BY <1>1, <1>3, <1>4, FaseLugar DEF FasePorLugar

-----------------------------------------------------------------------------
(* Steps that change the phase of one process, or of none *)

LEMMA FaseIgual ==
  ASSUME NEW q \in Procesos,
         (q >= pid_global)' <=> q >= pid_global,
         (q \in ToSet(plani_new))' <=> q \in ToSet(plani_new),
         Ejecuta(q)' <=> Ejecuta(q), Bloqueado(q)' <=> Bloqueado(q),
         Saliendo(q)' <=> Saliendo(q)
  PROVE  Fase'[q] = Fase[q]
BY DEF Fase, Ejecuta, Bloqueado, Saliendo, Despide, Pcb

\* The points of thread h that Fase looks at.
Notables(h) ==
  {"espera", "pide_pagina", "sale", "libera"} \cup (IF h = "corto" THEN EnEjecucion ELSE {})

\* A step of one thread leaves the phase of every process but the one it has.
LEMMA FaseAjena ==
  ASSUME NEW h \in Hilos, \A g \in Hilos : g # h => hilo'[g] = hilo[g],
         NEW q \in Procesos,
         hilo[h].pc \in Notables(h) => hilo[h].pcb # q,
         hilo'[h].pc \in Notables(h) => hilo'[h].pcb # q,
         UNCHANGED pid_global,
         (q \in ToSet(plani_new))' <=> q \in ToSet(plani_new),
         q \in total_pcbs' <=> q \in total_pcbs
  PROVE  Fase'[q] = Fase[q]
<1>1. "corto" \in Hilos
  BY DEF Hilos
<1>2. Ejecuta(q)' <=> Ejecuta(q)
  BY <1>1 DEF Ejecuta, Notables
<1>3. Bloqueado(q)' <=> Bloqueado(q)
  BY DEF Bloqueado, Notables
<1>4. Saliendo(q)' <=> Saliendo(q)
  BY DEF Saliendo, Notables, Despide, Creados
<1> QED
  BY <1>2, <1>3, <1>4, FaseIgual

LEMMA FaseFuncion == Fase = [p \in Procesos |-> Fase[p]] /\ Fase' = [p \in Procesos |-> Fase'[p]]
BY DEF Fase

\* The step of the life cycle that moves p.
LEMMA FasePasa ==
  ASSUME NEW p \in Procesos, \A q \in Procesos \ {p} : Fase'[q] = Fase[q],
         NEW antes, NEW despues, Fase[p] = antes, Fase'[p] = despues
  PROVE  Ciclo!Pasa(p, antes, despues)
BY FaseFuncion DEF Ciclo!Pasa

LEMMA FaseQueda ==
  ASSUME \A q \in Procesos : Fase'[q] = Fase[q]
  PROVE  UNCHANGED Fase
BY FaseFuncion

\* One thread moves between points that Fase does not look at.
LEMMA FaseCallada ==
  ASSUME NEW h \in Hilos, \A g \in Hilos : g # h => hilo'[g] = hilo[g],
         hilo[h].pc \notin Notables(h), hilo'[h].pc \notin Notables(h),
         UNCHANGED <<pid_global, plani_new, total_pcbs>>
  PROVE  UNCHANGED Fase
BY FaseAjena, FaseQueda

-----------------------------------------------------------------------------
(* Each step *)

\* The plain part of what the refinement needs: NEW holds the processes in the order of
\* their creation, and the degree is the configured one.
Ordenados ==
  /\ \A i, j \in DOMAIN plani_new : i < j => plani_new[i] < plani_new[j]
  /\ multiprogramacion = GradoInicial

CicloInv == TipoInv /\ Unicos /\ Presentes /\ Permisos /\ Ordenados

LEMMA CicloAgregar ==
  ASSUME CicloInv, NEW h \in Hilos, AgregarAReady(h)
  PROVE  UNCHANGED Fase
<1>1. UNCHANGED <<pid_global, plani_new, total_pcbs>> /\ HiloOK
  BY DEF AgregarAReady, MiraExec, Compara, Encola, Marca, Lista, colas, pcbs, CicloInv, TipoInv,
     Estructura
<1>2. hilo[h].pc \in {"mira_exec", "compara", "encola", "marca", "lista"}
  BY DEF AgregarAReady, MiraExec, Compara, Encola, Marca, Lista, En
<1>3. \E l \in {"encola", "compara", "marca", "lista", "espera_new", "espera_ready", "libre"} :
        Sigue(h, l) \/ Va(h, l, NULO)
  BY DEF AgregarAReady, MiraExec, Compara, Encola, Marca, Lista
<1>4. hilo'[h].pc \in {"encola", "compara", "marca", "lista", "espera_new", "espera_ready", "libre"}
  BY <1>1, <1>3, AlSeguir, AlIr DEF Puntos, EnEspera, EnMano, EnCola
<1>5. \A g \in Hilos : g # h => hilo'[g] = hilo[g]
  BY <1>1, <1>3, AlSeguir, AlIr DEF Puntos, EnEspera, EnMano, EnCola
<1>6. hilo[h].pc \notin Notables(h) /\ hilo'[h].pc \notin Notables(h)
  BY <1>2, <1>4 DEF Notables, EnEjecucion
<1> QED
  BY <1>1, <1>5, <1>6, FaseCallada

\* A process that holds the phase of an admitted one is one of Admitidos.
LEMMA ActivosAdmitidos ==
  ASSUME CicloInv
  PROVE  Ciclo!Activos \subseteq Admitidos
<1> SUFFICES ASSUME NEW q \in Procesos, Fase[q] \in {"READY", "EXEC", "BLOCK"}
             PROVE  q \in Admitidos
  BY DEF Ciclo!Activos
<1>1. q \in Creados /\ q \notin ToSet(plani_new) /\ ~Saliendo(q)
  BY FaseImplica DEF CicloInv
<1>2. q \in total_pcbs
  BY <1>1 DEF Saliendo
<1>3. q \notin plani_exit
  <2>1. ASSUME q \in plani_exit PROVE FALSE
    <3>1. PICK h \in Hilos : Tiene(h, q)
      BY <1>2, <2>1 DEF CicloInv, Presentes, Unicos, ColasUnicas
    <3>2. hilo[h].pc = "libera"
      BY <2>1, <3>1 DEF CicloInv, Unicos, ManosUnicas, Tiene
    <3> QED
      BY <1>1, <3>1, <3>2 DEF Saliendo, Despide, Tiene
  <2> QED
    BY <2>1
<1> QED
  BY <1>1, <1>3 DEF Admitidos

LEMMA MismaCardinalidad == ASSUME NEW S PROVE Ciclo!Cardinality(S) = Cardinality(S)
BY Zenon DEF Ciclo!Cardinality, Cardinality

LEMMA HayPermiso ==
  ASSUME CicloInv, hilo["largo"].pc = "saca_new"
  PROVE  Cardinality(Ciclo!Activos) < GradoInicial
<1>1. IsFiniteSet(Admitidos) /\ Cardinality(Admitidos) \in Nat
  BY AdmitidosFinito DEF CicloInv, TipoInv, Estructura
<1>2. Cardinality(Ciclo!Activos) \in Nat /\ Cardinality(Ciclo!Activos) <= Cardinality(Admitidos)
  BY <1>1, ActivosAdmitidos, FS_Subset, FS_CardinalityType
<1>3. sem["multiprog_disponible"] \in Nat /\ multiprogramacion = GradoInicial
  BY DEF CicloInv, TipoInv, Estructura, SemOK, Semaforos, Ordenados
<1>4. sem["multiprog_disponible"] + 1 + Cardinality(Admitidos) = GradoInicial
  BY <1>3 DEF CicloInv, Permisos, Uno, ConPermiso
<1> QED
  BY <1>1, <1>2, <1>3, <1>4

LEMMA CicloLargo ==
  ASSUME CicloInv, CicloInv', Largo
  PROVE  Ciclo!Next \/ UNCHANGED Fase
<1>1. HiloOK /\ plani_new \in Seq(Procesos) /\ "largo" \in Hilos
  BY HilosFinitos DEF CicloInv, TipoInv, Estructura, ColasOK
<1>2. UNCHANGED <<pid_global, total_pcbs>>
  BY DEF Largo, LargoEsperaNew, LargoEsperaMulti, LargoCompuerta, LargoSaca, pcbs
<1>3. CASE LargoEsperaNew \/ LargoEsperaMulti \/ LargoCompuerta
  <2>1. \E l \in {"espera_multi", "bloqueado", "compuerta", "saca_new"} : Sigue("largo", l)
    BY <1>3 DEF LargoEsperaNew, LargoEsperaMulti, LargoCompuerta
  <2>2. /\ hilo'["largo"].pc \in {"espera_multi", "bloqueado", "compuerta", "saca_new"}
        /\ \A g \in Hilos : g # "largo" => hilo'[g] = hilo[g]
    BY <1>1, <2>1, AlSeguir DEF Puntos, EnEspera
  <2>3. hilo["largo"].pc \in {"espera_new", "espera_multi", "bloqueado", "compuerta"}
    BY <1>3 DEF LargoEsperaNew, LargoEsperaMulti, LargoCompuerta, En
  <2>4. UNCHANGED plani_new
    BY <1>3 DEF LargoEsperaNew, LargoEsperaMulti, LargoCompuerta, colas
  <2> QED
    BY <1>1, <1>2, <2>2, <2>3, <2>4, FaseCallada DEF Notables
<1>4. CASE LargoSaca /\ plani_new = <<>>
  <2>1. UNCHANGED <<hilo, plani_new>>
    BY <1>4 DEF LargoSaca
  <2>2. "espera_new" \notin Notables("largo")
    BY DEF Notables
  <2> QED
    BY <1>1, <1>2, <1>4, <2>1, FaseCallada DEF LargoSaca, En, Notables
<1>5. CASE LargoSaca /\ plani_new # <<>>
  <2>0. PICK p \in Procesos : p = Head(plani_new)
    BY <1>1, <1>5, EnCabeza
  <2>1. /\ p \in ToSet(plani_new) /\ plani_new' = Tail(plani_new)
        /\ Va("largo", EntradaReady, p) /\ hilo["largo"].pc = "saca_new"
    BY <1>1, <1>5, <2>0, EnCabeza DEF LargoSaca, En
  <2>2. /\ hilo'["largo"].pc = EntradaReady /\ hilo'["largo"].pcb = p
        /\ \A g \in Hilos : g # "largo" => hilo'[g] = hilo[g]
    BY <1>1, <2>1, AlIr, EntradaLugar
  <2>3. Fase[p] = "NEW"
    BY <2>1, FaseLugar DEF CicloInv, FasePorLugar
  <2>4. Fase'[p] = "READY"
    <3>1. Tiene("largo", p)' /\ Etapa("largo")' = "READY"
      BY <2>2, EntradaLugar DEF Tiene, Etapa
    <3> QED
      BY <1>1, <2>1, <3>1, FaseLugarPrima DEF CicloInv, FasePorLugar
  <2>5. ASSUME NEW q \in Procesos \ {p}
        PROVE  (q \in ToSet(plani_new))' <=> q \in ToSet(plani_new)
    <3>1. ToSet(plani_new) = ToSet(plani_new') \cup {p}
      BY <1>1, <1>5, <2>0, <2>1, EnCabeza
    <3> QED
      BY <3>1
  <2>6. ASSUME NEW q \in Procesos \ {p}
        PROVE  Fase'[q] = Fase[q]
    BY <1>1, <1>2, <2>1, <2>2, <2>5, FaseAjena DEF Notables
  <2>7. ASSUME NEW q \in Procesos, q < p
        PROVE  Fase[q] # "NEW"
    <3>1. SUFFICES ASSUME q \in ToSet(plani_new) PROVE FALSE
      BY FaseImplica DEF CicloInv
    <3>2. PICK i \in DOMAIN plani_new : q = plani_new[i]
      BY <3>1 DEF ToSet
    <3>3. /\ i \in Nat \ {0} /\ 1 \in DOMAIN plani_new /\ p = plani_new[1]
          /\ p \in Int /\ q \in Int
      BY <1>1, <1>5, <3>2, <2>0, <2>1, ConstantesOK DEF Procesos
    <3>4. i = 1 \/ plani_new[1] < plani_new[i]
      BY <3>3, <3>2 DEF CicloInv, Ordenados
    <3> QED
      BY <2>7, <3>2, <3>3, <3>4
  <2>8. Ciclo!Pasa(p, "NEW", "READY")
    BY <2>1, <2>3, <2>4, <2>6, FasePasa
  <2>9. Ciclo!Admitir(p)
    BY <2>1, <2>7, <2>8, HayPermiso, MismaCardinalidad DEF Ciclo!Admitir
  <2> QED
    BY <2>1, <2>9 DEF Ciclo!Next
<1> QED
  BY <1>3, <1>4, <1>5 DEF Largo


\* The planner's thread moves, with the process in hand before and after.
LEMMA CortoIgual ==
  ASSUME CicloInv, NEW p, hilo["corto"].pcb = p, hilo'["corto"].pcb = p,
         hilo["corto"].pc \in EnEjecucion, hilo'["corto"].pc \in EnEjecucion,
         \A g \in Hilos : g # "corto" => hilo'[g] = hilo[g],
         UNCHANGED <<pid_global, plani_new, total_pcbs>>
  PROVE  UNCHANGED Fase
<1>1. "corto" \in Hilos /\ EnEjecucion \cap {"espera", "pide_pagina", "sale", "libera"} = {}
  BY DEF Hilos, EnEjecucion
<1>2. ASSUME NEW q \in Procesos
      PROVE  Fase'[q] = Fase[q]
  <2>1. Ejecuta(q)' <=> Ejecuta(q)
    BY DEF Ejecuta
  <2>2. Bloqueado(q)' <=> Bloqueado(q)
    BY <1>1 DEF Bloqueado
  <2>3. Saliendo(q)' <=> Saliendo(q)
    BY <1>1 DEF Saliendo, Despide, Creados
  <2> QED
    BY <2>1, <2>2, <2>3, FaseIgual
<1> QED
  BY <1>2, FaseQueda

\* The planner hands its process over to a new thread.
LEMMA CortoEntrega ==
  ASSUME CicloInv, CicloInv', hilo["corto"].pc \in EnEjecucion,
         NEW l \in {"sale", "espera"}, Lanza(l, hilo["corto"].pcb),
         UNCHANGED <<pid_global, plani_new, total_pcbs>>
  PROVE  /\ hilo["corto"].pcb \in Procesos
         /\ Ciclo!Pasa(hilo["corto"].pcb, "EXEC", IF l = "sale" THEN "EXIT" ELSE "BLOCK")
<1> DEFINE fin == IF l = "sale" THEN "EXIT" ELSE "BLOCK"
<1>1. /\ HiloOK /\ PcbOK /\ "corto" \in Hilos /\ l \in Puntos /\ l \in EnMano
      /\ EnEjecucion \subseteq EnMano
  BY HilosFinitos DEF CicloInv, TipoInv, Estructura, Puntos, EnMano, EnEjecucion
<1>2. PICK p \in Procesos : p = hilo["corto"].pcb
  BY <1>1 DEF PcbOK
<1>3. PICK a \in Hilos \ {"corto"} :
        /\ hilo[a].pc = "libre" /\ hilo'[a].pc = l /\ hilo'[a].pcb = p
        /\ \A g \in Hilos : g \notin {a, "corto"} => hilo'[g] = hilo[g]
  BY <1>1, <1>2, AlLanzar
<1>4. hilo'["corto"].pc = "espera_ready"
  BY <1>1, <1>2, AlLanzar
<1>5. Fase[p] = "EXEC"
  <2>1. Tiene("corto", p) /\ Etapa("corto") = "EXEC"
    BY <1>1, <1>2 DEF Tiene, Etapa
  <2> QED
    BY <1>1, <1>2, <2>1, FaseLugar DEF CicloInv, FasePorLugar
<1>6. Fase'[p] = fin
  <2>1. Tiene(a, p)' /\ Etapa(a)' = fin
    BY <1>1, <1>3 DEF Tiene, Etapa
  <2> QED
    BY <1>2, <2>1, FaseLugarPrima DEF CicloInv, FasePorLugar
<1>7. ASSUME NEW q \in Procesos \ {p}
      PROVE  Fase'[q] = Fase[q]
  <2>1. Ejecuta(q)' <=> Ejecuta(q)
    BY <1>2, <1>4 DEF Ejecuta, EnEjecucion
  <2>2. Bloqueado(q)' <=> Bloqueado(q)
    BY <1>1, <1>3, <1>4 DEF Bloqueado, EnEjecucion
  <2>3. Saliendo(q)' <=> Saliendo(q)
    BY <1>1, <1>3, <1>4 DEF Saliendo, Despide, Creados, EnEjecucion
  <2> QED
    BY <2>1, <2>2, <2>3, FaseIgual
<1> HIDE DEF fin
<1>8. Ciclo!Pasa(p, "EXEC", fin)
  BY <1>2, <1>5, <1>6, <1>7, FasePasa
<1> QED
  BY <1>2, <1>8 DEF fin

LEMMA CicloElige ==
  ASSUME CicloInv, CicloInv', CortoElige
  PROVE  Ciclo!Next \/ UNCHANGED Fase
<1>1. /\ HiloOK /\ plani_ready \in Seq(Procesos) /\ "corto" \in Hilos
      /\ hilo["corto"].pc = "elige" /\ "elige" \notin Notables("corto")
      /\ UNCHANGED <<pid_global, plani_new, total_pcbs>>
  BY HilosFinitos DEF CicloInv, TipoInv, Estructura, ColasOK, CortoElige, En, pcbs, Notables,
     EnEjecucion
<1>2. CASE plani_ready = <<>>
  <2>1. Sigue("corto", "espera_ready")
    BY <1>2 DEF CortoElige
  <2>2. /\ hilo'["corto"].pc = "espera_ready"
        /\ \A g \in Hilos : g # "corto" => hilo'[g] = hilo[g]
    BY <1>1, <2>1, AlSeguir DEF Puntos, EnEspera
  <2>3. "espera_ready" \notin Notables("corto")
    BY DEF Notables, EnEjecucion
  <2> QED
    BY <1>1, <2>2, <2>3, FaseCallada
<1>3. CASE plani_ready # <<>>
  <2>1. PICK i \in DOMAIN plani_ready : Va("corto", "agrega_exec", plani_ready[i])
    BY <1>3 DEF CortoElige
  <2>2. PICK p \in Procesos : p = plani_ready[i] /\ p \in ToSet(plani_ready)
    BY <1>1, AlQuitar
  <2>3. /\ hilo'["corto"].pc = "agrega_exec" /\ hilo'["corto"].pcb = p
        /\ \A g \in Hilos : g # "corto" => hilo'[g] = hilo[g]
    BY <1>1, <2>1, <2>2, AlIr DEF Puntos, EnMano
  <2>4. Fase[p] = "READY"
    BY <2>2, FaseLugar DEF CicloInv, FasePorLugar
  <2>5. Fase'[p] = "EXEC"
    <3>1. Tiene("corto", p)' /\ Etapa("corto")' = "EXEC"
      BY <2>3 DEF Tiene, Etapa, EnMano, EnEjecucion
    <3> QED
      BY <1>1, <2>2, <3>1, FaseLugarPrima DEF CicloInv, FasePorLugar
  <2>6. ASSUME NEW q \in Procesos \ {p}
        PROVE  Fase'[q] = Fase[q]
    BY <1>1, <2>3, FaseAjena
  <2>7. \A q \in Procesos : Fase[q] # "EXEC"
    BY <1>1, FaseImplica DEF CicloInv, Ejecuta, EnEjecucion
  <2>8. Ciclo!Pasa(p, "READY", "EXEC")
    BY <2>2, <2>4, <2>5, <2>6, FasePasa
  <2>9. Ciclo!Despachar(p)
    BY <2>7, <2>8 DEF Ciclo!Despachar
  <2> QED
    BY <2>2, <2>9 DEF Ciclo!Next
<1> QED
  BY <1>2, <1>3

LEMMA CicloDesaloja ==
  ASSUME CicloInv, CicloInv', CortoDesaloja
  PROVE  Ciclo!Next
<1>1. /\ HiloOK /\ PcbOK /\ "corto" \in Hilos /\ hilo["corto"].pc = "atiende"
      /\ UNCHANGED <<pid_global, plani_new, total_pcbs>>
  BY HilosFinitos DEF CicloInv, TipoInv, Estructura, CortoDesaloja, Atiende, En, colas, pcbs
<1>0. PICK p \in Procesos : p = hilo["corto"].pcb
  BY <1>1 DEF PcbOK, EnMano
<1>2. Tiene("corto", p) /\ Etapa("corto") = "EXEC"
  BY <1>0, <1>1 DEF Tiene, Etapa, EnMano, EnEjecucion
<1>3. estado[p] # "FIN"
  <2>1. ASSUME estado[p] = "FIN" PROVE FALSE
    <3>1. p \in total_pcbs
      BY <1>1, <1>2 DEF CicloInv, Unicos, ManosUnicas, Tiene
    <3>2. PICK h \in Hilos : Despide(h, p)
      BY <2>1, <3>1 DEF CicloInv, Presentes
    <3>3. h # "corto" /\ hilo[h].pc \in EnMano /\ hilo[h].pcb = p
      BY <1>1, <3>2 DEF Despide, EnMano
    <3> QED
      BY <1>1, <1>2, <3>3 DEF CicloInv, Unicos, ManosUnicas, Tiene
  <2> QED
    BY <2>1
<1>4. Sigue("corto", EntradaReady)
  BY <1>0, <1>3 DEF CortoDesaloja, Pcb
<1>5. /\ hilo'["corto"].pc = EntradaReady /\ hilo'["corto"].pcb = p
      /\ \A g \in Hilos : g # "corto" => hilo'[g] = hilo[g]
  BY <1>0, <1>1, <1>4, AlSeguir, EntradaLugar
<1>6. Fase[p] = "EXEC"
  BY <1>1, <1>2, FaseLugar DEF CicloInv, FasePorLugar
<1>7. Fase'[p] = "READY"
  <2>1. Tiene("corto", p)' /\ Etapa("corto")' = "READY"
    BY <1>5, EntradaLugar DEF Tiene, Etapa, EnEjecucion
  <2> QED
    BY <1>1, <1>2, <2>1, FaseLugarPrima DEF CicloInv, FasePorLugar
<1>8. ASSUME NEW q \in Procesos \ {p}
      PROVE  Fase'[q] = Fase[q]
  BY <1>0, <1>1, <1>5, FaseAjena
<1>9. Ciclo!Desalojar(p)
  BY <1>2, <1>6, <1>7, <1>8, FasePasa DEF Ciclo!Desalojar
<1> QED
  BY <1>2, <1>9 DEF Ciclo!Next

LEMMA CicloCorto ==
  ASSUME CicloInv, CicloInv', Corto
  PROVE  Ciclo!Next \/ UNCHANGED Fase
<1>1. /\ HiloOK /\ ExecOK /\ "corto" \in Hilos /\ hilo["corto"].pcb \in Procesos \cup {NULO}
  BY HilosFinitos DEF CicloInv, TipoInv, Estructura, HiloOK
<1>2. UNCHANGED <<pid_global, plani_new, total_pcbs>>
  BY DEF Corto, CortoEsperaReady, CortoEsperaEjecutar, CortoElige, CortoAgregaExec,
     CortoDespacha, CortoRedespacha, CortoRecibe, CortoFinaliza, CortoSacaExec, CortoDuerme,
     CortoPideFS, CortoPageFault, CortoContinua, CortoDesaloja, colas, pcbs
<1>3. CASE CortoEsperaReady \/ CortoEsperaEjecutar
  <2>1. /\ hilo["corto"].pc \in {"espera_ready", "espera_ejecutar"}
        /\ \E l \in {"espera_ejecutar", "elige"} : Sigue("corto", l)
    BY <1>3 DEF CortoEsperaReady, CortoEsperaEjecutar, En
  <2>2. /\ hilo'["corto"].pc \in {"espera_ejecutar", "elige"}
        /\ \A g \in Hilos : g # "corto" => hilo'[g] = hilo[g]
    BY <1>1, <2>1, AlSeguir DEF Puntos, EnEspera
  <2>3. Notables("corto") \cap {"espera_ready", "espera_ejecutar", "elige"} = {}
    BY DEF Notables, EnEjecucion
  <2> QED
    BY <1>1, <1>2, <2>1, <2>2, <2>3, FaseCallada
<1>4. CASE \/ CortoAgregaExec \/ CortoDespacha \/ CortoRedespacha \/ CortoRecibe
           \/ CortoSacaExec \/ CortoContinua
  <2>1. hilo["corto"].pc \in EnEjecucion
    BY <1>4 DEF CortoAgregaExec, CortoDespacha, CortoRedespacha, CortoRecibe, CortoSacaExec,
       CortoContinua, Atiende, En, EnEjecucion
  <2>2. \/ \E l \in EnEjecucion : Sigue("corto", l) \/ Va("corto", l, hilo["corto"].pcb)
        \/ UNCHANGED hilo
    <3>1. CASE CortoAgregaExec \/ CortoRecibe \/ CortoContinua
      BY <3>1 DEF CortoAgregaExec, CortoRecibe, CortoContinua, EnEjecucion
    <3>2. CASE CortoDespacha
      BY <3>2 DEF CortoDespacha, Envia, Pcb, EnEjecucion
    <3>3. CASE CortoRedespacha
      <4>1. plani_exec = <<hilo["corto"].pcb>>
        BY <1>1, <3>3 DEF CortoRedespacha, En, ExecOK, EnDespacho
      <4> QED
        BY <3>3, <4>1 DEF CortoRedespacha, Envia, EnEjecucion
    <3>4. CASE CortoSacaExec
      <4>1. plani_exec = <<hilo["corto"].pcb>>
        BY <1>1, <3>4 DEF CortoSacaExec, Atiende, En, ExecOK, EnDespacho
      <4> QED
        BY <3>4, <4>1 DEF CortoSacaExec, EnEjecucion
    <3> QED
      BY <1>4, <3>1, <3>2, <3>3, <3>4
  <2>3. EnEjecucion \subseteq Puntos
    BY DEF EnEjecucion, Puntos, EnMano
  <2>4. /\ hilo'["corto"].pc \in EnEjecucion /\ hilo'["corto"].pcb = hilo["corto"].pcb
        /\ \A g \in Hilos : g # "corto" => hilo'[g] = hilo[g]
    BY <1>1, <2>1, <2>2, <2>3, AlSeguir, AlIr
  <2> QED
    BY <1>2, <2>1, <2>4, CortoIgual
<1>5. CASE CortoFinaliza
  <2>1. hilo["corto"].pc \in EnEjecucion /\ Lanza("sale", hilo["corto"].pcb)
    BY <1>5 DEF CortoFinaliza, Atiende, En, EnEjecucion, Pcb
  <2>2. /\ hilo["corto"].pcb \in Procesos
        /\ Ciclo!Pasa(hilo["corto"].pcb, "EXEC", "EXIT")
    BY <1>2, <2>1, CortoEntrega
  <2> QED
    BY <2>2 DEF Ciclo!Next, Ciclo!Terminar
<1>6. CASE CortoDuerme \/ CortoPideFS
  <2>1. hilo["corto"].pc \in EnEjecucion /\ Lanza("espera", hilo["corto"].pcb)
    BY <1>6 DEF CortoDuerme, CortoPideFS, Atiende, En, EnEjecucion, Pcb
  <2>2. /\ hilo["corto"].pcb \in Procesos
        /\ Ciclo!Pasa(hilo["corto"].pcb, "EXEC", "BLOCK")
    BY <1>2, <2>1, CortoEntrega
  <2> QED
    BY <2>2 DEF Ciclo!Next, Ciclo!Bloquear
<1>7. ~CortoPageFault
  BY DEF CortoPageFault, Atiende, CicloInv, Unicos, NadieFalta
<1> QED
  BY <1>3, <1>4, <1>5, <1>6, <1>7, CicloElige, CicloDesaloja DEF Corto


LEMMA CicloAuxiliar ==
  ASSUME CicloInv, CicloInv', NEW h \in Auxiliares, Auxiliar(h)
  PROVE  Ciclo!Next \/ UNCHANGED Fase
<1>1. /\ HiloOK /\ PcbOK /\ ManosUnicas /\ h \in Hilos /\ h # "corto"
      /\ UNCHANGED <<pid_global, plani_new>>
  BY ConstantesOK DEF CicloInv, TipoInv, Estructura, Unicos, Hilos, Auxiliar, SaleDeBlock,
     LeeParams, ResuelvePf, SaleDelSistema, Libera, colas, pcbs
<1>2. ~LeeParams(h) /\ ~ResuelvePf(h)
  BY <1>1 DEF LeeParams, ResuelvePf, En, CicloInv, Unicos, NadieFalta
<1>3. ASSUME hilo[h].pc \in {"espera", "sale", "libera"}
      PROVE  hilo[h].pcb \in Procesos /\ Tiene(h, hilo[h].pcb)
  BY <1>1, <1>3 DEF PcbOK, EnMano, Tiene
<1>4. CASE SaleDeBlock(h)
  <2>1. hilo[h].pc = "espera" /\ Sigue(h, EntradaReady) /\ UNCHANGED total_pcbs
    BY <1>4 DEF SaleDeBlock, En, pcbs
  <2>2. PICK p \in Procesos : p = hilo[h].pcb
    BY <1>3, <2>1
  <2>3. /\ hilo'[h].pc = EntradaReady /\ hilo'[h].pcb = p
        /\ \A g \in Hilos : g # h => hilo'[g] = hilo[g]
    BY <1>1, <2>1, <2>2, AlSeguir, EntradaLugar
  <2>4. Fase[p] = "BLOCK"
    <3>1. Etapa(h) = "BLOCK"
      BY <1>1, <2>1 DEF Etapa
    <3> QED
      BY <1>1, <1>3, <2>1, <2>2, <3>1, FaseLugar DEF CicloInv, FasePorLugar
  <2>5. Fase'[p] = "READY"
    <3>1. Tiene(h, p)' /\ Etapa(h)' = "READY"
      BY <1>1, <2>3, EntradaLugar DEF Tiene, Etapa
    <3> QED
      BY <1>1, <2>2, <3>1, FaseLugarPrima DEF CicloInv, FasePorLugar
  <2>6. ASSUME NEW q \in Procesos \ {p}
        PROVE  Fase'[q] = Fase[q]
    BY <1>1, <2>1, <2>2, <2>3, FaseAjena
  <2>7. Ciclo!Desbloquear(p)
    BY <2>4, <2>5, <2>6, FasePasa DEF Ciclo!Desbloquear
  <2> QED
    BY <2>7 DEF Ciclo!Next
<1>5. CASE SaleDelSistema(h) \/ Libera(h)
  <2>1. /\ hilo[h].pc \in {"sale", "libera"}
        /\ Sigue(h, "libera") \/ Va(h, "libre", NULO)
    BY <1>5 DEF SaleDelSistema, Libera, En
  <2>2. PICK p \in Procesos : p = hilo[h].pcb /\ Tiene(h, p)
    BY <1>3, <2>1
  <2>3. /\ \A g \in Hilos : g # h => hilo'[g] = hilo[g]
        /\ hilo'[h].pc = "libre" \/ (hilo'[h].pc = "libera" /\ hilo'[h].pcb = p)
    BY <1>1, <2>1, <2>2, AlSeguir, AlIr DEF Puntos, EnEspera, EnMano
  <2>4. \A q \in Procesos \ {p} : q \in total_pcbs' <=> q \in total_pcbs
    BY <1>5, <2>2 DEF SaleDelSistema, Libera, pcbs, Pcb
  <2>5. ASSUME NEW q \in Procesos \ {p}
        PROVE  Fase'[q] = Fase[q]
    <3>1. "libre" \notin Notables(h)
      BY <1>1 DEF Notables
    <3> QED
      BY <1>1, <2>2, <2>3, <2>4, <3>1, FaseAjena
  <2>6. Fase[p] = "EXIT"
    <3>1. Etapa(h) = "EXIT"
      BY <1>1, <2>1 DEF Etapa
    <3> QED
      BY <1>1, <2>2, <3>1, FaseLugar DEF CicloInv, FasePorLugar
  <2>7. Fase'[p] = "EXIT"
    <3>1. CASE SaleDelSistema(h)
      <4>1. Sigue(h, "libera")
        BY <3>1 DEF SaleDelSistema
      <4>2. Tiene(h, p)' /\ Etapa(h)' = "EXIT"
        BY <1>1, <2>2, <4>1, AlSeguir DEF Tiene, Etapa, EnMano, Puntos
      <4> QED
        BY <1>1, <2>2, <4>2, FaseLugarPrima DEF CicloInv, FasePorLugar
    <3>2. CASE Libera(h)
      <4>1. p \notin total_pcbs'
        BY <2>2, <3>2 DEF Libera, Pcb
      <4>2. p \in Creados'
        BY <1>1, <2>2 DEF ManosUnicas, Tiene, CicloInv, TipoInv, Estructura, PcbsOK, Creados
      <4> QED
        BY <4>1, <4>2, FaseLugarPrima DEF CicloInv, FasePorLugar
    <3> QED
      BY <1>5, <3>1, <3>2
  <2> QED
    BY <2>5, <2>6, <2>7, FaseQueda
<1> QED
  BY <1>2, <1>4, <1>5 DEF Auxiliar

LEMMA CicloConsola ==
  ASSUME SinCambio, CicloInv, CicloInv', Consola
  PROVE  Ciclo!Next \/ UNCHANGED Fase
<1>1. plani_new \in Seq(Procesos) /\ pid_global \in Nat /\ "corto" \in Hilos
  BY DEF CicloInv, TipoInv, Estructura, ColasOK, PcbsOK, Hilos
<1>2. ASSUME NEW prio, IniciarProceso(prio)
      PROVE  Ciclo!Next
  <2>1. PICK p \in Procesos :
          /\ p = pid_global /\ pid_global' = p + 1 /\ UNCHANGED hilo
          /\ total_pcbs' = total_pcbs \cup {p} /\ plani_new' = Append(plani_new, p)
    BY <1>1, <1>2, ConstantesOK DEF IniciarProceso, Procesos
  <2>2. ToSet(plani_new') = ToSet(plani_new) \cup {p}
    BY <1>1, <2>1, EnAgregado
  <2>3. Fase[p] = "SIN_CREAR"
    BY <1>1, <2>1, FaseLugar DEF CicloInv, FasePorLugar
  <2>4. Fase'[p] = "NEW"
    BY <2>2, FaseLugarPrima DEF CicloInv, FasePorLugar
  <2>5. ASSUME NEW q \in Procesos \ {p}
        PROVE  Fase'[q] = Fase[q]
    <3>1. /\ (q >= pid_global)' <=> q >= pid_global
          /\ (q \in Creados)' <=> q \in Creados
      BY <1>1, <2>1, ConstantesOK DEF Procesos, Creados
    <3>2. /\ Ejecuta(q)' <=> Ejecuta(q)
          /\ Bloqueado(q)' <=> Bloqueado(q)
          /\ Saliendo(q)' <=> Saliendo(q)
      BY <2>1, <3>1 DEF Ejecuta, Bloqueado, Saliendo, Despide
    <3> QED
      BY <2>2, <3>1, <3>2, FaseIgual
  <2>6. ASSUME NEW q \in Procesos, q < p
        PROVE  Fase[q] # "SIN_CREAR"
    <3>1. ~(q >= pid_global)
      BY <1>1, <2>1, <2>6, ConstantesOK DEF Procesos
    <3> QED
      BY <3>1, FaseImplica DEF CicloInv
  <2>7. Ciclo!Pasa(p, "SIN_CREAR", "NEW")
    BY <2>3, <2>4, <2>5, FasePasa
  <2>8. Ciclo!Crear(p)
    BY <2>6, <2>7 DEF Ciclo!Crear
  <2> QED
    BY <2>8 DEF Ciclo!Next
<1>3. CASE DetenerPlanificacion \/ IniciarPlanificacion
  <2>1. UNCHANGED <<hilo, plani_new, pid_global, total_pcbs>>
    BY <1>3 DEF DetenerPlanificacion, IniciarPlanificacion, colas, pcbs
  <2> QED
    BY <2>1 DEF Fase, Creados, Pcb
<1>4. \A n : ~CambiarMultiprogramacion(n)
  BY DEF SinCambio, CambiarMultiprogramacion
<1> QED
  BY <1>2, <1>3, <1>4 DEF Consola

LEMMA OrdenadosPaso ==
  ASSUME SinCambio
  PROVE  TipoInv /\ Unicos /\ Ordenados /\ [Next]_vars => Ordenados'
<1> SUFFICES ASSUME TipoInv, Unicos, Ordenados, [Next]_vars PROVE Ordenados'
  OBVIOUS
<1>1. plani_new \in Seq(Procesos) /\ pid_global \in Nat
  BY DEF TipoInv, Estructura, ColasOK, PcbsOK
<1>2. UNCHANGED multiprogramacion
  BY Zenon DEF SinCambio, Next, vars, config, Largo, LargoEsperaNew, LargoEsperaMulti,
     LargoCompuerta, LargoSaca, Corto, CortoEsperaReady, CortoEsperaEjecutar, CortoElige,
     CortoAgregaExec,
     CortoDespacha, CortoRedespacha, CortoRecibe, CortoFinaliza, CortoSacaExec, CortoDuerme,
     CortoPideFS, CortoPageFault, CortoContinua, CortoDesaloja, Consola, IniciarProceso,
     DetenerPlanificacion, IniciarPlanificacion, CambiarMultiprogramacion, CpuDesaloja,
     AgregarAReady, MiraExec, Compara, Encola, Marca, Lista, Auxiliar, SaleDeBlock, LeeParams,
     ResuelvePf, SaleDelSistema, Libera, VenceQuantum, CpuDevuelve
<1>3. \/ UNCHANGED plani_new
      \/ plani_new # <<>> /\ plani_new' = Tail(plani_new)
      \/ plani_new' = Append(plani_new, pid_global)
  <2>1. CASE Largo
    BY <2>1 DEF Largo, LargoEsperaNew, LargoEsperaMulti, LargoCompuerta, LargoSaca, colas
  <2>2. CASE Corto
    BY <2>2 DEF Corto, CortoEsperaReady, CortoEsperaEjecutar, CortoElige, CortoAgregaExec,
       CortoDespacha, CortoRedespacha, CortoRecibe, CortoFinaliza, CortoSacaExec, CortoDuerme,
       CortoPideFS, CortoPageFault, CortoContinua, CortoDesaloja, colas
  <2>3. CASE Consola
    BY <2>3 DEF Consola, IniciarProceso, DetenerPlanificacion, IniciarPlanificacion,
       CambiarMultiprogramacion, colas
  <2>4. CASE \E h \in Hilos : AgregarAReady(h)
    BY <2>4 DEF AgregarAReady, MiraExec, Compara, Encola, Marca, Lista, colas
  <2>5. CASE \E h \in Auxiliares : Auxiliar(h)
    BY <2>5 DEF Auxiliar, SaleDeBlock, LeeParams, ResuelvePf, SaleDelSistema, Libera, colas
  <2>6. CASE \/ CpuDesaloja \/ \E c \in Servicios : CpuDevuelve(c)
             \/ \E p \in Procesos : VenceQuantum(p)
             \/ UNCHANGED vars
    BY <2>6 DEF CpuDesaloja, CpuDevuelve, VenceQuantum, vars, colas
  <2> QED
    BY <2>1, <2>2, <2>3, <2>4, <2>5, <2>6 DEF Next
<1>4. \A i \in DOMAIN plani_new : plani_new[i] \in Nat /\ plani_new[i] < pid_global
  <2>1. ToSet(plani_new) \subseteq Creados
    BY DEF Unicos, ColasUnicas, EnColas, TipoInv, Estructura, PcbsOK
  <2> QED
    BY <1>1, <2>1 DEF ToSet, Creados
<1>5. \A i, j \in DOMAIN plani_new' : i < j => plani_new'[i] < plani_new'[j]
  <2>1. CASE UNCHANGED plani_new
    BY <2>1 DEF Ordenados
  <2>2. CASE plani_new # <<>> /\ plani_new' = Tail(plani_new)
    <3>1. \A i \in DOMAIN plani_new' :
            i + 1 \in DOMAIN plani_new /\ plani_new'[i] = plani_new[i + 1]
      BY <1>1, <2>2
    <3> QED
      BY <1>1, <2>2, <3>1 DEF Ordenados
  <2>3. CASE plani_new' = Append(plani_new, pid_global)
    <3>1. \A i \in DOMAIN plani_new' :
            \/ i \in DOMAIN plani_new /\ plani_new'[i] = plani_new[i]
            \/ i = Len(plani_new) + 1 /\ plani_new'[i] = pid_global
      BY <1>1, <2>3
    <3> QED
      BY <1>1, <1>4, <2>3, <3>1 DEF Ordenados
  <2> QED
    BY <1>3, <2>1, <2>2, <2>3
<1> QED
  BY <1>2, <1>5 DEF Ordenados

\* Without page faults and MULTIPROGRAMACION commands, the queues, semaphores and threads of
\* the scheduler implement the five-state life cycle: processes are admitted in the order of
\* their creation and never more than the degree allows, one at a time runs, and nothing
\* but the listed transitions ever happens to one.
THEOREM CicloTeorema ==
  ASSUME SinFaltas, SinCambio
  PROVE  Spec => CumpleCiclo
<1>1. Init => CicloInv
  <2> SUFFICES ASSUME Init PROVE CicloInv
    OBVIOUS
  <2>1. Ordenados /\ Presentes
    BY DEF Init, Ordenados, Presentes
  <2> QED
    BY <2>1, TipoInicial, UnicosInicial, PermisosInicial DEF CicloInv
<1>2. CicloInv /\ [Next]_vars => CicloInv'
  BY TipoPaso, UnicosPaso, PresentesPaso, PermisosPaso, OrdenadosPaso DEF CicloInv
<1>3. Init => Ciclo!Init
  <2> SUFFICES ASSUME Init PROVE Ciclo!Init
    OBVIOUS
  <2>1. \A p \in Procesos : p >= pid_global
    BY ConstantesOK DEF Init, Procesos
  <2>2. \A p \in Procesos : Fase[p] = "SIN_CREAR"
    BY <1>1, <2>1, FaseLugar DEF CicloInv, FasePorLugar
  <2> QED
    BY <2>2, FaseFuncion DEF Ciclo!Init
<1>4. CicloInv /\ CicloInv' /\ [Next]_vars => [Ciclo!Next]_Fase
  <2> SUFFICES ASSUME CicloInv, CicloInv', [Next]_vars PROVE Ciclo!Next \/ UNCHANGED Fase
    OBVIOUS
  <2>1. CASE \/ CpuDesaloja \/ \E c \in Servicios : CpuDevuelve(c)
             \/ \E p \in Procesos : VenceQuantum(p)
             \/ UNCHANGED vars
    <3>1. UNCHANGED <<hilo, plani_new, pid_global, total_pcbs>>
      BY <2>1 DEF CpuDesaloja, CpuDevuelve, VenceQuantum, vars, colas, pcbs
    <3> QED
      BY <3>1 DEF Fase, Creados, Pcb
  <2> QED
    BY <2>1, CicloAgregar, CicloLargo, CicloCorto, CicloAuxiliar, CicloConsola DEF Next
<1> QED
  BY <1>1, <1>2, <1>3, <1>4, PTL DEF Spec, CumpleCiclo, Ciclo!Spec

-----------------------------------------------------------------------------
(* The pause *)

Puertas == Compuertas \ {"sem_detener_planificacion"}

\* A gate is open once at most, and shut when DETENER_PLANIFICACION has taken it, in this
\* command (the first consola of OrdenDetener) or in one that ended.
PuertasOK ==
  /\ \A s \in Puertas : sem[s] <= 1 /\ (pausada => sem[s] = 0)
  /\ \A i \in 2 .. 4 : i <= consola => sem[OrdenDetener[i]] = 0

LEMMA OrdenPuertas ==
  /\ OrdenDetener[1] = "sem_detener_planificacion"
  /\ \A i \in 2 .. 5 : OrdenDetener[i] \in Puertas
  /\ \A i, j \in 1 .. 5 : i # j => OrdenDetener[i] # OrdenDetener[j]
  /\ \A s \in Puertas : \E i \in 2 .. 5 : s = OrdenDetener[i]
  /\ Puertas \subseteq Semaforos
BY DEF OrdenDetener, Puertas, Compuertas, Semaforos

LEMMA PuertasInicial ==
  ASSUME Init
  PROVE  PuertasOK
<1>1. ASSUME NEW s \in Puertas PROVE sem[s] = 1
  <2>1. s \in Semaforos /\ s \in Compuertas /\ s # "multiprog_disponible"
    BY DEF Puertas, Compuertas, Semaforos
  <2>2. sem[s] = CASE FALSE -> GradoInicial [] TRUE -> 1 [] OTHER -> 0
    BY <2>1 DEF Init
  <2> QED
    BY <2>2
<1>2. pausada = FALSE
  BY Zenon DEF Init
<1>3. consola = 0
  BY DEF Init
<1> QED
  BY <1>1, <1>2, <1>3 DEF PuertasOK

LEMMA PuertasMarco ==
  ASSUME PuertasOK, UNCHANGED <<consola, pausada>>, \A s \in Puertas : sem'[s] = sem[s]
  PROVE  PuertasOK'
BY OrdenPuertas DEF PuertasOK

LEMMA PuertasDetener ==
  ASSUME TipoInv, PuertasOK, DetenerPlanificacion
  PROVE  PuertasOK'
<1> DEFINE d == OrdenDetener[consola + 1]
<1>0. SemOK /\ consola \in 0 .. 4
  BY DEF TipoInv, Estructura, RestoOK
<1>1. \A s \in Puertas : sem'[s] = IF s = d THEN sem[s] - 1 ELSE sem[s]
  <2>1. ASSUME NEW s \in Puertas PROVE sem'[s] = IF s = d THEN sem[s] - 1 ELSE sem[s]
    <3>1. s \in Semaforos /\ s # "sem_detener_planificacion"
      BY DEF Puertas, Compuertas, Semaforos
    <3>2. sem'[s] = CASE s = d -> sem[s] - 1 [] FALSE -> sem[s] + 1 [] OTHER -> sem[s]
      BY <3>1 DEF DetenerPlanificacion
    <3> QED
      BY <3>2
  <2> QED
    BY <2>1
<1>2. /\ sem[d] > 0 /\ consola' = IF consola = 4 THEN 0 ELSE consola + 1
      /\ pausada' <=> pausada \/ consola = 4
  <2>1. sem[d] > 0 /\ consola' = (consola + 1) % 5
    BY DEF DetenerPlanificacion
  <2>2. pausada' <=> pausada \/ consola = 4
    BY Zenon DEF DetenerPlanificacion
  <2> QED
    BY <1>0, <2>1, <2>2
<1>3. \A s \in Puertas : sem[s] \in Nat
  BY <1>0, OrdenPuertas DEF SemOK
<1> HIDE DEF d
<1>4. \A i \in 2 .. 5 : i = consola + 1 => OrdenDetener[i] = d /\ d \in Puertas /\ sem'[d] = 0
  <2>1. \A i \in 2 .. 5 : i = consola + 1 => OrdenDetener[i] = d /\ d \in Puertas
    BY OrdenPuertas DEF d
  <2> QED
    BY <1>1, <1>2, <1>3, <2>1 DEF PuertasOK
<1>5. \A i \in 2 .. 4 : i <= consola' => sem'[OrdenDetener[i]] = 0
  BY <1>0, <1>1, <1>2, <1>3, <1>4, OrdenPuertas DEF PuertasOK
<1>6. \A s \in Puertas : sem'[s] <= 1
  BY <1>1, <1>3 DEF PuertasOK
<1>7. ASSUME pausada', NEW s \in Puertas PROVE sem'[s] = 0
  <2>1. PICK i \in 2 .. 5 : s = OrdenDetener[i]
    BY OrdenPuertas
  <2>2. CASE i = consola + 1
    BY <1>4, <2>1, <2>2
  <2>3. CASE i # consola + 1
    <3>1. s # d
      BY <1>0, <2>1, <2>3, OrdenPuertas DEF d
    <3>2. sem[s] = 0
      BY <1>0, <1>2, <1>7, <2>1, <2>3 DEF PuertasOK
    <3> QED
      BY <1>1, <3>1, <3>2
  <2> QED
    BY <2>2, <2>3
<1> QED
  BY <1>5, <1>6, <1>7 DEF PuertasOK

LEMMA PuertasPaso ==
  ASSUME UnaPausa
  PROVE  TipoInv /\ PuertasOK /\ [Next]_vars => PuertasOK'
<1> SUFFICES ASSUME TipoInv, PuertasOK, [Next]_vars PROVE PuertasOK'
  OBVIOUS
<1>0. SemOK /\ consola \in 0 .. 4
  BY DEF TipoInv, Estructura, RestoOK
<1>1. ASSUME NEW s \in Semaforos \ Puertas, P(s) \/ V(s) \/ UNCHANGED sem, UNCHANGED pausa
      PROVE  PuertasOK'
  BY <1>0, <1>1, OrdenPuertas, AlBajar, AlSubir, PuertasMarco DEF pausa
<1>2. {"multiprog_disponible", "pcbs_en_new", "pcbs_en_ready", "puede_ejecutar"}
        \subseteq Semaforos \ Puertas
  BY DEF Semaforos, Puertas, Compuertas
<1>3. ASSUME NEW h \in Hilos, AgregarAReady(h) PROVE PuertasOK'
  BY <1>1, <1>2, <1>3 DEF AgregarAReady, MiraExec, Compara, Encola, Marca, Lista
<1>4. CASE Largo
  BY <1>1, <1>2, <1>4 DEF Largo, LargoEsperaNew, LargoEsperaMulti, LargoCompuerta, LargoSaca, Cruza
<1>5. CASE Corto
  BY <1>1, <1>2, <1>5 DEF Corto, CortoEsperaReady, CortoEsperaEjecutar, CortoElige,
     CortoAgregaExec, CortoDespacha, CortoRedespacha, CortoRecibe, CortoFinaliza, CortoSacaExec,
     CortoDuerme, CortoPideFS, CortoPageFault, CortoContinua, CortoDesaloja, Cruza
<1>6. ASSUME NEW h \in Auxiliares, Auxiliar(h) PROVE PuertasOK'
  BY <1>1, <1>2, <1>6 DEF Auxiliar, SaleDeBlock, LeeParams, ResuelvePf, SaleDelSistema, Libera,
     Cruza
<1>7. CASE \/ CpuDesaloja \/ \E c \in Servicios : CpuDevuelve(c)
           \/ \E p \in Procesos : VenceQuantum(p)
           \/ UNCHANGED vars
  <2>1. UNCHANGED <<sem, pausa>>
    BY <1>7 DEF CpuDesaloja, CpuDevuelve, VenceQuantum, vars
  <2> QED
    BY <1>1, <1>2, <2>1
<1>8. ASSUME NEW prio, IniciarProceso(prio) PROVE PuertasOK'
  BY <1>1, <1>2, <1>8 DEF IniciarProceso
<1>9. CASE IniciarPlanificacion
  <2>1. /\ \A s \in Puertas : sem[s] < 1 /\ sem'[s] = sem[s] + 1
        /\ consola = 0 /\ UNCHANGED consola
    BY <1>9, OrdenPuertas DEF IniciarPlanificacion, UnaPausa, Puertas
  <2>2. pausada' = FALSE
    BY <1>9, Zenon DEF IniciarPlanificacion
  <2>3. \A s \in Puertas : sem[s] \in Nat
    BY <1>0, OrdenPuertas DEF SemOK
  <2> QED
    BY <2>1, <2>2, <2>3 DEF PuertasOK
<1>10. ASSUME NEW n \in Grados, CambiarMultiprogramacion(n) PROVE PuertasOK'
  <2>1. sem' = [sem EXCEPT !["multiprog_disponible"] = n] /\ UNCHANGED pausa
    BY <1>10 DEF CambiarMultiprogramacion
  <2>2. \A s \in Puertas : sem'[s] = sem[s]
    BY <1>0, <1>2, <2>1, OrdenPuertas DEF SemOK
  <2> QED
    BY <2>1, <2>2, PuertasMarco DEF pausa
<1> QED
  BY <1>3, <1>4, <1>5, <1>6, <1>7, <1>8, <1>9, <1>10, PuertasDetener DEF Next, Consola

\* What PausaRespetada says of one step.
SinCruzar ==
  pausada => /\ \A h \in Hilos : hilo[h].pc \in {"compuerta", "espera"} => hilo'[h] = hilo[h]
             /\ ~(En("corto", "espera_cpu") /\ hilo'["corto"].pc = "atiende")

\* A thread that waits where a gate is, and is not waked through it, stays.
LEMMA PuertasCruce ==
  ASSUME TipoInv, PuertasOK, [Next]_vars
  PROVE  SinCruzar
<1> SUFFICES ASSUME pausada
             PROVE  /\ \A h \in Hilos :
                         hilo[h].pc \in {"compuerta", "espera"} => hilo'[h] = hilo[h]
                    /\ ~(En("corto", "espera_cpu") /\ hilo'["corto"].pc = "atiende")
  BY DEF SinCruzar
<1>0. HiloOK /\ "corto" \in Hilos /\ "largo" \in Hilos
  BY HilosFinitos DEF TipoInv, Estructura
<1>1. ~LargoCompuerta /\ ~CortoRecibe /\ \A h \in Auxiliares : ~SaleDeBlock(h)
  <2>1. \A s \in Puertas : ~(sem[s] > 0)
    BY DEF PuertasOK
  <2> QED
    BY <2>1 DEF LargoCompuerta, CortoRecibe, SaleDeBlock, Cruza, Puertas, Compuertas
<1> DEFINE Fijos == {"compuerta", "espera"}
<1>2. ASSUME NEW h \in Hilos, hilo[h].pc \notin Fijos, hilo[h].pc # "espera_cpu" \/ h # "corto",
             \A g \in Hilos : g # h => hilo'[g] = hilo[g]
      PROVE  /\ \A g \in Hilos : hilo[g].pc \in Fijos => hilo'[g] = hilo[g]
             /\ ~(En("corto", "espera_cpu") /\ hilo'["corto"].pc = "atiende")
  BY <1>0, <1>2 DEF En
<1>3. ASSUME NEW h, NEW l, NEW q, Sigue(h, l) \/ Va(h, l, q)
      PROVE  \A g \in Hilos : g # h => hilo'[g] = hilo[g]
  BY <1>0, <1>3 DEF Sigue, Va, HiloOK
<1>4. ASSUME NEW h \in Hilos, AgregarAReady(h)
      PROVE  /\ \A g \in Hilos : hilo[g].pc \in Fijos => hilo'[g] = hilo[g]
             /\ ~(En("corto", "espera_cpu") /\ hilo'["corto"].pc = "atiende")
  <2>1. hilo[h].pc \in {"mira_exec", "compara", "encola", "marca", "lista"}
    BY <1>4 DEF AgregarAReady, MiraExec, Compara, Encola, Marca, Lista, En
  <2>2. \E l, q : Sigue(h, l) \/ Va(h, l, q)
    BY <1>4 DEF AgregarAReady, MiraExec, Compara, Encola, Marca, Lista
  <2> QED
    BY <1>2, <1>3, <2>1, <2>2
<1>5. CASE Largo
  <2>1. hilo["largo"].pc \in {"espera_new", "espera_multi", "bloqueado", "saca_new"}
    BY <1>1, <1>5 DEF Largo, LargoEsperaNew, LargoEsperaMulti, LargoSaca, En
  <2>2. UNCHANGED hilo \/ \E l, q : Sigue("largo", l) \/ Va("largo", l, q)
    BY <1>1, <1>5 DEF Largo, LargoEsperaNew, LargoEsperaMulti, LargoSaca
  <2>3. "largo" # "corto"
    OBVIOUS
  <2> QED
    BY <1>0, <1>2, <1>3, <2>1, <2>2, <2>3 DEF En
<1>6. CASE Corto
  <2>1. hilo["corto"].pc \in {"espera_ready", "espera_ejecutar", "elige", "agrega_exec", "despacha",
                             "redespacha", "atiende", "bloquea"}
    BY <1>1, <1>6 DEF Corto, CortoEsperaReady, CortoEsperaEjecutar, CortoElige,
       CortoAgregaExec, CortoDespacha, CortoRedespacha, CortoFinaliza, CortoSacaExec,
       CortoDuerme, CortoPideFS, CortoPageFault, CortoContinua, CortoDesaloja, Atiende, En
  <2>2. \/ UNCHANGED hilo
        \/ \E l, q : Sigue("corto", l) \/ Va("corto", l, q)
        \/ \E l, q : Lanza(l, q)
    BY <1>1, <1>6 DEF Corto, CortoEsperaReady, CortoEsperaEjecutar, CortoElige,
       CortoAgregaExec, CortoDespacha, CortoRedespacha, CortoFinaliza, CortoSacaExec,
       CortoDuerme, CortoPideFS, CortoPageFault, CortoContinua, CortoDesaloja, Envia
  <2>3. ASSUME NEW l, NEW q, Lanza(l, q)
        PROVE  \A g \in Hilos : hilo[g].pc \in Fijos => hilo'[g] = hilo[g]
    <3>1. PICK a \in Libres : hilo' = [hilo EXCEPT ![a] = [pc |-> l, pcb |-> q],
                                        !["corto"] = [pc |-> "espera_ready", pcb |-> NULO]]
      BY <2>3 DEF Lanza
    <3>2. hilo[a].pc = "libre"
      BY DEF Libres, En
    <3> QED
      BY <1>0, <2>1, <3>1, <3>2 DEF HiloOK
  <2> QED
    BY <1>0, <1>2, <1>3, <2>1, <2>2, <2>3 DEF En
<1>7. ASSUME NEW h \in Auxiliares, Auxiliar(h)
      PROVE  /\ \A g \in Hilos : hilo[g].pc \in Fijos => hilo'[g] = hilo[g]
             /\ ~(En("corto", "espera_cpu") /\ hilo'["corto"].pc = "atiende")
  <2>1. hilo[h].pc \in {"lee_params", "pide_pagina", "sale", "libera"}
    BY <1>1, <1>7 DEF Auxiliar, LeeParams, ResuelvePf, SaleDelSistema, Libera, En
  <2>2. UNCHANGED hilo \/ \E l, q : Sigue(h, l) \/ Va(h, l, q)
    BY <1>1, <1>7 DEF Auxiliar, LeeParams, ResuelvePf, SaleDelSistema, Libera
  <2>3. h \in Hilos /\ h # "corto"
    BY ConstantesOK DEF Hilos
  <2> QED
    BY <1>0, <1>2, <1>3, <2>1, <2>2, <2>3 DEF En
<1>8. CASE Consola
  <2>1. \/ UNCHANGED hilo
        \/ En("largo", "bloqueado") /\ Sigue("largo", "perdido")
    BY <1>8 DEF Consola, IniciarProceso, DetenerPlanificacion, IniciarPlanificacion,
       CambiarMultiprogramacion
  <2>2. "largo" # "corto"
    OBVIOUS
  <2> QED
    BY <1>0, <1>2, <1>3, <2>1, <2>2 DEF En
<1>9. CASE \/ CpuDesaloja \/ \E c \in Servicios : CpuDevuelve(c)
           \/ \E p \in Procesos : VenceQuantum(p)
           \/ UNCHANGED vars
  BY <1>9 DEF CpuDesaloja, CpuDevuelve, VenceQuantum, vars, En
<1> QED
  BY <1>4, <1>5, <1>6, <1>7, <1>8, <1>9 DEF Next

\* While DETENER_PLANIFICACION holds the gates no thread passes one, if no gate was opened
\* twice before.
THEOREM PausaTeorema ==
  ASSUME UnaPausa
  PROVE  Spec => PausaRespetada
<1>1. Init => TipoInv /\ PuertasOK
  BY TipoInicial, PuertasInicial
<1>2. TipoInv /\ PuertasOK /\ [Next]_vars => (TipoInv /\ PuertasOK)'
  BY TipoPaso, PuertasPaso
<1>3. TipoInv /\ PuertasOK /\ [Next]_vars =>
        [pausada => /\ \A h \in Hilos :
                         hilo[h].pc \in {"compuerta", "espera"} => hilo'[h] = hilo[h]
                    /\ ~(En("corto", "espera_cpu") /\ hilo'["corto"].pc = "atiende")]_vars
  BY PuertasCruce DEF SinCruzar
<1> QED
  BY <1>1, <1>2, <1>3, PTL DEF Spec, PausaRespetada
=============================================================================
