------------------------- MODULE FinalizacionPruebas -------------------------
(***************************************************************************)
(* Proofs about FINALIZAR_PROCESO, for any number of processes, threads    *)
(* and commands, any algorithm and any request, page faults included.      *)
(***************************************************************************)
EXTENDS Finalizacion, PlanificadorPruebas

-----------------------------------------------------------------------------
(* Types *)

\* The exit thread of a process ended by the console has its pid.
PcbFin == \A h \in Hilos : hilo[h].pc \in EnSalida => hilo[h].pcb \in Procesos

\* Only the helper threads serve page faults.
SinLee == hilo["largo"].pc # "lee_params" /\ hilo["corto"].pc # "lee_params"

BanderasOK ==
  /\ fin_por_consola \in [Procesos -> BOOLEAN] /\ manejando_contexto \in [Procesos -> BOOLEAN]
  /\ estado_aux \in [Auxiliares -> Estados \cup {NULO}]
  /\ muertes \in 0 .. MaxMuertes /\ confundido \in BOOLEAN

Formas  == Estructura /\ PcbFin /\ SinLee
TipoFin == Formas /\ BanderasOK

LEMMA SalidaEsFin == EnSalida = PuntosFin /\ EnSalida \subseteq Puntos
BY DEF EnSalida, PuntosFin, Puntos

LEMMA TipoFinTipo == TipoFin => TipoFinOK
BY SalidaEsFin DEF TipoFin, Formas, Estructura, HiloOK, Puntos, BanderasOK, TipoFinOK

\* One helper thread moves.
LEMMA FormasHilo ==
  ASSUME Formas, NEW h \in Auxiliares, NEW l \in Puntos, NEW p \in Procesos \cup {NULO},
         \/ Va(h, l, p)
         \/ Sigue(h, l) /\ p = hilo[h].pcb,
         l \in EnMano \cup EnCola \cup EnSalida => p \in Procesos,
         UNCHANGED <<plani_exec, cpu>>, mensaje' = mensaje \/ mensaje' = NULO
  PROVE  /\ HiloOK' /\ PcbOK' /\ ExecOK' /\ CpuOK' /\ PcbFin' /\ SinLee'
         /\ hilo'[h].pc = l /\ hilo'[h].pcb = p
         /\ \A g \in Hilos : g # h => hilo'[g] = hilo[g]
<1>1. HiloOK /\ PcbOK /\ ExecOK /\ CpuOK /\ h \in Hilos /\ h # "corto" /\ h # "largo"
  BY ConstantesOK DEF Formas, Estructura, Hilos
<1>2. /\ HiloOK' /\ hilo'[h].pc = l /\ hilo'[h].pcb = p
      /\ \A g \in Hilos : g # h => hilo'[g] = hilo[g]
  BY <1>1, AlIr, AlSeguir
<1>3. PcbOK'
  BY <1>1, <1>2, PcbSigue
<1>4. PcbFin'
  BY <1>2 DEF PcbFin, Formas
<1>5. hilo'["corto"] = hilo["corto"] /\ hilo'["largo"] = hilo["largo"]
  BY <1>1, <1>2 DEF Hilos
<1>6. ExecOK' /\ CpuOK' /\ SinLee'
  BY <1>1, <1>5 DEF ExecOK, CpuOK, EnDespacho, Formas, SinLee
<1> QED
  BY <1>2, <1>3, <1>4, <1>6

\* The actions of the exit thread that only it sees.
LEMMA FormasCallada ==
  ASSUME Formas, NEW h \in Auxiliares, NEW l \in Puntos, NEW p \in Procesos \cup {NULO},
         \/ Va(h, l, p)
         \/ Sigue(h, l) /\ p = hilo[h].pcb,
         l \in EnMano \cup EnCola \cup EnSalida => p \in Procesos,
         UNCHANGED <<config, colas, pcbs, sem, params, maquina, pausa>>
  PROVE  Formas'
<1>1. /\ HiloOK' /\ PcbOK' /\ ExecOK' /\ CpuOK' /\ PcbFin' /\ SinLee'
  BY FormasHilo DEF colas, maquina
<1>2. ColasOK' /\ PcbsOK' /\ SemOK' /\ RestoOK'
  BY DEF Formas, Estructura, ColasOK, PcbsOK, SemOK, RestoOK, Creados, config, colas, pcbs,
     maquina, pausa
<1> QED
  BY <1>1, <1>2 DEF Formas, Estructura

LEMMA FormasSegunEstado ==
  ASSUME Formas, NEW h \in Auxiliares, SegunEstado(h)
  PROVE  Formas'
<1>1. h \in Hilos /\ hilo[h].pc = "segun_estado" /\ ColasOK /\ PcbsOK /\ SemOK /\ RestoOK
  BY DEF Formas, Estructura, Hilos, SegunEstado, En
<1>2. PICK p \in Procesos : p = hilo[h].pcb
  BY <1>1 DEF Formas, PcbFin, EnSalida
<1>3. \E l \in {"recibe", "termina"} : Sigue(h, l)
  BY DEF SegunEstado
<1>4. {"recibe", "termina"} \subseteq Puntos
  BY DEF Puntos, PuntosFin
<1>5. /\ HiloOK' /\ PcbOK' /\ ExecOK' /\ CpuOK' /\ PcbFin' /\ SinLee'
  BY <1>2, <1>3, <1>4, FormasHilo DEF SegunEstado
<1>6. ColasOK'
  <2>1. RemoveFirst(plani_new, p) \in Seq(Procesos) /\ RemoveFirst(plani_ready, p) \in Seq(Procesos)
    BY <1>1, AlQuitarPrimero DEF ColasOK
  <2> QED
    BY <1>1, <1>2, <2>1 DEF ColasOK, SegunEstado, Pcb
<1>7. interrupt_pid' \in Procesos \cup {NULO}
  BY <1>1, <1>2 DEF SegunEstado, RestoOK, Pcb
<1>8. PcbsOK' /\ SemOK' /\ RestoOK'
  BY <1>1, <1>7 DEF PcbsOK, SemOK, RestoOK, Creados, SegunEstado, config, pcbs, pausa
<1> QED
  BY <1>5, <1>6, <1>8 DEF Formas, Estructura

LEMMA FormasRecibe ==
  ASSUME Formas, NEW h \in Auxiliares, RecibeContexto(h)
  PROVE  Formas'
<1>1. h \in Hilos /\ hilo[h].pc = "recibe" /\ Estructura
  BY DEF Formas, Hilos, RecibeContexto, En
<1>2. PICK p \in Procesos : p = hilo[h].pcb
  BY <1>1 DEF Formas, PcbFin, EnSalida
<1>5. /\ HiloOK' /\ PcbOK' /\ ExecOK' /\ CpuOK' /\ PcbFin' /\ SinLee'
  <2>1. CASE Sigue(h, "termina")
    BY <1>2, <2>1, FormasHilo DEF RecibeContexto, Puntos, PuntosFin, colas
  <2>2. CASE UNCHANGED hilo
    BY <1>1, <2>2 DEF RecibeContexto, Formas, Estructura, HiloOK, PcbOK, ExecOK, CpuOK, PcbFin,
       SinLee, colas
  <2> QED
    BY <2>1, <2>2 DEF RecibeContexto
<1>6. ColasOK' /\ PcbsOK' /\ SemOK' /\ RestoOK'
  BY <1>1 DEF Estructura, ColasOK, PcbsOK, SemOK, RestoOK, Creados, RecibeContexto, config, colas,
     pcbs, pausa
<1> QED
  BY <1>5, <1>6 DEF Formas, Estructura

LEMMA FormasTermina ==
  ASSUME Formas, NEW h \in Auxiliares, Termina(h)
  PROVE  Formas'
<1>1. h \in Hilos /\ hilo[h].pc = "termina" /\ Estructura
  BY DEF Formas, Hilos, Termina, En
<1>2. PICK p \in Procesos : p = hilo[h].pcb
  BY <1>1 DEF Formas, PcbFin, EnSalida
<1>3. \E l \in {"mira_grado", "devuelve"} : Sigue(h, l)
  BY DEF Termina
<1>4. {"mira_grado", "devuelve"} \subseteq Puntos
  BY DEF Puntos, PuntosFin
<1>5. /\ HiloOK' /\ PcbOK' /\ ExecOK' /\ CpuOK' /\ PcbFin' /\ SinLee'
  BY <1>2, <1>3, <1>4, FormasHilo DEF Termina, colas, maquina
<1>6. ColasOK' /\ SemOK' /\ RestoOK'
  BY <1>1 DEF Estructura, ColasOK, SemOK, RestoOK, Termina, config, colas, maquina, pausa
<1>7. PcbsOK'
  BY <1>1, <1>2 DEF Estructura, PcbsOK, Creados, Termina, Pcb, Estados
<1> QED
  BY <1>5, <1>6, <1>7 DEF Formas, Estructura

LEMMA FormasAgregaExit ==
  ASSUME Formas, NEW h \in Auxiliares, AgregaExit(h)
  PROVE  Formas'
<1>1. h \in Hilos /\ hilo[h].pc \in {"devuelve", "agrega_exit"} /\ Estructura
  BY DEF Formas, Hilos, AgregaExit, En
<1>2. PICK p \in Procesos : p = hilo[h].pcb
  BY <1>1 DEF Formas, PcbFin, EnSalida
<1>3. /\ HiloOK' /\ PcbOK' /\ ExecOK' /\ CpuOK' /\ PcbFin' /\ SinLee'
  BY <1>2, FormasHilo DEF AgregaExit, maquina, Puntos, EnMano
<1>4. ColasOK' /\ PcbsOK' /\ RestoOK'
  BY <1>1, <1>2 DEF Estructura, ColasOK, PcbsOK, RestoOK, AgregaExit, Creados, config, pcbs,
     maquina, pausa, Pcb
<1>5. SemOK'
  BY <1>1, AlSubir DEF AgregaExit, Estructura, Semaforos, SemOK
<1> QED
  BY <1>3, <1>4, <1>5 DEF Formas, Estructura

LEMMA FormasFinaliza ==
  ASSUME Formas, NEW p \in Procesos, FinalizarProceso(p)
  PROVE  Formas'
<1>1. ColasOK' /\ PcbsOK' /\ SemOK' /\ RestoOK'
  BY DEF Formas, Estructura, ColasOK, PcbsOK, SemOK, RestoOK, Creados, FinalizarProceso, config,
     colas, pcbs, maquina, pausa
<1>2. CASE UNCHANGED hilo
  <2>1. /\ HiloOK' /\ PcbOK' /\ ExecOK' /\ CpuOK' /\ PcbFin' /\ SinLee'
    BY <1>2 DEF FinalizarProceso, Formas, Estructura, HiloOK, PcbOK, ExecOK, CpuOK, PcbFin,
       SinLee, colas, maquina
  <2> QED
    BY <1>1, <2>1 DEF Formas, Estructura
<1>3. CASE \E a \in Auxiliares : Va(a, "sale", p)
  <2>1. "sale" \in Puntos
    BY DEF Puntos, EnMano
  <2> QED
    BY <1>3, <2>1, FormasCallada DEF FinalizarProceso
<1>4. UNCHANGED hilo \/ \E a \in Auxiliares : Va(a, "sale", p)
  BY DEF FinalizarProceso, Libres
<1> QED
  BY <1>2, <1>3, <1>4

\* A step of Planificador, whatever it does to the flags.
LEMMA FormasPlan ==
  ASSUME Formas, [Next]_vars
  PROVE  Formas'
<1>1. Estructura'
  <2>1. CASE UNCHANGED vars
    BY <2>1 DEF Formas, vars, Estructura, ColasOK, PcbsOK, SemOK, HiloOK, RestoOK, PcbOK, ExecOK,
       CpuOK, Creados, config, colas, pcbs, maquina, pausa
  <2> QED
    BY <2>1, TipoAgregar, TipoLargo, TipoCorto, TipoAuxiliar, TipoConsola, TipoCpu
       DEF Next, Formas
<1>2. FinAjeno
  BY FinPaso DEF Formas
<1>3. PcbFin'
  BY <1>2, SalidaEsFin DEF FinAjeno, Vedados, PcbFin, Formas
<1>4. SinLee'
  BY <1>2 DEF FinAjeno, Vedados, SinLee, Formas, Hilos
<1> QED
  BY <1>1, <1>3, <1>4 DEF Formas

\* What a step of the module is: one of Planificador, with what the flags allow of it, one of
\* the exit thread of a process ended by the console, or the command.
CortoSimple ==
  \/ CortoEsperaReady \/ CortoEsperaEjecutar \/ CortoElige \/ CortoAgregaExec
  \/ CortoDespacha \/ CortoRedespacha \/ CortoRecibe
  \/ CortoFinaliza \/ CortoSacaExec \/ CortoDuerme \/ CortoPideFS
  \/ CortoContinua \/ CortoDesaloja

Planea ==
  /\ UNCHANGED <<fin_por_consola, muertes>>
  /\ \/ Largo \/ CortoSimple \/ (CortoPageFault /\ PfSinLeer = {})
     \/ \E h \in Hilos : AgregarAReady(h)
     \/ \E h \in Auxiliares : SaleDeBlock(h) \/ LeeParams(h) \/ ResuelvePf(h) \/ Libera(h)
     \/ \E h \in Auxiliares : SaleDelSistema(h) /\ ~fin_por_consola[Pcb(h)]
     \/ CpuDesaloja \/ \E c \in Servicios : CpuDevuelve(c)
     \/ \E p \in Procesos : VenceQuantum(p)
     \/ \E prio \in IF algoritmo_plani = "PRIORIDADES" THEN Prioridades ELSE {-1} :
          IniciarProceso(prio)

\* handle_pf, and agregar_a_exit, when they find fin_por_consola set.
AbandonaPf(h) ==
  /\ En(h, "pide_pagina") /\ fin_por_consola[Pcb(h)]
  /\ Va(h, "libre", NULO)
  /\ UNCHANGED <<config, colas, pcbs, sem, params, maquina, pausa, fallo, banderas>>

SaleMuerto(h) ==
  /\ En(h, "sale") /\ fin_por_consola[Pcb(h)]
  /\ estado_aux' = [estado_aux EXCEPT ![h] = estado[Pcb(h)]]
  /\ Sigue(h, "espera_manejo")
  /\ UNCHANGED <<config, colas, pcbs, sem, params, maquina, pausa, fallo,
                 fin_por_consola, manejando_contexto, muertes, confundido>>

Mata(h) ==
  \/ AbandonaPf(h) \/ SaleMuerto(h) \/ EsperaManejo(h) \/ SegunEstado(h) \/ RecibeContexto(h)
  \/ Termina(h) \/ MiraGrado(h) \/ AgregaExit(h)

LEMMA AlPaso ==
  ASSUME NextF
  PROVE  \/ Planea
         \/ \E h \in Auxiliares : Mata(h)
         \/ \E p \in Procesos : FinalizarProceso(p)
<1>1. LargoF => Planea
  <2>1. LargoF => (Largo \/ AgregarAReady("largo")) /\ UNCHANGED <<fin_por_consola, muertes>>
    BY DEF LargoF, Igual, banderas
  <2>2. "largo" \in Hilos
    BY DEF Hilos
  <2> QED
    BY <2>1, <2>2, Zenon DEF Planea
<1>2. CortoF => Planea
  <2>1. \A x, v : Maneja(x, v) => UNCHANGED <<fin_por_consola, muertes>>
    BY DEF Maneja
  <2>2. UNCHANGED banderas => UNCHANGED <<fin_por_consola, muertes>>
    BY DEF banderas
  <2>3. CortoF => UNCHANGED <<fin_por_consola, muertes>>
    BY <2>1, <2>2, Zenon DEF CortoF, CortoRecibeF, CortoAtiendeF, ListaF, Igual
  <2>4. CortoF => CortoSimple \/ (CortoPageFault /\ PfSinLeer = {}) \/ AgregarAReady("corto")
    <3>1. CortoRecibeF \/ CortoAtiendeF => CortoSimple \/ (CortoPageFault /\ PfSinLeer = {})
      BY Zenon DEF CortoRecibeF, CortoAtiendeF, CortoSimple
    <3>2. ListaF("corto") => AgregarAReady("corto")
      BY DEF ListaF, AgregarAReady
    <3>3. CortoF => CortoSimple \/ AgregarAReady("corto") \/ CortoRecibeF \/ CortoAtiendeF
                      \/ ListaF("corto")
      BY Zenon DEF CortoF, Igual, CortoSimple, AgregarAReady
    <3> QED
      BY <3>1, <3>2, <3>3
  <2>5. "corto" \in Hilos
    BY DEF Hilos
  <2> QED
    BY <2>3, <2>4, <2>5 DEF Planea
<1>3. CpuF => Planea
  BY DEF CpuF, Igual, Planea, banderas
<1>4. ASSUME NEW h \in Auxiliares, AuxiliarF(h)
      PROVE  Planea \/ Mata(h)
  <2>1. CASE Igual(SaleDeBlock(h) \/ LeeParams(h) \/ AgregarAReady(h))
    BY <2>1 DEF Igual, Planea, Hilos, banderas
  <2>2. CASE ResuelvePfF(h)
    BY <2>2 DEF ResuelvePfF, Igual, Planea, Mata, AbandonaPf, banderas
  <2>3. CASE SaleF(h)
    BY <2>3 DEF SaleF, Igual, Planea, Mata, SaleMuerto, banderas
  <2>4. CASE HiloExit(h) /\ ~SaleF(h)
    BY <2>4 DEF HiloExit, Igual, Planea, Mata, banderas
  <2> QED
    BY <1>4, <2>1, <2>2, <2>3, <2>4 DEF AuxiliarF
<1>5. ConsolaF => Planea \/ \E p \in Procesos : FinalizarProceso(p)
  BY DEF ConsolaF, Igual, Planea, banderas
<1>6. ASSUME NEW p \in Procesos, Igual(VenceQuantum(p))
      PROVE  Planea
  BY <1>6 DEF Igual, Planea, banderas
<1> QED
  BY <1>1, <1>2, <1>3, <1>4, <1>5, <1>6 DEF NextF

LEMMA PlaneaEs == ~fallo /\ Planea => Next
BY DEF Planea, Next, CortoSimple, Corto, Auxiliar, Consola

LEMMA FormasMata ==
  ASSUME Formas, NEW h \in Auxiliares, Mata(h)
  PROVE  Formas'
<1>1. h \in Hilos /\ HiloOK /\ PcbOK
  BY DEF Formas, Estructura, Hilos
<1>2. ASSUME hilo[h].pc \in {"sale", "pide_pagina"} \cup EnSalida
      PROVE  hilo[h].pcb \in Procesos
  BY <1>1, <1>2 DEF PcbOK, EnMano, Formas, PcbFin
<1>3. {"libre", "espera_manejo", "segun_estado", "devuelve", "agrega_exit"} \subseteq Puntos
  BY DEF Puntos, PuntosFin, EnEspera
<1>4. CASE \/ En(h, "pide_pagina") /\ Va(h, "libre", NULO)
                /\ UNCHANGED <<config, colas, pcbs, sem, params, maquina, pausa>>
  <2>1. "libre" \notin EnMano \cup EnCola \cup EnSalida
    BY DEF EnMano, EnCola, EnSalida
  <2> QED
    BY <1>3, <1>4, <2>1, FormasCallada
<1>5. CASE /\ hilo[h].pc \in {"sale"} \cup EnSalida
           /\ \E l \in {"espera_manejo", "segun_estado", "devuelve", "agrega_exit"} : Sigue(h, l)
           /\ UNCHANGED <<config, colas, pcbs, sem, params, maquina, pausa>>
  BY <1>2, <1>3, <1>5, FormasCallada
<1>6. CASE AbandonaPf(h) \/ SaleMuerto(h)
  BY <1>4, <1>5, <1>6 DEF AbandonaPf, SaleMuerto, En
<1>7. CASE EsperaManejo(h) \/ MiraGrado(h)
  BY <1>5, <1>7 DEF EsperaManejo, MiraGrado, En, EnSalida
<1> QED
  BY <1>6, <1>7, FormasSegunEstado, FormasRecibe, FormasTermina, FormasAgregaExit DEF Mata

LEMMA FormasPaso == Formas /\ [NextF]_varsF => Formas'
<1> SUFFICES ASSUME Formas, [NextF]_varsF PROVE Formas'
  OBVIOUS
<1>1. CASE UNCHANGED varsF
  BY <1>1, FormasPlan DEF varsF
<1>2. CASE NextF
  <2>1. ~fallo
    BY <1>2 DEF NextF, Definido
  <2> QED
    BY <1>2, <2>1, AlPaso, PlaneaEs, FormasPlan, FormasMata, FormasFinaliza
<1> QED
  BY <1>1, <1>2

-----------------------------------------------------------------------------
(* The flags *)

LEMMA BanderaCambia ==
  ASSUME NEW S, NEW T, NEW f \in [S -> T], NEW x, NEW v \in T
  PROVE  [f EXCEPT ![x] = v] \in [S -> T]
OBVIOUS

LEMMA BanderasPaso == Formas /\ BanderasOK /\ [NextF]_varsF => BanderasOK'
<1> SUFFICES ASSUME Formas, BanderasOK, [NextF]_varsF PROVE BanderasOK'
  OBVIOUS
<1>1. /\ fin_por_consola \in [Procesos -> BOOLEAN] /\ manejando_contexto \in [Procesos -> BOOLEAN]
      /\ estado_aux \in [Auxiliares -> Estados \cup {NULO}]
      /\ muertes \in 0 .. MaxMuertes /\ confundido \in BOOLEAN
      /\ TRUE \in BOOLEAN /\ FALSE \in BOOLEAN
  BY DEF BanderasOK
<1>2. CASE UNCHANGED banderas
  BY <1>1, <1>2 DEF BanderasOK, banderas
<1>3. ASSUME NEW x, NEW v \in BOOLEAN, Maneja(x, v)
      PROVE  BanderasOK'
  <2>1. manejando_contexto' \in [Procesos -> BOOLEAN]
    BY <1>1, <1>3, BanderaCambia, Zenon DEF Maneja
  <2> QED
    BY <1>1, <1>3, <2>1 DEF BanderasOK, Maneja
<1>4. ASSUME NEW h \in Auxiliares, SaleMuerto(h)
      PROVE  BanderasOK'
  <2>1. hilo[h].pcb \in Procesos /\ estado \in [Procesos -> Estados]
    BY <1>4 DEF SaleMuerto, En, Formas, Estructura, PcbOK, EnMano, Hilos, PcbsOK
  <2>2. estado[Pcb(h)] \in Estados \cup {NULO}
    BY <2>1 DEF Pcb
  <2>3. estado_aux' \in [Auxiliares -> Estados \cup {NULO}]
    BY <1>1, <1>4, <2>2, BanderaCambia, Zenon DEF SaleMuerto
  <2> QED
    BY <1>1, <1>4, <2>3 DEF SaleMuerto, BanderasOK
<1>5. ASSUME NEW h \in Auxiliares, RecibeContexto(h)
      PROVE  BanderasOK'
  <2>1. manejando_contexto' \in [Procesos -> BOOLEAN]
    BY <1>1, <1>5, BanderaCambia, Zenon DEF RecibeContexto
  <2>2. confundido' \in BOOLEAN
    <3> DEFINE b == (mensaje \in ConArgumentos)
    <3>1. b \in BOOLEAN
      OBVIOUS
    <3>2. confundido' \in {FALSE, b}
      BY <1>5, Zenon DEF RecibeContexto
    <3> HIDE DEF b
    <3> QED
      BY <3>1, <3>2, Zenon
  <2> QED
    BY <1>1, <1>5, <2>1, <2>2 DEF RecibeContexto, BanderasOK
<1>6. ASSUME NEW h \in Auxiliares, AgregaExit(h)
      PROVE  BanderasOK'
  <2>1. NULO \in Estados \cup {NULO}
    OBVIOUS
  <2>2. estado_aux' \in [Auxiliares -> Estados \cup {NULO}]
    BY <1>1, <1>6, <2>1, BanderaCambia, Zenon DEF AgregaExit
  <2> QED
    BY <1>1, <1>6, <2>2 DEF AgregaExit, BanderasOK
<1>7. ASSUME NEW p \in Procesos, FinalizarProceso(p)
      PROVE  BanderasOK'
  <2>1. fin_por_consola' \in [Procesos -> BOOLEAN]
    BY <1>1, <1>7, BanderaCambia, Zenon DEF FinalizarProceso
  <2>2. muertes' \in 0 .. MaxMuertes
    BY <1>1, <1>7, MuertesOK DEF FinalizarProceso
  <2> QED
    BY <1>1, <1>7, <2>1, <2>2 DEF FinalizarProceso, BanderasOK
<1>8. ASSUME NEW h \in Auxiliares,
             \/ AbandonaPf(h) \/ EsperaManejo(h) \/ Termina(h) \/ MiraGrado(h) \/ SegunEstado(h)
      PROVE  BanderasOK'
  <2>1. UNCHANGED banderas
    BY <1>8 DEF AbandonaPf, EsperaManejo, Termina, MiraGrado, SegunEstado, banderas
  <2> QED
    BY <1>2, <2>1
<1>9. ASSUME NEW h \in Auxiliares, AuxiliarF(h)
      PROVE  BanderasOK'
  <2>1. UNCHANGED banderas \/ Mata(h)
    BY <1>9 DEF AuxiliarF, ResuelvePfF, HiloExit, SaleF, Igual, Mata, AbandonaPf, SaleMuerto
  <2> QED
    BY <1>2, <1>4, <1>5, <1>6, <1>8, <2>1 DEF Mata
<1>10. CASE CortoF
  <2>1. UNCHANGED banderas \/ \E x : \E v \in BOOLEAN : Maneja(x, v)
    BY <1>10, Zenon DEF CortoF, CortoRecibeF, CortoAtiendeF, ListaF, Igual
  <2> QED
    BY <1>2, <1>3, <2>1
<1> QED
  BY <1>2, <1>7, <1>9, <1>10 DEF NextF, LargoF, CpuF, ConsolaF, Igual, varsF

LEMMA TipoFinInicial == InitF => TipoFin
<1> SUFFICES ASSUME InitF PROVE TipoFin
  OBVIOUS
<1>1. TipoInv
  BY TipoInicial DEF InitF
<1>2. PcbFin
  BY <1>1, SalidaEsFin DEF TipoInv, SinFin, PcbFin
<1>3. SinLee
  BY DEF InitF, Init, SinLee, Hilos
<1>4. BanderasOK
  <2>0. confundido \in BOOLEAN
    BY Zenon DEF InitF
  <2>1. muertes \in 0 .. MaxMuertes
    <3>1. muertes = 0
      BY DEF InitF
    <3> QED
      BY <3>1, MuertesOK
  <2>2. /\ fin_por_consola \in [Procesos -> BOOLEAN]
        /\ manejando_contexto \in [Procesos -> BOOLEAN]
        /\ estado_aux \in [Auxiliares -> Estados \cup {NULO}]
    BY DEF InitF
  <2> QED
    BY <2>0, <2>1, <2>2 DEF BanderasOK
<1> QED
  BY <1>1, <1>2, <1>3, <1>4 DEF TipoFin, Formas, TipoInv

\* The places of the threads, exit threads included, the flags of the t_pcbs and what an
\* exit thread remembers keep their types, whatever the console ends and when.
THEOREM TipoFinTeorema == SpecF => []TipoFinOK
<1>1. TipoFin /\ [NextF]_varsF => TipoFin'
  BY FormasPaso, BanderasPaso DEF TipoFin
<1> QED
  BY <1>1, TipoFinInicial, TipoFinTipo, PTL DEF SpecF

-----------------------------------------------------------------------------
(* Where each process is *)

\* Places with a process on its way through the planners; places of the exit threads before
\* plani_exit; those of the latter that have looked for the process in the queues.
EnPlan     == EnMano \ {"sale", "libera"}
EnFin      == {"sale"} \cup EnSalida
TrasEstado == EnSalida \ {"espera_manejo", "segun_estado"}

\* The process thread h has, which a thread of handle_pf has in params until it reads it.
Cosa(h)      == IF hilo[h].pc = "lee_params" THEN params ELSE hilo[h].pcb
Lleva(h, p)  == hilo[h].pc \in EnPlan \cup {"lee_params"} /\ Cosa(h) = p
Acaba(h, p)  == hilo[h].pc \in EnFin /\ hilo[h].pcb = p
Suelta(h, p) == hilo[h].pc = "libera" /\ hilo[h].pcb = p

ColasFin ==
  /\ IsInjective(plani_new) /\ IsInjective(plani_ready)
  /\ ToSet(plani_new) \cap (ToSet(plani_ready) \cup plani_exit) = {}
  /\ EnColas \cup plani_exit \subseteq Creados

\* One thread at most has a process on its way, and then it is in no queue: also one that the
\* console has ended, whose exit threads come on top.
Llevados ==
  \A h \in Hilos, p \in Procesos : Lleva(h, p) =>
    p \in Creados \ EnColas /\ \A g \in Hilos : Lleva(g, p) => g = h

Propios == \A h \in Hilos : hilo[h].pcb \in Creados \cup {NULO}

\* In NEW there are only processes in state NEW; so an exit thread that has looked at the state
\* has no process in NEW.
NuevosNew == \A p \in ToSet(plani_new) : estado[p] = "NEW"
TrasNew   == \A h \in Hilos : hilo[h].pc \in TrasEstado \cup {"libera"} \cup EnCola =>
               hilo[h].pcb \notin ToSet(plani_new)

SalidaFin == \A h \in Hilos : hilo[h].pc \in EnSalida => fin_por_consola[hilo[h].pcb]

\* A process that ends by itself is nowhere but in its exit thread.
Solos ==
  \A h \in Hilos, p \in Procesos : (Acaba(h, p) \/ Suelta(h, p)) /\ ~fin_por_consola[p] =>
    /\ p \notin EnColas
    /\ \A g \in Hilos : ~Lleva(g, p) /\ (Acaba(g, p) \/ Suelta(g, p) => g = h)

\* Nobody is lost before plani_exit, and a process that somebody may let go has an exit thread.
Presencia ==
  \A p \in Creados :
    p \in EnColas \cup plani_exit \/ \E h \in Hilos : Lleva(h, p) \/ Acaba(h, p)
Despedidos ==
  \A p \in Procesos : estado[p] = "FIN" \/ fin_por_consola[p] =>
    p \in plani_exit \/ \E h \in Hilos : Acaba(h, p)
Soltados ==
  \A p \in total_pcbs \cap plani_exit : ~fin_por_consola[p] => \E h \in Hilos : Suelta(h, p)

Sitios ==
  /\ ColasFin /\ Llevados /\ Propios /\ NuevosNew /\ TrasNew /\ SalidaFin /\ Solos
  /\ Presencia /\ Despedidos /\ Soltados

LEMMA Clases ==
  /\ EnPlan \cap EnFin = {} /\ "libera" \notin EnPlan /\ "libera" \notin EnFin
  /\ EnCola \cap (EnPlan \cup EnFin \cup {"libera", "lee_params"}) = {}
  /\ "lee_params" \notin EnPlan /\ "lee_params" \notin EnFin
  /\ TrasEstado \subseteq EnSalida /\ EnSalida \subseteq EnFin /\ EnSalida \cap EnPlan = {}
  /\ EnMano = EnPlan \cup {"sale", "libera"}
BY DEF EnPlan, EnFin, EnCola, EnMano, TrasEstado, EnSalida

\* What a process that is in nobody's hands gives the invariant at the start.
LEMMA SitiosInicial == InitF => Sitios
<1> SUFFICES ASSUME InitF PROVE Sitios
  OBVIOUS
<1>1. /\ plani_new = <<>> /\ plani_ready = <<>> /\ plani_exit = {} /\ total_pcbs = {}
      /\ Creados = {}
  BY DEF InitF, Init, Creados
<1>2. ToSet(<<>>) = {} /\ IsInjective(<<>>)
  BY DEF ToSet, IsInjective
<1>3. \A h \in Hilos : /\ hilo[h].pc \in {"espera_new", "espera_ready", "libre"}
                       /\ hilo[h].pcb = NULO
  BY DEF InitF, Init
<1>4. \A p \in Procesos : estado[p] = "NEW" /\ ~fin_por_consola[p]
  BY DEF InitF, Init
<1>5. {"espera_new", "espera_ready", "libre"}
        \cap (EnPlan \cup EnFin \cup EnCola \cup {"libera", "lee_params"}) = {}
  BY DEF EnPlan, EnMano, EnFin, EnSalida, EnCola
<1>6. ColasFin /\ NuevosNew /\ Presencia /\ Soltados
  BY <1>1, <1>2 DEF ColasFin, EnColas, NuevosNew, Presencia, Soltados
<1>7. Llevados /\ Solos
  BY <1>3, <1>5 DEF Llevados, Solos, Lleva, Acaba, Suelta
<1>8. Propios /\ TrasNew /\ SalidaFin
  BY <1>3, <1>5, Clases DEF Propios, TrasNew, SalidaFin
<1>9. Despedidos
  BY <1>4 DEF Despedidos
<1> QED
  BY <1>6, <1>7, <1>8, <1>9 DEF Sitios

\* A step that leaves every process in its place.
LEMMA SitiosMarco ==
  ASSUME Sitios, UNCHANGED <<plani_new, plani_ready, plani_exit, pid_global, fin_por_consola>>,
         total_pcbs' \subseteq total_pcbs,
         \A h \in Hilos, p \in Procesos :
           /\ Lleva(h, p)' <=> Lleva(h, p)
           /\ Acaba(h, p)' <=> Acaba(h, p)
           /\ Suelta(h, p)' <=> Suelta(h, p),
         Propios', NuevosNew', TrasNew', SalidaFin',
         Creados \subseteq Procesos, total_pcbs \subseteq Procesos,
         \A p \in Procesos : estado'[p] = "FIN" =>
           estado[p] = "FIN" \/ \E h \in Hilos : Acaba(h, p)
  PROVE  Sitios'
<1>1. EnColas' = EnColas /\ Creados' = Creados
  BY DEF EnColas, Creados
<1>2. ColasFin'
  BY <1>1 DEF Sitios, ColasFin
<1>3. Llevados'
  BY <1>1 DEF Sitios, Llevados
<1>4. Solos'
  BY <1>1 DEF Sitios, Solos
<1>5. Presencia'
  BY <1>1 DEF Sitios, Presencia
<1>6. Despedidos'
  BY DEF Sitios, Despedidos
<1>7. Soltados'
  BY DEF Sitios, Soltados
<1> QED
  BY <1>2, <1>3, <1>4, <1>5, <1>6, <1>7 DEF Sitios

\* One thread moves and has afterwards, in the same kind of place, what it had.
LEMMA SitiosSigue ==
  ASSUME Formas, Sitios, NEW h \in Hilos, \A g \in Hilos : g # h => hilo'[g] = hilo[g],
         UNCHANGED <<plani_new, plani_ready, plani_exit, pid_global, params, fin_por_consola>>,
         total_pcbs' = total_pcbs,
         hilo'[h].pc \in EnPlan <=> hilo[h].pc \in EnPlan,
         hilo'[h].pc \in EnFin <=> hilo[h].pc \in EnFin,
         hilo'[h].pc = "libera" <=> hilo[h].pc = "libera",
         hilo[h].pc # "lee_params", hilo'[h].pc # "lee_params",
         hilo'[h].pcb = hilo[h].pcb \/ (hilo'[h].pcb = NULO /\ hilo'[h].pc \notin EnPlan \cup EnFin
                                                             \cup EnCola \cup {"libera"}),
         hilo'[h].pc \in EnSalida => fin_por_consola[hilo[h].pcb],
         hilo'[h].pc \in TrasEstado \cup EnCola =>
           hilo[h].pc \in TrasEstado \cup EnCola \/ hilo[h].pcb \notin ToSet(plani_new),
         NuevosNew',
         \A p \in Procesos : estado'[p] = "FIN" =>
           estado[p] = "FIN" \/ \E g \in Hilos : Acaba(g, p)
  PROVE  Sitios'
<1>1. Creados \subseteq Procesos /\ total_pcbs \subseteq Procesos /\ Creados' = Creados
  BY ConstantesOK DEF Formas, Estructura, PcbsOK, Creados, Procesos
<1>2. \A g \in Hilos, p \in Procesos :
           /\ Lleva(g, p)' <=> Lleva(g, p)
           /\ Acaba(g, p)' <=> Acaba(g, p)
           /\ Suelta(g, p)' <=> Suelta(g, p)
  BY Clases DEF Lleva, Acaba, Suelta, Cosa
<1>3. Propios'
  BY <1>1 DEF Sitios, Propios
<1>4. TrasNew'
  BY Clases DEF Sitios, TrasNew
<1>5. SalidaFin'
  BY Clases DEF Sitios, SalidaFin
<1> QED
  BY <1>1, <1>2, <1>3, <1>4, <1>5, SitiosMarco

\* Nothing but the machine moves.
LEMMA SitiosQuieto ==
  ASSUME Formas, Sitios,
         UNCHANGED <<hilo, params, plani_new, plani_ready, plani_exit, pid_global, total_pcbs,
                     estado, fin_por_consola>>
  PROVE  Sitios'
<1>1. Creados \subseteq Procesos /\ total_pcbs \subseteq Procesos /\ Creados' = Creados
  BY ConstantesOK DEF Formas, Estructura, PcbsOK, Creados, Procesos
<1>2. Propios' /\ NuevosNew' /\ TrasNew' /\ SalidaFin'
  BY <1>1 DEF Sitios, Propios, NuevosNew, TrasNew, SalidaFin
<1>3. \A h \in Hilos, p \in Procesos :
           /\ Lleva(h, p)' <=> Lleva(h, p)
           /\ Acaba(h, p)' <=> Acaba(h, p)
           /\ Suelta(h, p)' <=> Suelta(h, p)
  BY DEF Lleva, Acaba, Suelta, Cosa
<1> QED
  BY <1>1, <1>2, <1>3, SitiosMarco

\* What the threads that do not move have stays.
LEMMA Ajenas ==
  ASSUME NEW h, \A g \in Hilos : g # h => hilo'[g] = hilo[g], UNCHANGED params
  PROVE  \A g \in Hilos, x \in Procesos : g # h =>
           /\ Lleva(g, x)' <=> Lleva(g, x)
           /\ Acaba(g, x)' <=> Acaba(g, x)
           /\ Suelta(g, x)' <=> Suelta(g, x)
BY DEF Lleva, Acaba, Suelta, Cosa

\* Of a thread in a place that is none of theirs.
Vacio(l) == l \notin EnPlan \cup EnFin \cup {"libera", "lee_params"}

\* A thread with nothing takes a process out of a queue.
LEMMA SitiosToma ==
  ASSUME Formas, Sitios, NEW h \in Hilos, \A g \in Hilos : g # h => hilo'[g] = hilo[g],
         Vacio(hilo[h].pc), hilo'[h].pc \in EnPlan,
         NEW p \in Procesos, hilo'[h].pcb = p, p \in EnColas, p \notin EnColas',
         EnColas \subseteq EnColas' \cup {p},
         ToSet(plani_new') \subseteq ToSet(plani_new),
         ToSet(plani_ready') \subseteq ToSet(plani_ready),
         IsInjective(plani_new'), IsInjective(plani_ready'),
         UNCHANGED <<plani_exit, pid_global, total_pcbs, estado, params, fin_por_consola>>
  PROVE  Sitios'
<1>1. \A g \in Hilos, x \in Procesos : g # h =>
           /\ Lleva(g, x)' <=> Lleva(g, x)
           /\ Acaba(g, x)' <=> Acaba(g, x)
           /\ Suelta(g, x)' <=> Suelta(g, x)
  BY Ajenas
<1>2. \A x \in Procesos : /\ ~Lleva(h, x) /\ ~Acaba(h, x) /\ ~Suelta(h, x)
                          /\ Lleva(h, x)' <=> x = p
                          /\ ~Acaba(h, x)' /\ ~Suelta(h, x)'
  BY Clases DEF Vacio, Lleva, Acaba, Suelta, Cosa
<1>3. Creados' = Creados /\ p \in Creados /\ EnColas' \subseteq EnColas
  BY DEF Creados, Sitios, ColasFin, EnColas
<1>4. ColasFin'
  BY <1>3 DEF Sitios, ColasFin
<1>5. Llevados'
  BY <1>1, <1>2, <1>3 DEF Sitios, Llevados
<1>6. Propios' /\ NuevosNew' /\ SalidaFin'
  BY <1>3, Clases DEF Sitios, Propios, NuevosNew, SalidaFin
<1>7. TrasNew'
  BY Clases DEF Sitios, TrasNew
<1>8. Solos'
  BY <1>1, <1>2, <1>3 DEF Sitios, Solos
<1>9. Presencia'
  <2> SUFFICES ASSUME NEW x \in Creados,
                      ~ \E g \in Hilos : Lleva(g, x)' \/ Acaba(g, x)'
               PROVE  x \in EnColas' \cup plani_exit
    BY <1>3 DEF Presencia
  <2>1. x \in Procesos
    BY ConstantesOK DEF Formas, Estructura, PcbsOK, Creados, Procesos
  <2>2. x # p
    BY <1>2, <2>1
  <2>3. x \in EnColas \cup plani_exit
    BY <1>1, <1>2, <2>1 DEF Sitios, Presencia
  <2> QED
    BY <2>2, <2>3
<1>10. Despedidos' /\ Soltados'
  <2>1. total_pcbs \subseteq Procesos
    BY ConstantesOK DEF Formas, Estructura, PcbsOK, Creados, Procesos
  <2>2. Despedidos'
    BY <1>1, <1>2 DEF Sitios, Despedidos
  <2> QED
    BY <1>1, <1>2, <2>1, <2>2 DEF Sitios, Soltados
<1> QED
  BY <1>4, <1>5, <1>6, <1>7, <1>8, <1>9, <1>10 DEF Sitios

\* The first half of agregar_a_ready.
LEMMA SitiosEncola ==
  ASSUME Formas, Sitios, NEW h \in Hilos, Encola(h), UNCHANGED fin_por_consola
  PROVE  Sitios'
<1>1. hilo[h].pc = "encola" /\ hilo[h].pc \in EnPlan /\ hilo[h].pc # "lee_params"
  BY DEF Encola, En, EnPlan, EnMano
<1>2. PICK p \in Procesos : p = hilo[h].pcb
  BY <1>1 DEF Formas, Estructura, PcbOK, EnPlan
<1>3. /\ hilo'[h].pc = "marca" /\ hilo'[h].pcb = p
      /\ \A g \in Hilos : g # h => hilo'[g] = hilo[g]
  BY <1>2, AlSeguir DEF Encola, Formas, Estructura, Puntos, EnCola
<1>4. /\ UNCHANGED <<plani_new, plani_exit, pid_global, total_pcbs, estado, params>>
      /\ plani_ready' = Append(plani_ready, p)
  BY <1>2 DEF Encola, pcbs, Pcb
<1>5. \A g \in Hilos, x \in Procesos : g # h =>
           /\ Lleva(g, x)' <=> Lleva(g, x)
           /\ Acaba(g, x)' <=> Acaba(g, x)
           /\ Suelta(g, x)' <=> Suelta(g, x)
  BY <1>3, <1>4, Ajenas
<1>6. \A x \in Procesos : /\ Lleva(h, x) <=> x = p
                          /\ ~Acaba(h, x) /\ ~Suelta(h, x)
                          /\ ~Lleva(h, x)' /\ ~Acaba(h, x)' /\ ~Suelta(h, x)'
  BY <1>1, <1>2, <1>3, Clases DEF Lleva, Acaba, Suelta, Cosa, EnCola
<1>7. Creados' = Creados /\ p \in Creados \ EnColas
  BY <1>4, <1>6 DEF Creados, Sitios, Llevados
<1>8. /\ ToSet(plani_ready') = ToSet(plani_ready) \cup {p} /\ IsInjective(plani_ready')
      /\ EnColas' = EnColas \cup {p}
  <2>1. plani_ready \in Seq(Procesos) /\ IsInjective(plani_ready) /\ p \notin ToSet(plani_ready)
    BY <1>7 DEF Formas, Estructura, ColasOK, Sitios, ColasFin, EnColas
  <2>2. ToSet(plani_ready') = ToSet(plani_ready) \cup {p} /\ IsInjective(plani_ready')
    BY <1>2, <1>4, <2>1, EnAgregado
  <2> QED
    BY <1>4, <2>2 DEF EnColas
<1>9. ColasFin'
  BY <1>4, <1>7, <1>8 DEF Sitios, ColasFin, EnColas
<1>10. Llevados'
  BY <1>5, <1>6, <1>7, <1>8 DEF Sitios, Llevados
<1>11. Propios' /\ NuevosNew' /\ SalidaFin'
  BY <1>3, <1>4, <1>7, Clases DEF Sitios, Propios, NuevosNew, SalidaFin, EnCola
<1>12. TrasNew'
  BY <1>3, <1>4, <1>7 DEF Sitios, TrasNew, EnColas
<1>13. Solos'
  BY <1>5, <1>6, <1>7, <1>8 DEF Sitios, Solos
<1>14. Presencia'
  <2>1. Creados \subseteq Procesos
    BY ConstantesOK DEF Formas, Estructura, PcbsOK, Creados, Procesos
  <2> QED
    BY <1>4, <1>5, <1>6, <1>7, <1>8, <2>1 DEF Sitios, Presencia
<1>15. Despedidos' /\ Soltados'
  <2>1. total_pcbs \subseteq Procesos
    BY ConstantesOK DEF Formas, Estructura, PcbsOK, Creados, Procesos
  <2>2. Despedidos'
    BY <1>4, <1>5, <1>6 DEF Sitios, Despedidos
  <2> QED
    BY <1>4, <1>5, <1>6, <2>1, <2>2 DEF Sitios, Soltados
<1> QED
  BY <1>9, <1>10, <1>11, <1>12, <1>13, <1>14, <1>15 DEF Sitios

\* The planner's process passes to a new thread; a page fault's through params.
LEMMA SitiosLanza ==
  ASSUME Formas, Sitios, NEW p \in Procesos, p = hilo["corto"].pcb, hilo["corto"].pc \in EnPlan,
         NEW l \in {"espera", "lee_params", "sale"}, NEW q, Lanza(l, q),
         IF l = "lee_params" THEN q = NULO /\ params' = p /\ PfSinLeer = {}
         ELSE q = p /\ UNCHANGED params,
         UNCHANGED <<plani_new, plani_ready, plani_exit, pid_global, total_pcbs, fin_por_consola>>,
         \A x \in Procesos : estado'[x] = "FIN" => estado[x] = "FIN" \/ (x = p /\ l = "sale"),
         \A x \in Procesos : x # p => estado'[x] = estado[x]
  PROVE  Sitios'
<1>1. l \in Puntos /\ q \in Procesos \cup {NULO} /\ HiloOK /\ "corto" \in Hilos
  BY DEF Puntos, EnEspera, EnMano, Formas, Estructura, Hilos
<1>2. hilo'["corto"].pc = "espera_ready" /\ hilo'["corto"].pcb = NULO
  BY <1>1, AlLanzar
<1>3. PICK a \in Hilos \ {"corto"} :
        /\ hilo[a].pc = "libre" /\ hilo'[a].pc = l /\ hilo'[a].pcb = q
        /\ \A g \in Hilos : g \notin {a, "corto"} => hilo'[g] = hilo[g]
  BY <1>1, AlLanzar
<1>4. /\ Vacio("libre") /\ Vacio("espera_ready")
      /\ "espera" \in EnPlan /\ "sale" \in EnFin /\ "sale" \notin TrasEstado \cup EnSalida
      /\ {"libre", "espera_ready", "espera", "sale", "lee_params"} \cap (EnCola \cup EnSalida) = {}
  BY DEF Vacio, EnPlan, EnMano, EnFin, EnSalida, EnCola, TrasEstado
<1>5. \A g \in Hilos, x \in Procesos : g \notin {a, "corto"} =>
           /\ Lleva(g, x)' <=> Lleva(g, x)
           /\ Acaba(g, x)' <=> Acaba(g, x)
           /\ Suelta(g, x)' <=> Suelta(g, x)
  <2>1. ASSUME NEW g \in Hilos, g \notin {a, "corto"} PROVE Cosa(g)' = Cosa(g)
    <3>1. l = "lee_params" => hilo[g].pc # "lee_params"
      BY <2>1 DEF PfSinLeer, En, Hilos, Formas, SinLee
    <3> QED
      BY <1>3, <2>1, <3>1 DEF Cosa
  <2> QED
    BY <1>3, <2>1 DEF Lleva, Acaba, Suelta
<1>6. \A x \in Procesos : /\ Lleva("corto", x) <=> x = p
                          /\ ~Acaba("corto", x) /\ ~Suelta("corto", x)
                          /\ ~Lleva("corto", x)' /\ ~Acaba("corto", x)' /\ ~Suelta("corto", x)'
  BY <1>2, <1>4, Clases DEF Lleva, Acaba, Suelta, Cosa, Vacio
<1>7. \A x \in Procesos : /\ ~Lleva(a, x) /\ ~Acaba(a, x) /\ ~Suelta(a, x) /\ ~Suelta(a, x)'
                          /\ IF l = "sale" THEN ~Lleva(a, x)' /\ (Acaba(a, x)' <=> x = p)
                             ELSE ~Acaba(a, x)' /\ (Lleva(a, x)' <=> x = p)
  BY <1>3, <1>4, Clases DEF Lleva, Acaba, Suelta, Cosa, Vacio
<1>8. /\ Creados' = Creados /\ EnColas' = EnColas /\ p \in Creados \ EnColas
      /\ total_pcbs \subseteq Procesos /\ Creados \subseteq Procesos
  BY <1>1, <1>6, ConstantesOK
     DEF Creados, EnColas, Sitios, Llevados, Formas, Estructura, PcbsOK, Procesos
<1>9. ColasFin'
  BY <1>8 DEF Sitios, ColasFin
<1>10. Llevados'
  <2>1. \A g \in Hilos : g # "corto" => ~Lleva(g, p)
    BY <1>1, <1>6 DEF Sitios, Llevados
  <2>2. \A g \in Hilos, x \in Procesos :
          Lleva(g, x)' <=> \/ g \notin {a, "corto"} /\ Lleva(g, x)
                           \/ g = a /\ l # "sale" /\ x = p
    BY <1>5, <1>6, <1>7
  <2> QED
    BY <1>8, <2>1, <2>2 DEF Sitios, Llevados
<1>11. Propios' /\ NuevosNew'
  <2>1. Propios'
    BY <1>2, <1>3, <1>8 DEF Sitios, Propios
  <2>2. ToSet(plani_new) \subseteq Procesos
    BY <1>8 DEF Sitios, ColasFin, EnColas
  <2> QED
    BY <1>8, <2>1, <2>2 DEF Sitios, NuevosNew, EnColas
<1>12. TrasNew' /\ SalidaFin'
  BY <1>2, <1>3, <1>4, Clases DEF Sitios, TrasNew, SalidaFin, Vacio
<1>13. Solos'
  <2>1. \A g \in Hilos : g # "corto" => ~Lleva(g, p)
    BY <1>1, <1>6 DEF Sitios, Llevados
  <2>2. \A g \in Hilos : (Acaba(g, p) \/ Suelta(g, p)) => fin_por_consola[p]
    BY <1>1, <1>6 DEF Sitios, Solos
  <2>3. CASE l = "sale"
    BY <1>3, <1>5, <1>6, <1>7, <1>8, <2>1, <2>2, <2>3 DEF Sitios, Solos
  <2>4. CASE l # "sale"
    BY <1>3, <1>5, <1>6, <1>7, <1>8, <2>1, <2>2, <2>4 DEF Sitios, Solos
  <2> QED
    BY <2>3, <2>4
<1>14. Presencia'
  BY <1>3, <1>5, <1>6, <1>7, <1>8 DEF Sitios, Presencia
<1>15. Despedidos' /\ Soltados'
  <2>1. Despedidos'
    BY <1>3, <1>5, <1>6, <1>7 DEF Sitios, Despedidos
  <2> QED
    BY <1>3, <1>5, <1>6, <1>7, <1>8, <2>1 DEF Sitios, Soltados
<1> QED
  BY <1>9, <1>10, <1>11, <1>12, <1>13, <1>14, <1>15 DEF Sitios

\* A thread lets go of a process that has an exit thread or is in plani_exit.
LEMMA SitiosDeja ==
  ASSUME Formas, Sitios, NEW h \in Hilos, \A g \in Hilos : g # h => hilo'[g] = hilo[g],
         hilo[h].pc \in EnPlan, NEW p \in Procesos, hilo[h].pcb = p,
         estado[p] = "FIN" \/ fin_por_consola[p],
         Vacio(hilo'[h].pc), hilo'[h].pc \notin EnCola, hilo'[h].pcb \in {p, NULO},
         UNCHANGED <<plani_new, plani_ready, plani_exit, pid_global, total_pcbs, estado, params,
                     fin_por_consola>>
  PROVE  Sitios'
<1>1. \A g \in Hilos, x \in Procesos : g # h =>
           /\ Lleva(g, x)' <=> Lleva(g, x)
           /\ Acaba(g, x)' <=> Acaba(g, x)
           /\ Suelta(g, x)' <=> Suelta(g, x)
  BY Ajenas
<1>2. \A x \in Procesos : /\ Lleva(h, x) <=> x = p
                          /\ ~Acaba(h, x) /\ ~Suelta(h, x)
                          /\ ~Lleva(h, x)' /\ ~Acaba(h, x)' /\ ~Suelta(h, x)'
  BY Clases DEF Lleva, Acaba, Suelta, Cosa, Vacio
<1>3. /\ Creados' = Creados /\ EnColas' = EnColas
      /\ total_pcbs \subseteq Procesos /\ Creados \subseteq Procesos
  BY ConstantesOK DEF Creados, EnColas, Formas, Estructura, PcbsOK, Procesos
<1>4. ColasFin' /\ Propios' /\ NuevosNew' /\ TrasNew' /\ SalidaFin'
  <2>1. hilo'[h].pc \notin TrasEstado \cup {"libera"} \cup EnCola \cup EnSalida
    BY Clases DEF Vacio
  <2>2. Propios' /\ SalidaFin'
    BY <1>3, <2>1 DEF Sitios, Propios, SalidaFin
  <2>3. TrasNew'
    BY <2>1 DEF Sitios, TrasNew
  <2> QED
    BY <1>3, <2>2, <2>3 DEF Sitios, ColasFin, NuevosNew
<1>5. Llevados' /\ Solos'
  <2>1. Llevados'
    BY <1>1, <1>2, <1>3 DEF Sitios, Llevados
  <2> QED
    BY <1>1, <1>2, <1>3, <2>1 DEF Sitios, Solos
<1>6. Presencia'
  BY <1>1, <1>2, <1>3 DEF Sitios, Presencia, Despedidos
<1>7. Despedidos' /\ Soltados'
  <2>1. Despedidos'
    BY <1>1, <1>2 DEF Sitios, Despedidos
  <2> QED
    BY <1>1, <1>2, <1>3, <2>1 DEF Sitios, Soltados
<1> QED
  BY <1>4, <1>5, <1>6, <1>7 DEF Sitios

\* An exit thread puts its process in plani_exit.
LEMMA SitiosExit ==
  ASSUME Formas, Sitios, NEW h \in Auxiliares, NEW p \in Procesos, hilo[h].pcb = p,
         \/ hilo[h].pc = "sale" /\ ~fin_por_consola[p]
         \/ hilo[h].pc \in TrasEstado,
         Sigue(h, "libera"), plani_exit' = plani_exit \cup {p},
         UNCHANGED <<plani_new, plani_ready, pid_global, total_pcbs, estado, params,
                     fin_por_consola>>
  PROVE  Sitios'
<1>0. h \in Hilos /\ hilo[h].pc \in EnFin /\ "libera" \notin EnSalida
  BY Clases DEF Hilos, EnFin
<1>1. /\ hilo'[h].pc = "libera" /\ hilo'[h].pcb = p
      /\ \A g \in Hilos : g # h => hilo'[g] = hilo[g]
  BY <1>0, AlSeguir DEF Formas, Estructura, Puntos, EnMano
<1>2. \A g \in Hilos, x \in Procesos : g # h =>
           /\ Lleva(g, x)' <=> Lleva(g, x)
           /\ Acaba(g, x)' <=> Acaba(g, x)
           /\ Suelta(g, x)' <=> Suelta(g, x)
  BY <1>1, Ajenas
<1>3. \A x \in Procesos : /\ ~Lleva(h, x) /\ ~Suelta(h, x) /\ (Acaba(h, x) <=> x = p)
                          /\ ~Lleva(h, x)' /\ ~Acaba(h, x)' /\ (Suelta(h, x)' <=> x = p)
  BY <1>0, <1>1, Clases DEF Lleva, Acaba, Suelta, Cosa
<1>4. /\ Creados' = Creados /\ EnColas' = EnColas /\ p \in Creados
      /\ total_pcbs \subseteq Procesos /\ Creados \subseteq Procesos
  BY <1>0, ConstantesOK
     DEF Creados, EnColas, Formas, Estructura, PcbsOK, Procesos, Sitios, Propios
<1>5. p \notin ToSet(plani_new)
  BY <1>0, <1>3 DEF Sitios, Solos, TrasNew, EnColas
<1>6. ColasFin' /\ Propios' /\ NuevosNew' /\ SalidaFin'
  <2>1. ColasFin'
    BY <1>4, <1>5 DEF Sitios, ColasFin
  <2> QED
    BY <1>0, <1>1, <1>4, <2>1 DEF Sitios, Propios, NuevosNew, SalidaFin
<1>7. TrasNew'
  BY <1>1, <1>5 DEF Sitios, TrasNew
<1>8. Llevados'
  BY <1>2, <1>3, <1>4 DEF Sitios, Llevados
<1>9. Solos'
  BY <1>2, <1>3, <1>4 DEF Sitios, Solos
<1>10. Presencia'
  BY <1>2, <1>3, <1>4 DEF Sitios, Presencia
<1>11. Despedidos' /\ Soltados'
  <2>1. Despedidos'
    BY <1>2, <1>3 DEF Sitios, Despedidos
  <2> QED
    BY <1>0, <1>2, <1>3, <1>4, <2>1 DEF Sitios, Soltados
<1> QED
  BY <1>6, <1>7, <1>8, <1>9, <1>10, <1>11 DEF Sitios

\* The second half of agregar_a_exit.
LEMMA SitiosLibera ==
  ASSUME Formas, Sitios, NEW h \in Auxiliares, Libera(h), UNCHANGED fin_por_consola
  PROVE  Sitios'
<1>0. h \in Hilos /\ hilo[h].pc = "libera"
  BY DEF Hilos, Libera, En
<1>1. PICK p \in Procesos : p = hilo[h].pcb
  BY <1>0 DEF Formas, Estructura, PcbOK, EnMano
<1>2. /\ hilo'[h].pc = "libre" /\ hilo'[h].pcb = NULO
      /\ \A g \in Hilos : g # h => hilo'[g] = hilo[g]
  BY <1>0, AlIr DEF Libera, Formas, Estructura, Puntos, EnEspera
<1>3. /\ total_pcbs' = total_pcbs \ {p}
      /\ UNCHANGED <<plani_new, plani_ready, plani_exit, pid_global, estado, params>>
  BY <1>1 DEF Libera, Pcb, colas
<1>4. \A g \in Hilos, x \in Procesos : g # h =>
           /\ Lleva(g, x)' <=> Lleva(g, x)
           /\ Acaba(g, x)' <=> Acaba(g, x)
           /\ Suelta(g, x)' <=> Suelta(g, x)
  BY <1>2, <1>3, Ajenas
<1>5. "libre" \notin EnPlan \cup EnFin \cup EnSalida \cup TrasEstado \cup EnCola
  BY DEF EnPlan, EnMano, EnFin, EnSalida, TrasEstado, EnCola
<1>6. \A x \in Procesos : /\ ~Lleva(h, x) /\ ~Acaba(h, x) /\ (Suelta(h, x) <=> x = p)
                          /\ ~Lleva(h, x)' /\ ~Acaba(h, x)' /\ ~Suelta(h, x)'
  BY <1>0, <1>1, <1>2, <1>5, Clases DEF Lleva, Acaba, Suelta, Cosa
<1>7. /\ Creados' = Creados /\ EnColas' = EnColas
      /\ total_pcbs \subseteq Procesos /\ Creados \subseteq Procesos
  BY <1>3, ConstantesOK DEF Creados, EnColas, Formas, Estructura, PcbsOK, Procesos
<1>8. ColasFin' /\ Propios' /\ NuevosNew' /\ SalidaFin'
  BY <1>2, <1>3, <1>5, <1>7 DEF Sitios, ColasFin, Propios, NuevosNew, SalidaFin
<1>9. TrasNew'
  BY <1>2, <1>3, <1>5 DEF Sitios, TrasNew
<1>10. Llevados'
  BY <1>4, <1>6, <1>7 DEF Sitios, Llevados
<1>11. Solos'
  BY <1>4, <1>6, <1>7 DEF Sitios, Solos
<1>12. Presencia'
  BY <1>3, <1>4, <1>6, <1>7 DEF Sitios, Presencia
<1>13. Despedidos' /\ Soltados'
  <2>1. Despedidos'
    BY <1>3, <1>4, <1>6 DEF Sitios, Despedidos
  <2> QED
    BY <1>3, <1>4, <1>6, <1>7, <2>1 DEF Sitios, Soltados
<1> QED
  BY <1>8, <1>9, <1>10, <1>11, <1>12, <1>13 DEF Sitios

\* An exit thread takes its process out of the queue its state names.
LEMMA SitiosSegunEstado ==
  ASSUME Formas, Sitios, NEW h \in Auxiliares, SegunEstado(h)
  PROVE  Sitios'
<1>0. h \in Hilos /\ hilo[h].pc = "segun_estado" /\ hilo[h].pc \in EnSalida
  BY DEF Hilos, SegunEstado, En, EnSalida
<1>1. PICK p \in Procesos : p = hilo[h].pcb
  BY <1>0 DEF Formas, PcbFin
<1>2. PICK l \in {"recibe", "termina"} : Sigue(h, l)
  BY DEF SegunEstado
<1>3. /\ hilo'[h].pc = l /\ hilo'[h].pcb = p
      /\ \A g \in Hilos : g # h => hilo'[g] = hilo[g]
  BY <1>0, <1>1, <1>2, AlSeguir DEF Formas, Estructura, Puntos, PuntosFin
<1>4. l \in TrasEstado /\ l \in EnSalida /\ l \in EnFin
  BY DEF TrasEstado, EnSalida, EnFin
<1>5. UNCHANGED <<plani_exit, pid_global, total_pcbs, estado, params, fin_por_consola>>
  BY DEF SegunEstado, pcbs
<1>6. \A g \in Hilos, x \in Procesos :
           /\ Lleva(g, x)' <=> Lleva(g, x)
           /\ Acaba(g, x)' <=> Acaba(g, x)
           /\ Suelta(g, x)' <=> Suelta(g, x)
  <2>1. \A g \in Hilos, x \in Procesos : g # h =>
           /\ Lleva(g, x)' <=> Lleva(g, x)
           /\ Acaba(g, x)' <=> Acaba(g, x)
           /\ Suelta(g, x)' <=> Suelta(g, x)
    BY <1>3, <1>5, Ajenas
  <2>2. hilo[h].pc \in EnFin /\ hilo[h].pc \notin EnPlan \cup {"libera", "lee_params"}
    BY <1>0, Clases
  <2>3. l \notin EnPlan \cup {"libera", "lee_params"}
    BY <1>4, Clases
  <2>4. \A x \in Procesos : /\ Lleva(h, x)' <=> Lleva(h, x)
                            /\ Acaba(h, x)' <=> Acaba(h, x)
                            /\ Suelta(h, x)' <=> Suelta(h, x)
    BY <1>1, <1>3, <1>4, <2>2, <2>3 DEF Lleva, Acaba, Suelta
  <2> QED
    BY <2>1, <2>4
<1>7. fin_por_consola[p] /\ Acaba(h, p) /\ p \in Creados
  BY <1>0, <1>1, ConstantesOK, Clases DEF Sitios, SalidaFin, Acaba, Propios
<1>8. /\ Creados' = Creados /\ total_pcbs \subseteq Procesos /\ Creados \subseteq Procesos
  BY <1>5, ConstantesOK DEF Creados, Formas, Estructura, PcbsOK, Procesos
<1>9. /\ ToSet(plani_new') \subseteq ToSet(plani_new)
      /\ ToSet(plani_ready') \subseteq ToSet(plani_ready)
      /\ IsInjective(plani_new') /\ IsInjective(plani_ready')
      /\ EnColas \subseteq EnColas' \cup {p} /\ p \notin ToSet(plani_new')
  <2>1. /\ plani_new \in Seq(Procesos) /\ plani_ready \in Seq(Procesos)
        /\ IsInjective(plani_new) /\ IsInjective(plani_ready)
    BY DEF Formas, Estructura, ColasOK, Sitios, ColasFin
  <2>2. /\ ToSet(RemoveFirst(plani_new, p)) \subseteq ToSet(plani_new)
        /\ ToSet(plani_new) \subseteq ToSet(RemoveFirst(plani_new, p)) \cup {p}
        /\ IsInjective(RemoveFirst(plani_new, p)) /\ p \notin ToSet(RemoveFirst(plani_new, p))
    BY <2>1, AlQuitarPrimero
  <2>3. /\ ToSet(RemoveFirst(plani_ready, p)) \subseteq ToSet(plani_ready)
        /\ ToSet(plani_ready) \subseteq ToSet(RemoveFirst(plani_ready, p)) \cup {p}
        /\ IsInjective(RemoveFirst(plani_ready, p))
    BY <2>1, AlQuitarPrimero
  <2>4. /\ plani_new'   = IF estado[p] = "NEW" THEN RemoveFirst(plani_new, p) ELSE plani_new
        /\ plani_ready' = IF estado[p] = "READY" THEN RemoveFirst(plani_ready, p)
                          ELSE plani_ready
    BY <1>1 DEF SegunEstado, Pcb
  <2>5. /\ ToSet(plani_new') \subseteq ToSet(plani_new)
        /\ ToSet(plani_new) \subseteq ToSet(plani_new') \cup {p}
        /\ IsInjective(plani_new')
    BY <2>1, <2>2, <2>4
  <2>6. /\ ToSet(plani_ready') \subseteq ToSet(plani_ready)
        /\ ToSet(plani_ready) \subseteq ToSet(plani_ready') \cup {p}
        /\ IsInjective(plani_ready')
    BY <2>1, <2>3, <2>4
  <2>7. p \notin ToSet(plani_new')
    BY <2>2, <2>4 DEF Sitios, NuevosNew
  <2> QED
    BY <2>5, <2>6, <2>7 DEF EnColas
<1>10. EnColas' \subseteq EnColas
  BY <1>9 DEF EnColas
<1>11. ColasFin'
  BY <1>5, <1>8, <1>9, <1>10 DEF Sitios, ColasFin
<1>12. Propios' /\ NuevosNew' /\ SalidaFin'
  BY <1>3, <1>5, <1>7, <1>8, <1>9 DEF Sitios, Propios, NuevosNew, SalidaFin
<1>13. TrasNew'
  BY <1>3, <1>9 DEF Sitios, TrasNew
<1>14. Llevados'
  BY <1>6, <1>8, <1>10 DEF Sitios, Llevados
<1>15. Solos'
  BY <1>5, <1>6, <1>10 DEF Sitios, Solos
<1>16. Presencia'
  BY <1>0, <1>5, <1>6, <1>7, <1>8, <1>9 DEF Sitios, Presencia
<1>17. Despedidos' /\ Soltados'
  <2>1. Despedidos'
    BY <1>5, <1>6 DEF Sitios, Despedidos
  <2> QED
    BY <1>5, <1>6, <1>8, <2>1 DEF Sitios, Soltados
<1> QED
  BY <1>11, <1>12, <1>13, <1>14, <1>15, <1>16, <1>17 DEF Sitios

LEMMA SitiosInicia ==
  ASSUME Formas, Sitios, NEW prio, IniciarProceso(prio), UNCHANGED fin_por_consola
  PROVE  Sitios'
<1> DEFINE p == pid_global
<1>1. /\ plani_new' = Append(plani_new, p) /\ total_pcbs' = total_pcbs \cup {p}
      /\ pid_global' = p + 1 /\ estado' = [estado EXCEPT ![p] = "NEW"]
      /\ UNCHANGED <<plani_ready, plani_exit, hilo, params>>
  BY DEF IniciarProceso
<1>2. /\ PcbsOK /\ p \in Procesos /\ p \notin Creados /\ Creados' = Creados \cup {p}
      /\ total_pcbs \subseteq Procesos /\ Creados \subseteq Procesos
  BY <1>1, ConstantesOK DEF Formas, Estructura, PcbsOK, Creados, Procesos, IniciarProceso
<1> HIDE DEF p
<1>3. \A g \in Hilos, x \in Procesos :
           /\ Lleva(g, x)' <=> Lleva(g, x)
           /\ Acaba(g, x)' <=> Acaba(g, x)
           /\ Suelta(g, x)' <=> Suelta(g, x)
  BY <1>1 DEF Lleva, Acaba, Suelta, Cosa
<1>4. \A g \in Hilos : ~Lleva(g, p) /\ hilo[g].pcb # p
  BY <1>2, ConstantesOK DEF Sitios, Llevados, Propios
<1>5. p \notin EnColas \cup plani_exit
  BY <1>2 DEF Sitios, ColasFin
<1>6. /\ ToSet(plani_new') = ToSet(plani_new) \cup {p} /\ IsInjective(plani_new')
      /\ EnColas' = EnColas \cup {p}
  <2>1. plani_new \in Seq(Procesos) /\ IsInjective(plani_new) /\ p \notin ToSet(plani_new)
    BY <1>5 DEF Formas, Estructura, ColasOK, Sitios, ColasFin, EnColas
  <2>2. ToSet(plani_new') = ToSet(plani_new) \cup {p} /\ IsInjective(plani_new')
    BY <1>1, <1>2, <2>1, EnAgregado
  <2> QED
    BY <1>1, <2>2 DEF EnColas
<1>7. ColasFin'
  BY <1>1, <1>2, <1>5, <1>6 DEF Sitios, ColasFin, EnColas
<1>8. Llevados'
  BY <1>2, <1>3, <1>4, <1>6 DEF Sitios, Llevados
<1>9. Propios' /\ SalidaFin'
  BY <1>1, <1>2 DEF Sitios, Propios, SalidaFin
<1>10. NuevosNew'
  BY <1>1, <1>2, <1>6 DEF Sitios, NuevosNew, PcbsOK
<1>11. TrasNew'
  BY <1>1, <1>4, <1>6 DEF Sitios, TrasNew
<1>12. Solos'
  BY <1>3, <1>4, <1>6 DEF Sitios, Solos, Acaba, Suelta
<1>13. Presencia'
  BY <1>1, <1>2, <1>3, <1>6 DEF Sitios, Presencia
<1>14. Despedidos' /\ Soltados'
  <2>1. \A x \in Procesos : estado'[x] = "FIN" => estado[x] = "FIN"
    BY <1>1, <1>2 DEF PcbsOK
  <2>2. Despedidos'
    BY <1>1, <1>3, <2>1 DEF Sitios, Despedidos
  <2> QED
    BY <1>1, <1>2, <1>3, <1>5, <2>2 DEF Sitios, Soltados
<1> QED
  BY <1>7, <1>8, <1>9, <1>10, <1>11, <1>12, <1>13, <1>14 DEF Sitios

LEMMA SitiosFinaliza ==
  ASSUME Formas, Sitios, BanderasOK, NEW p \in Procesos, FinalizarProceso(p)
  PROVE  Sitios'
<1>0. UNCHANGED <<params, plani_new, plani_ready, plani_exit, pid_global, total_pcbs, estado>>
  BY DEF FinalizarProceso, colas, pcbs
<1>1. CASE UNCHANGED <<hilo, fin_por_consola>>
  BY <1>0, <1>1, SitiosQuieto
<1>2. CASE /\ p \in total_pcbs /\ Libres # {}
           /\ fin_por_consola' = [fin_por_consola EXCEPT ![p] = TRUE]
           /\ LET a == CHOOSE x \in Libres : TRUE IN Va(a, "sale", p)
  <2>1. PICK a \in Auxiliares : hilo[a].pc = "libre" /\ Va(a, "sale", p)
    BY <1>2 DEF Libres, En
  <2>2. /\ a \in Hilos /\ hilo'[a].pc = "sale" /\ hilo'[a].pcb = p
        /\ \A g \in Hilos : g # a => hilo'[g] = hilo[g]
    BY <2>1, AlIr DEF Formas, Estructura, Hilos, Puntos, EnMano
  <2>3. \A g \in Hilos, x \in Procesos : g # a =>
           /\ Lleva(g, x)' <=> Lleva(g, x)
           /\ Acaba(g, x)' <=> Acaba(g, x)
           /\ Suelta(g, x)' <=> Suelta(g, x)
    BY <1>0, <2>2, Ajenas
  <2>4. /\ "libre" \notin EnPlan \cup EnFin /\ "sale" \in EnFin
        /\ "sale" \notin EnPlan \cup EnSalida \cup TrasEstado \cup EnCola \cup {"libera"}
    BY DEF EnPlan, EnMano, EnFin, EnSalida, TrasEstado, EnCola
  <2>5. \A x \in Procesos : /\ ~Lleva(a, x) /\ ~Acaba(a, x) /\ ~Suelta(a, x)
                            /\ ~Lleva(a, x)' /\ (Acaba(a, x)' <=> x = p) /\ ~Suelta(a, x)'
    BY <2>1, <2>2, <2>4 DEF Lleva, Acaba, Suelta, Cosa
  <2>6. /\ Creados' = Creados /\ EnColas' = EnColas /\ p \in Creados
        /\ total_pcbs \subseteq Procesos /\ Creados \subseteq Procesos
    BY <1>0, <1>2, ConstantesOK DEF Creados, EnColas, Formas, Estructura, PcbsOK, Procesos
  <2>7. fin_por_consola'[p] /\ \A x \in Procesos : x # p => fin_por_consola'[x] = fin_por_consola[x]
    BY <1>2 DEF BanderasOK
  <2>8. ColasFin' /\ NuevosNew'
    BY <1>0, <2>6 DEF Sitios, ColasFin, NuevosNew
  <2>9. Llevados'
    BY <2>2, <2>3, <2>5, <2>6 DEF Sitios, Llevados
  <2>10. Propios' /\ TrasNew' /\ SalidaFin'
    <3>1. Propios'
      BY <2>2, <2>6 DEF Sitios, Propios
    <3>2. TrasNew'
      BY <1>0, <2>2, <2>4 DEF Sitios, TrasNew
    <3>3. SalidaFin'
      BY <2>2, <2>4, <2>7 DEF Formas, PcbFin, Sitios, SalidaFin
    <3> QED
      BY <3>1, <3>2, <3>3
  <2>11. Solos'
    BY <2>2, <2>3, <2>5, <2>6, <2>7 DEF Sitios, Solos
  <2>12. Presencia'
    BY <1>0, <2>3, <2>5, <2>6 DEF Sitios, Presencia
  <2>13. Despedidos' /\ Soltados'
    <3>1. Despedidos'
      BY <1>0, <2>2, <2>3, <2>5, <2>7 DEF Sitios, Despedidos
    <3> QED
      BY <1>0, <2>3, <2>5, <2>6, <2>7, <3>1 DEF Sitios, Soltados
  <2> QED
    BY <2>8, <2>9, <2>10, <2>11, <2>12, <2>13 DEF Sitios
<1> QED
  BY <1>1, <1>2 DEF FinalizarProceso

\* One thread goes on with what it has, or with nothing.
LEMMA SitiosMueve ==
  ASSUME Formas, Sitios, NEW h \in Hilos, NEW l \in Puntos,
         \/ Sigue(h, l)
         \/ Va(h, l, hilo[h].pcb)
         \/ Va(h, l, NULO) /\ l \notin EnPlan \cup EnFin \cup EnCola \cup {"libera"},
         UNCHANGED <<plani_new, plani_ready, plani_exit, pid_global, total_pcbs, estado, params,
                     fin_por_consola>>,
         l \in EnPlan <=> hilo[h].pc \in EnPlan,
         l \in EnFin <=> hilo[h].pc \in EnFin,
         l # "libera", hilo[h].pc \notin {"libera", "lee_params"}, l # "lee_params",
         l \in EnSalida => fin_por_consola[hilo[h].pcb],
         l \in TrasEstado \cup EnCola => hilo[h].pc \in TrasEstado \cup EnCola
  PROVE  Sitios'
<1>1. /\ hilo'[h].pc = l /\ \A g \in Hilos : g # h => hilo'[g] = hilo[g]
      /\ hilo'[h].pcb = hilo[h].pcb
           \/ (hilo'[h].pcb = NULO /\ l \notin EnPlan \cup EnFin \cup EnCola \cup {"libera"})
  <2>1. HiloOK /\ hilo[h].pcb \in Procesos \cup {NULO}
    BY DEF Formas, Estructura, HiloOK
  <2> QED
    BY <2>1, AlSeguir, AlIr
<1>2. NuevosNew'
  BY DEF Sitios, NuevosNew
<1> QED
  BY <1>1, <1>2, SitiosSigue

LEMMA SitiosAgregar ==
  ASSUME Formas, Sitios, NEW h \in Hilos, AgregarAReady(h), UNCHANGED fin_por_consola
  PROVE  Sitios'
<1>1. CASE MiraExec(h) \/ Compara(h)
  <2>1. PICK l \in {"encola", "compara"} : Sigue(h, l)
    BY <1>1 DEF MiraExec, Compara
  <2>2. /\ hilo[h].pc \in {"mira_exec", "compara"}
        /\ UNCHANGED <<plani_new, plani_ready, plani_exit, pid_global, total_pcbs, estado, params>>
    BY <1>1 DEF MiraExec, Compara, En, colas, pcbs
  <2>3. {"mira_exec", "compara", "encola"} \subseteq EnPlan \cap Puntos
    BY DEF EnPlan, EnMano, Puntos
  <2> QED
    BY <2>1, <2>2, <2>3, Clases, SitiosMueve
<1>2. CASE Lista(h)
  <2>1. PICK l \in {"espera_new", "espera_ready", "libre"} : Va(h, l, NULO)
    BY <1>2 DEF Lista
  <2>2. /\ hilo[h].pc = "lista"
        /\ UNCHANGED <<plani_new, plani_ready, plani_exit, pid_global, total_pcbs, estado, params>>
    BY <1>2 DEF Lista, En, colas, pcbs
  <2>3. l \in Puntos /\ l \notin EnPlan \cup EnFin \cup EnCola \cup {"libera"}
    BY DEF EnPlan, EnMano, EnFin, EnSalida, EnCola, Puntos, EnEspera
  <2>4. "lista" \in EnCola
    BY DEF EnCola
  <2> QED
    BY <2>1, <2>2, <2>3, <2>4, Clases, SitiosMueve
<1>3. CASE Marca(h)
  <2>1. /\ hilo[h].pc = "marca" /\ Sigue(h, "lista")
        /\ UNCHANGED <<plani_new, plani_ready, plani_exit, pid_global, total_pcbs, params>>
    BY <1>3 DEF Marca, En, colas
  <2>2. "marca" \in EnCola /\ "lista" \in EnCola /\ "lista" \in Puntos
    BY DEF EnCola, Puntos
  <2>3. /\ hilo'[h].pc = "lista" /\ hilo'[h].pcb = hilo[h].pcb
        /\ \A g \in Hilos : g # h => hilo'[g] = hilo[g]
    BY <2>1, <2>2, AlSeguir DEF Formas, Estructura
  <2>4. PICK p \in Procesos : p = hilo[h].pcb
    BY <2>1, <2>2 DEF Formas, Estructura, PcbOK
  <2>5. \A x \in Procesos : /\ x # p => estado'[x] = estado[x]
                            /\ estado'[x] = "FIN" => estado[x] = "FIN"
    BY <1>3, <2>4 DEF Marca, Pcb, Formas, Estructura, PcbsOK
  <2>6. NuevosNew'
    <3>1. p \notin ToSet(plani_new)
      BY <2>1, <2>2, <2>4 DEF Sitios, TrasNew
    <3>2. ToSet(plani_new) \subseteq Procesos
      BY ConstantesOK DEF Sitios, ColasFin, EnColas, Creados, Procesos, Formas, Estructura, PcbsOK
    <3> QED
      BY <2>1, <2>5, <3>1, <3>2 DEF Sitios, NuevosNew
  <2>7. /\ hilo'[h].pc \notin EnPlan \cup EnFin \cup EnSalida \cup {"libera", "lee_params"}
        /\ hilo[h].pc \notin EnPlan \cup EnFin \cup {"libera", "lee_params"}
    BY <2>1, <2>2, <2>3, Clases
  <2> QED
    BY <2>1, <2>2, <2>3, <2>5, <2>6, <2>7, SitiosSigue
<1> QED
  BY <1>1, <1>2, <1>3, SitiosEncola DEF AgregarAReady

LEMMA SitiosLargo ==
  ASSUME Formas, Sitios, Largo, UNCHANGED fin_por_consola
  PROVE  Sitios'
<1>0. "largo" \in Hilos
  BY DEF Hilos
<1>1. CASE LargoEsperaNew \/ LargoEsperaMulti \/ LargoCompuerta
  <2>1. PICK l \in {"espera_multi", "bloqueado", "compuerta", "saca_new"} : Sigue("largo", l)
    BY <1>1 DEF LargoEsperaNew, LargoEsperaMulti, LargoCompuerta
  <2>2. /\ hilo["largo"].pc \in {"espera_new", "espera_multi", "bloqueado", "compuerta"}
        /\ UNCHANGED <<plani_new, plani_ready, plani_exit, pid_global, total_pcbs, estado, params>>
    BY <1>1 DEF LargoEsperaNew, LargoEsperaMulti, LargoCompuerta, En, colas, pcbs
  <2>3. /\ {"espera_new", "espera_multi", "bloqueado", "compuerta", "saca_new"} \subseteq Puntos
        /\ {"espera_new", "espera_multi", "bloqueado", "compuerta", "saca_new"}
             \cap (EnPlan \cup EnFin \cup EnSalida \cup TrasEstado \cup EnCola) = {}
    BY DEF EnPlan, EnMano, EnFin, EnSalida, TrasEstado, EnCola, Puntos, EnEspera
  <2> QED
    BY <1>0, <2>1, <2>2, <2>3, SitiosMueve
<1>2. CASE LargoSaca
  <2>0. UNCHANGED <<plani_ready, plani_exit, pid_global, total_pcbs, estado, params>>
    BY <1>2 DEF LargoSaca, pcbs
  <2>1. CASE plani_new = <<>>
    BY <1>2, <2>0, <2>1, SitiosQuieto DEF LargoSaca
  <2>2. CASE plani_new # <<>>
    <3>1. /\ hilo["largo"].pc = "saca_new" /\ plani_new' = Tail(plani_new)
          /\ Va("largo", EntradaReady, Head(plani_new))
      BY <1>2, <2>2 DEF LargoSaca, En
    <3>2. plani_new \in Seq(Procesos) /\ IsInjective(plani_new)
      BY DEF Formas, Estructura, ColasOK, Sitios, ColasFin
    <3>3. PICK p \in Procesos : p = Head(plani_new)
      BY <2>2, <3>2, EnCabeza
    <3>4. /\ ToSet(plani_new) = ToSet(plani_new') \cup {p}
          /\ IsInjective(plani_new') /\ p \notin ToSet(plani_new')
      BY <2>2, <3>1, <3>2, <3>3, EnCabeza
    <3>5. /\ hilo'["largo"].pc = EntradaReady /\ hilo'["largo"].pcb = p
          /\ \A g \in Hilos : g # "largo" => hilo'[g] = hilo[g]
      BY <1>0, <3>1, <3>3, AlIr, EntradaLugar DEF Formas, Estructura
    <3>6. Vacio("saca_new") /\ EntradaReady \in EnPlan
      BY EntradaLugar DEF Vacio, EnPlan, EnMano, EnFin, EnSalida
    <3>7. /\ p \in EnColas /\ p \notin EnColas' /\ EnColas \subseteq EnColas' \cup {p}
          /\ IsInjective(plani_ready')
      BY <2>0, <3>4 DEF Sitios, ColasFin, EnColas
    <3> QED
      BY <1>0, <2>0, <3>1, <3>4, <3>5, <3>6, <3>7, SitiosToma
  <2> QED
    BY <2>1, <2>2
<1> QED
  BY <1>1, <1>2 DEF Largo

LEMMA SitiosElige ==
  ASSUME Formas, Sitios, CortoElige, UNCHANGED fin_por_consola
  PROVE  Sitios'
<1>0. /\ "corto" \in Hilos /\ hilo["corto"].pc = "elige"
      /\ UNCHANGED <<plani_new, plani_exit, pid_global, total_pcbs, estado, params>>
  BY DEF Hilos, CortoElige, En, pcbs
<1>1. CASE plani_ready = <<>>
  <2>1. Sigue("corto", "espera_ready") /\ UNCHANGED plani_ready
    BY <1>1 DEF CortoElige
  <2>2. /\ {"elige", "espera_ready"} \cap (EnPlan \cup EnFin \cup EnSalida \cup TrasEstado
                                             \cup EnCola) = {}
        /\ "espera_ready" \in Puntos
    BY DEF EnPlan, EnMano, EnFin, EnSalida, TrasEstado, EnCola, Puntos, EnEspera
  <2> QED
    BY <1>0, <2>1, <2>2, SitiosMueve
<1>2. CASE plani_ready # <<>>
  <2>1. PICK i \in DOMAIN plani_ready : /\ plani_ready' = RemoveAt(plani_ready, i)
                                        /\ Va("corto", "agrega_exec", plani_ready[i])
    BY <1>2 DEF CortoElige
  <2>2. plani_ready \in Seq(Procesos) /\ IsInjective(plani_ready)
    BY DEF Formas, Estructura, ColasOK, Sitios, ColasFin
  <2>3. PICK p \in Procesos : p = plani_ready[i]
    BY <2>2
  <2>4. /\ ToSet(plani_ready) = ToSet(plani_ready') \cup {p}
        /\ IsInjective(plani_ready') /\ p \notin ToSet(plani_ready')
    BY <2>1, <2>2, <2>3, AlQuitar
  <2>5. /\ "agrega_exec" \in Puntos /\ "agrega_exec" \in EnPlan /\ Vacio("elige")
    BY DEF Puntos, Vacio, EnPlan, EnMano, EnFin, EnSalida
  <2>6. /\ hilo'["corto"].pc = "agrega_exec" /\ hilo'["corto"].pcb = p
        /\ \A g \in Hilos : g # "corto" => hilo'[g] = hilo[g]
    BY <1>0, <2>1, <2>3, <2>5, AlIr DEF Formas, Estructura
  <2>7. /\ p \in EnColas /\ p \notin EnColas' /\ EnColas \subseteq EnColas' \cup {p}
        /\ IsInjective(plani_new')
    BY <1>0, <2>4 DEF Sitios, ColasFin, EnColas
  <2> QED
    BY <1>0, <2>4, <2>5, <2>6, <2>7, SitiosToma
<1> QED
  BY <1>1, <1>2

LEMMA SitiosCorto ==
  ASSUME Formas, Sitios, CortoSimple \/ (CortoPageFault /\ PfSinLeer = {}),
         UNCHANGED fin_por_consola
  PROVE  Sitios'
<1>0. /\ "corto" \in Hilos
      /\ HiloOK /\ PcbOK /\ ExecOK /\ estado \in [Procesos -> Estados]
  BY DEF Hilos, Formas, Estructura, PcbsOK
<1> DEFINE Mano == {"agrega_exec", "despacha", "espera_cpu", "atiende", "redespacha", "bloquea"}
           Nada == {"espera_ready", "espera_ejecutar", "elige"}
<1>1. /\ Mano \subseteq EnPlan \cap Puntos /\ EntradaReady \in EnPlan \cap Puntos
      /\ Nada \subseteq Puntos
      /\ Nada \cap (EnPlan \cup EnFin \cup EnSalida \cup TrasEstado \cup EnCola) = {}
  BY EntradaLugar
     DEF EnPlan, EnMano, EnFin, EnSalida, TrasEstado, EnCola, Puntos, EnEspera
<1>2. ASSUME hilo["corto"].pc \in Mano PROVE hilo["corto"].pcb \in Procesos
  BY <1>0, <1>1, <1>2 DEF PcbOK, EnPlan
<1>3. CASE CortoEsperaReady \/ CortoEsperaEjecutar
  <2>1. /\ UNCHANGED <<plani_new, plani_ready, plani_exit, pid_global, total_pcbs, estado, params>>
        /\ hilo["corto"].pc \in Nada /\ \E l \in Nada : Sigue("corto", l)
    BY <1>3 DEF CortoEsperaReady, CortoEsperaEjecutar, En, colas, pcbs
  <2>2. "libera" \notin Nada /\ "lee_params" \notin Nada
    OBVIOUS
  <2> HIDE DEF Nada
  <2> QED
    BY <1>0, <1>1, <2>1, <2>2, SitiosMueve
<1>4. ASSUME UNCHANGED <<plani_new, plani_ready, plani_exit, pid_global, total_pcbs, estado, params>>,
             hilo["corto"].pc \in Mano,
             NEW l \in Mano \cup {EntradaReady},
             Sigue("corto", l) \/ Va("corto", l, hilo["corto"].pcb)
      PROVE  Sitios'
  <2>1. l \in EnPlan /\ l \in Puntos /\ hilo["corto"].pc \in EnPlan
    BY <1>1, <1>4
  <2> HIDE DEF Mano
  <2> QED
    BY <1>0, <1>4, <2>1, Clases, SitiosMueve
<1>5. CASE CortoAgregaExec \/ CortoRecibe \/ CortoContinua
  BY <1>4, <1>5 DEF CortoAgregaExec, CortoRecibe, CortoContinua, Atiende, En, colas, pcbs
<1>6. CASE CortoRedespacha \/ CortoSacaExec
  <2>1. plani_exec = <<hilo["corto"].pcb>> /\ hilo["corto"].pc \in Mano
    BY <1>0, <1>6 DEF CortoRedespacha, CortoSacaExec, Atiende, En, ExecOK, EnDespacho
  <2>2. plani_exec # <<>> /\ Head(plani_exec) = hilo["corto"].pcb
    BY <2>1
  <2>3. /\ UNCHANGED <<plani_new, plani_ready, plani_exit, pid_global, total_pcbs, estado, params>>
        /\ \E l \in Mano : Va("corto", l, hilo["corto"].pcb)
    BY <1>6, <2>2 DEF CortoRedespacha, CortoSacaExec, Envia, colas, pcbs
  <2> HIDE DEF Mano
  <2> QED
    BY <1>4, <2>1, <2>3
<1>7. CASE CortoDesaloja
  <2>1. /\ UNCHANGED <<plani_new, plani_ready, plani_exit, pid_global, total_pcbs, estado, params>>
        /\ hilo["corto"].pc \in Mano
    BY <1>7 DEF CortoDesaloja, Atiende, En, colas, pcbs
  <2>2. PICK p \in Procesos : p = hilo["corto"].pcb
    BY <1>2, <2>1
  <2>3. CASE estado[p] # "FIN"
    <3>1. Sigue("corto", EntradaReady)
      BY <1>7, <2>2, <2>3 DEF CortoDesaloja, Pcb
    <3> QED
      BY <1>4, <2>1, <3>1
  <2>4. CASE estado[p] = "FIN"
    <3>1. Sigue("corto", "espera_ready")
      BY <1>7, <2>2, <2>4 DEF CortoDesaloja, Pcb
    <3>2. /\ hilo'["corto"].pc = "espera_ready" /\ hilo'["corto"].pcb = p
          /\ \A g \in Hilos : g # "corto" => hilo'[g] = hilo[g]
      BY <1>0, <1>1, <2>2, <3>1, AlSeguir
    <3>3. Vacio("espera_ready") /\ "espera_ready" \notin EnCola
      BY <1>1 DEF Vacio
    <3>4. hilo["corto"].pc \in EnPlan
      BY <1>1, <2>1
    <3> HIDE DEF Mano, Nada
    <3> QED
      BY <1>0, <2>1, <2>2, <2>4, <3>2, <3>3, <3>4, SitiosDeja
  <2> QED
    BY <2>3, <2>4
<1>8. CASE CortoDespacha
  <2>1. /\ UNCHANGED <<plani_new, plani_ready, plani_exit, pid_global, total_pcbs, params>>
        /\ hilo["corto"].pc = "despacha" /\ Va("corto", "espera_cpu", hilo["corto"].pcb)
        /\ estado' = [estado EXCEPT ![hilo["corto"].pcb] = "EXEC"]
    BY <1>8 DEF CortoDespacha, Envia, En, Pcb, colas
  <2>2. PICK p \in Procesos : p = hilo["corto"].pcb
    BY <1>2, <2>1
  <2>3. /\ hilo'["corto"].pc = "espera_cpu" /\ hilo'["corto"].pcb = p
        /\ \A g \in Hilos : g # "corto" => hilo'[g] = hilo[g]
    BY <1>0, <1>1, <2>1, <2>2, AlIr
  <2>4. "despacha" \in EnPlan /\ "espera_cpu" \in EnPlan
    BY <1>1
  <2>5. \A x \in Procesos : /\ x # p => estado'[x] = estado[x]
                            /\ estado'[x] = "FIN" => estado[x] = "FIN"
    BY <1>0, <2>1, <2>2
  <2>6. NuevosNew'
    <3>1. Lleva("corto", p)
      BY <2>1, <2>2, <2>4 DEF Lleva, Cosa
    <3>2. p \notin ToSet(plani_new)
      BY <1>0, <3>1 DEF Sitios, Llevados, EnColas
    <3>3. ToSet(plani_new) \subseteq Procesos
      BY ConstantesOK DEF Sitios, ColasFin, EnColas, Creados, Procesos, Formas, Estructura, PcbsOK
    <3> QED
      BY <2>1, <2>5, <3>2, <3>3 DEF Sitios, NuevosNew
  <2>7. "espera_cpu" \notin EnFin \cup EnSalida \cup TrasEstado \cup EnCola /\ "despacha" \notin EnFin
    BY <2>4, Clases
  <2> QED
    BY <1>0, <2>1, <2>2, <2>3, <2>4, <2>5, <2>6, <2>7, SitiosSigue
<1>9. CASE CortoFinaliza \/ CortoDuerme \/ CortoPideFS \/ CortoPageFault
  <2>1. /\ UNCHANGED <<plani_new, plani_ready, plani_exit, pid_global, total_pcbs>>
        /\ hilo["corto"].pc \in Mano
    BY <1>9 DEF CortoFinaliza, CortoDuerme, CortoPideFS, CortoPageFault, Bloquea, Atiende, En, colas
  <2>2. PICK p \in Procesos : p = hilo["corto"].pcb
    BY <1>2, <2>1
  <2>3. hilo["corto"].pc \in EnPlan
    BY <1>1, <2>1
  <2>4. \A x \in Procesos : x # p => estado'[x] = estado[x]
    BY <1>0, <1>9, <2>2
       DEF CortoFinaliza, CortoDuerme, CortoPideFS, CortoPageFault, Bloquea, Pcb
  <2> HIDE DEF Mano, Nada
  <2>5. CASE CortoFinaliza
    <3>1. Lanza("sale", p) /\ UNCHANGED params
      BY <2>2, <2>5 DEF CortoFinaliza, Pcb
    <3>2. \A x \in Procesos : estado'[x] = "FIN" => estado[x] = "FIN" \/ x = p
      BY <2>4
    <3> QED
      BY <2>1, <2>2, <2>3, <2>4, <3>1, <3>2, SitiosLanza
  <2>6. CASE CortoDuerme \/ CortoPideFS \/ CortoPageFault
    <3>1. \A x \in Procesos : estado'[x] = "FIN" => estado[x] = "FIN"
      BY <1>0, <2>2, <2>4, <2>6 DEF CortoDuerme, CortoPideFS, CortoPageFault, Bloquea, Pcb
    <3>2. CASE CortoDuerme \/ CortoPideFS
      <4>1. Lanza("espera", p) /\ UNCHANGED params
        BY <2>2, <3>2 DEF CortoDuerme, CortoPideFS, Pcb
      <4> QED
        BY <2>1, <2>2, <2>3, <2>4, <3>1, <4>1, SitiosLanza
    <3>3. CASE CortoPageFault
      <4>1. Lanza("lee_params", NULO) /\ params' = p /\ PfSinLeer = {}
        <5>1. ~CortoSimple
          BY <3>3, ConstantesOK DEF CortoPageFault, CortoSimple, CortoEsperaReady,
             CortoEsperaEjecutar, CortoElige, CortoAgregaExec, CortoDespacha, CortoRedespacha,
             CortoRecibe, CortoFinaliza, CortoSacaExec, CortoDuerme, CortoPideFS, CortoContinua,
             CortoDesaloja, Atiende, En
        <5> QED
          BY <2>2, <3>3, <5>1 DEF CortoPageFault, Pcb
      <4> QED
        BY <2>1, <2>2, <2>3, <2>4, <3>1, <4>1, SitiosLanza
    <3> QED
      BY <2>6, <3>2, <3>3
  <2> QED
    BY <1>9, <2>5, <2>6
<1> QED
  BY <1>3, <1>5, <1>6, <1>7, <1>8, <1>9, SitiosElige DEF CortoSimple

LEMMA SitiosAuxiliar ==
  ASSUME Formas, Sitios, NEW h \in Auxiliares, UNCHANGED fin_por_consola,
         \/ SaleDeBlock(h) \/ LeeParams(h) \/ ResuelvePf(h) \/ Libera(h)
         \/ SaleDelSistema(h) /\ ~fin_por_consola[Pcb(h)]
  PROVE  Sitios'
<1>0. h \in Hilos /\ HiloOK /\ PcbOK
  BY DEF Hilos, Formas, Estructura
<1>1. CASE SaleDeBlock(h) \/ ResuelvePf(h)
  <2>1. /\ UNCHANGED <<plani_new, plani_ready, plani_exit, pid_global, total_pcbs, estado, params>>
        /\ hilo[h].pc \in {"espera", "pide_pagina"} /\ Sigue(h, EntradaReady)
    BY <1>1 DEF SaleDeBlock, ResuelvePf, En, pcbs
  <2>2. /\ {"espera", "pide_pagina"} \subseteq EnPlan
        /\ EntradaReady \in EnPlan /\ EntradaReady \in Puntos
    BY EntradaLugar DEF EnPlan, EnMano
  <2> QED
    BY <1>0, <2>1, <2>2, Clases, SitiosMueve
<1>2. CASE LeeParams(h)
  <2>0. /\ UNCHANGED <<plani_new, plani_ready, plani_exit, pid_global, total_pcbs, estado, params>>
        /\ hilo[h].pc = "lee_params"
    BY <1>2 DEF LeeParams, En, colas, pcbs
  <2>1. CASE UNCHANGED hilo
    BY <2>0, <2>1, SitiosQuieto
  <2>2. CASE params \in total_pcbs /\ Va(h, "pide_pagina", params)
    <3>1. /\ total_pcbs \subseteq Creados /\ Creados \subseteq Procesos /\ Creados' = Creados
          /\ params \in Procesos
      BY <2>0, <2>2, ConstantesOK DEF Formas, Estructura, PcbsOK, Creados, Procesos
    <3>2. "pide_pagina" \in EnPlan /\ "pide_pagina" \in Puntos
      BY DEF EnPlan, EnMano, Puntos
    <3>3. /\ hilo'[h].pc = "pide_pagina" /\ hilo'[h].pcb = params
          /\ \A g \in Hilos : g # h => hilo'[g] = hilo[g]
      BY <1>0, <2>2, <3>1, <3>2, AlIr
    <3>4. \A g \in Hilos, x \in Procesos : g # h =>
             /\ Lleva(g, x)' <=> Lleva(g, x)
             /\ Acaba(g, x)' <=> Acaba(g, x)
             /\ Suelta(g, x)' <=> Suelta(g, x)
      BY <2>0, <3>3, Ajenas
    <3>5. \A x \in Procesos : /\ Lleva(h, x)' <=> Lleva(h, x)
                              /\ Acaba(h, x)' <=> Acaba(h, x)
                              /\ Suelta(h, x)' <=> Suelta(h, x)
      BY <2>0, <3>2, <3>3, Clases DEF Lleva, Acaba, Suelta, Cosa
    <3>6. Propios' /\ NuevosNew'
      BY <2>0, <2>2, <3>1, <3>3 DEF Sitios, Propios, NuevosNew
    <3>7. TrasNew' /\ SalidaFin'
      BY <2>0, <3>2, <3>3, Clases DEF Sitios, TrasNew, SalidaFin
    <3> QED
      BY <2>0, <3>1, <3>4, <3>5, <3>6, <3>7, SitiosMarco
  <2> QED
    BY <1>2, <2>1, <2>2 DEF LeeParams
<1>3. CASE SaleDelSistema(h) /\ ~fin_por_consola[Pcb(h)]
  <2>1. /\ UNCHANGED <<plani_new, plani_ready, pid_global, total_pcbs, estado, params>>
        /\ hilo[h].pc = "sale" /\ Sigue(h, "libera")
        /\ plani_exit' = plani_exit \cup {hilo[h].pcb} /\ ~fin_por_consola[hilo[h].pcb]
    BY <1>3 DEF SaleDelSistema, En, Pcb, pcbs
  <2>2. hilo[h].pcb \in Procesos
    BY <1>0, <2>1 DEF PcbOK, EnMano
  <2> QED
    BY <2>1, <2>2, SitiosExit
<1> QED
  BY <1>1, <1>2, <1>3, SitiosLibera

LEMMA SitiosMata ==
  ASSUME Formas, Sitios, NEW h \in Auxiliares, Mata(h)
  PROVE  Sitios'
<1>0. h \in Hilos /\ HiloOK /\ PcbOK /\ PcbFin
  BY DEF Hilos, Formas, Estructura
<1>1. ASSUME UNCHANGED <<plani_new, plani_ready, plani_exit, pid_global, total_pcbs, estado,
                         params, fin_por_consola>>,
             hilo[h].pc \in {"sale"} \cup EnSalida, NEW l \in EnSalida, Sigue(h, l),
             l \in TrasEstado => hilo[h].pc \in TrasEstado, fin_por_consola[hilo[h].pcb]
      PROVE  Sitios'
  <2>1. /\ l \in EnFin /\ hilo[h].pc \in EnFin /\ l \notin EnPlan \cup {"libera", "lee_params"}
        /\ hilo[h].pc \notin EnPlan \cup {"libera", "lee_params"} /\ l \notin EnCola
    BY <1>1, Clases DEF EnFin
  <2>2. l \in Puntos
    BY <1>1, SalidaEsFin
  <2> QED
    BY <1>0, <1>1, <2>1, <2>2, SitiosMueve
<1>2. ASSUME hilo[h].pc \in EnSalida PROVE fin_por_consola[hilo[h].pcb]
  BY <1>0, <1>2 DEF Sitios, SalidaFin
<1>3. CASE SaleMuerto(h)
  <2>1. /\ UNCHANGED <<plani_new, plani_ready, plani_exit, pid_global, total_pcbs, estado, params,
                       fin_por_consola>>
        /\ hilo[h].pc = "sale" /\ Sigue(h, "espera_manejo") /\ fin_por_consola[hilo[h].pcb]
    BY <1>3 DEF SaleMuerto, En, Pcb, colas, pcbs
  <2>2. "espera_manejo" \in EnSalida /\ "espera_manejo" \notin TrasEstado
    BY DEF EnSalida, TrasEstado
  <2> QED
    BY <1>1, <2>1, <2>2
<1>4. CASE EsperaManejo(h) \/ MiraGrado(h)
  <2>1. /\ UNCHANGED <<plani_new, plani_ready, plani_exit, pid_global, total_pcbs, estado, params,
                       fin_por_consola>>
        /\ \/ hilo[h].pc = "espera_manejo" /\ Sigue(h, "segun_estado")
           \/ hilo[h].pc = "mira_grado" /\ \E l \in {"devuelve", "agrega_exit"} : Sigue(h, l)
    BY <1>4 DEF EsperaManejo, MiraGrado, En, colas, pcbs, banderas
  <2>2. /\ {"espera_manejo", "segun_estado", "mira_grado", "devuelve", "agrega_exit"}
             \subseteq EnSalida
        /\ "segun_estado" \notin TrasEstado /\ "mira_grado" \in TrasEstado
    BY DEF EnSalida, TrasEstado
  <2> QED
    BY <1>1, <1>2, <2>1, <2>2
<1>5. CASE RecibeContexto(h)
  <2>1. /\ UNCHANGED <<plani_new, plani_ready, plani_exit, pid_global, total_pcbs, estado, params,
                       fin_por_consola>>
        /\ hilo[h].pc = "recibe" /\ (Sigue(h, "termina") \/ UNCHANGED hilo)
    BY <1>5 DEF RecibeContexto, En, colas, pcbs
  <2>2. {"recibe", "termina"} \subseteq EnSalida /\ "recibe" \in TrasEstado
    BY DEF EnSalida, TrasEstado
  <2> QED
    BY <1>1, <1>2, <2>1, <2>2, SitiosQuieto
<1>6. CASE Termina(h)
  <2>1. /\ UNCHANGED <<plani_new, plani_ready, plani_exit, pid_global, total_pcbs, params,
                       fin_por_consola>>
        /\ hilo[h].pc = "termina" /\ \E l \in {"mira_grado", "devuelve"} : Sigue(h, l)
        /\ estado' = [estado EXCEPT ![hilo[h].pcb] = "FIN"]
    BY <1>6 DEF Termina, En, Pcb, colas, banderas
  <2>2. {"termina", "mira_grado", "devuelve"} \subseteq EnSalida \cap TrasEstado \cap Puntos
    BY SalidaEsFin DEF EnSalida, TrasEstado
  <2>3. PICK p \in Procesos : p = hilo[h].pcb
    BY <1>0, <2>1, <2>2 DEF PcbFin
  <2>4. PICK l \in {"mira_grado", "devuelve"} :
          /\ hilo'[h].pc = l /\ hilo'[h].pcb = p
          /\ \A g \in Hilos : g # h => hilo'[g] = hilo[g]
    BY <1>0, <2>1, <2>2, <2>3, AlSeguir
  <2>5. \A x \in Procesos : /\ x # p => estado'[x] = estado[x]
                            /\ estado'[x] = "FIN" => estado[x] = "FIN" \/ x = p
    BY <2>1, <2>3 DEF Formas, Estructura, PcbsOK
  <2>6. Acaba(h, p)
    BY <2>1, <2>2, <2>3, Clases DEF Acaba
  <2>7. NuevosNew'
    <3>1. p \notin ToSet(plani_new)
      BY <1>0, <2>1, <2>2, <2>3 DEF Sitios, TrasNew
    <3>2. ToSet(plani_new) \subseteq Procesos
      BY ConstantesOK DEF Sitios, ColasFin, EnColas, Creados, Procesos, Formas, Estructura, PcbsOK
    <3> QED
      BY <2>1, <2>5, <3>1, <3>2 DEF Sitios, NuevosNew
  <2>8. /\ l \in EnSalida /\ l \in EnFin /\ hilo[h].pc \in EnFin /\ hilo[h].pc \in TrasEstado
        /\ l \notin EnPlan \cup EnCola \cup {"libera", "lee_params"}
        /\ hilo[h].pc \notin EnPlan \cup {"libera", "lee_params"}
    BY <2>1, <2>2, Clases
  <2>9. fin_por_consola[hilo[h].pcb]
    BY <1>2, <2>1, <2>2
  <2> QED
    BY <1>0, <2>1, <2>3, <2>4, <2>5, <2>6, <2>7, <2>8, <2>9, SitiosSigue
<1>7. CASE AgregaExit(h)
  <2>1. /\ UNCHANGED <<plani_new, plani_ready, pid_global, total_pcbs, estado, params,
                       fin_por_consola>>
        /\ hilo[h].pc \in {"devuelve", "agrega_exit"} /\ Sigue(h, "libera")
        /\ plani_exit' = plani_exit \cup {hilo[h].pcb}
    BY <1>7 DEF AgregaExit, En, Pcb, pcbs
  <2>2. {"devuelve", "agrega_exit"} \subseteq EnSalida \cap TrasEstado
    BY DEF EnSalida, TrasEstado
  <2>3. hilo[h].pcb \in Procesos
    BY <1>0, <2>1, <2>2 DEF PcbFin
  <2> QED
    BY <2>1, <2>2, <2>3, SitiosExit
<1>8. CASE AbandonaPf(h)
  <2>1. /\ UNCHANGED <<plani_new, plani_ready, plani_exit, pid_global, total_pcbs, estado, params,
                       fin_por_consola>>
        /\ hilo[h].pc = "pide_pagina" /\ Va(h, "libre", NULO) /\ fin_por_consola[hilo[h].pcb]
    BY <1>8 DEF AbandonaPf, En, Pcb, colas, pcbs, banderas
  <2>2. "pide_pagina" \in EnPlan /\ Vacio("libre") /\ "libre" \notin EnCola /\ "libre" \in Puntos
    BY DEF EnPlan, EnMano, Vacio, EnFin, EnSalida, EnCola, Puntos, EnEspera
  <2>3. PICK p \in Procesos : p = hilo[h].pcb
    BY <1>0, <2>1 DEF PcbOK, EnMano
  <2>4. /\ hilo'[h].pc = "libre" /\ hilo'[h].pcb = NULO
        /\ \A g \in Hilos : g # h => hilo'[g] = hilo[g]
    BY <1>0, <2>1, <2>2, AlIr
  <2> QED
    BY <1>0, <2>1, <2>2, <2>3, <2>4, SitiosDeja
<1> QED
  BY <1>3, <1>4, <1>5, <1>6, <1>7, <1>8, SitiosSegunEstado DEF Mata

LEMMA SitiosPaso == TipoFin /\ Sitios /\ [NextF]_varsF => Sitios'
<1> SUFFICES ASSUME TipoFin, Sitios, [NextF]_varsF PROVE Sitios'
  OBVIOUS
<1>0. Formas /\ BanderasOK
  BY DEF TipoFin
<1>1. CASE UNCHANGED varsF
  <2>1. UNCHANGED <<hilo, params, plani_new, plani_ready, plani_exit, pid_global, total_pcbs,
                    estado, fin_por_consola>>
    BY <1>1 DEF varsF, vars, colas, pcbs, banderas
  <2> QED
    BY <1>0, <2>1, SitiosQuieto
<1>2. CASE Planea
  <2>1. UNCHANGED fin_por_consola
    BY <1>2 DEF Planea
  <2>2. CASE \/ CpuDesaloja \/ \E c \in Servicios : CpuDevuelve(c)
             \/ \E p \in Procesos : VenceQuantum(p)
    <3>1. UNCHANGED <<hilo, params, plani_new, plani_ready, plani_exit, pid_global, total_pcbs,
                      estado>>
      BY <2>2 DEF CpuDesaloja, CpuDevuelve, VenceQuantum, colas, pcbs
    <3> QED
      BY <1>0, <2>1, <3>1, SitiosQuieto
  <2> QED
    BY <1>0, <1>2, <2>1, <2>2, SitiosLargo, SitiosCorto, SitiosAgregar, SitiosAuxiliar,
       SitiosInicia DEF Planea
<1>3. CASE NextF
  BY <1>0, <1>2, <1>3, AlPaso, SitiosMata, SitiosFinaliza
<1> QED
  BY <1>1, <1>3

LEMMA SitiosSiempre == SpecF => [](TipoFin /\ Sitios)
<1>1. InitF => TipoFin /\ Sitios
  BY TipoFinInicial, SitiosInicial
<1>2. TipoFin /\ Sitios /\ [NextF]_varsF => (TipoFin /\ Sitios)'
  BY FormasPaso, BanderasPaso, SitiosPaso DEF TipoFin
<1> QED
  BY <1>1, <1>2, PTL DEF SpecF

\* The places of a queue in which a process is.
LEMMA UnaVez ==
  ASSUME NEW S, NEW s \in Seq(S), IsInjective(s), NEW p
  PROVE  Cardinality({i \in DOMAIN s : s[i] = p}) = IF p \in ToSet(s) THEN 1 ELSE 0
<1>1. CASE p \in ToSet(s)
  <2>1. PICK i \in DOMAIN s : s[i] = p
    BY <1>1 DEF ToSet
  <2>2. {j \in DOMAIN s : s[j] = p} = {i}
    BY <2>1 DEF IsInjective
  <2> QED
    BY <1>1, <2>2, FS_Singleton
<1>2. CASE p \notin ToSet(s)
  <2>1. {j \in DOMAIN s : s[j] = p} = {}
    BY <1>2 DEF ToSet
  <2> QED
    BY <1>2, <2>1, FS_EmptySet
<1> QED
  BY <1>1, <1>2

LEMMA SitiosAjenos == TipoFin /\ Sitios => AjenosIntactos
<1> SUFFICES ASSUME TipoFin, Sitios, NEW p \in total_pcbs, ~fin_por_consola[p]
             PROVE  Lugares(p) = 1
  BY DEF AjenosIntactos
<1>1. p \in Creados /\ p \in Procesos
  BY ConstantesOK DEF TipoFin, Formas, Estructura, PcbsOK, Creados, Procesos
<1> DEFINE N == Cardinality({i \in DOMAIN plani_new : plani_new[i] = p})
           R == Cardinality({i \in DOMAIN plani_ready : plani_ready[i] = p})
           H == {h \in Hilos : \/ Posee(h) /\ Pcb(h) = p
                               \/ En(h, "lee_params") /\ params = p}
<1>2. /\ N = IF p \in ToSet(plani_new) THEN 1 ELSE 0
      /\ R = IF p \in ToSet(plani_ready) THEN 1 ELSE 0
      /\ ~(p \in ToSet(plani_new) /\ p \in ToSet(plani_ready))
  BY UnaVez DEF TipoFin, Formas, Estructura, ColasOK, Sitios, ColasFin
<1>3. ASSUME NEW h \in Hilos
      PROVE  h \in H <=> Lleva(h, p) \/ Acaba(h, p) \/ Suelta(h, p)
  <2>1. hilo[h].pc \in EnSalida /\ hilo[h].pcb = p => FALSE
    BY DEF Sitios, SalidaFin
  <2>2. Acaba(h, p) <=> hilo[h].pc = "sale" /\ hilo[h].pcb = p
    BY <2>1 DEF Acaba, EnFin
  <2>3. h \in H <=> \/ hilo[h].pc \in EnMano /\ hilo[h].pcb = p
                    \/ hilo[h].pc = "lee_params" /\ params = p
    BY DEF Posee, Pcb, En
  <2>4. Lleva(h, p) <=> \/ hilo[h].pc \in EnPlan /\ hilo[h].pcb = p
                        \/ hilo[h].pc = "lee_params" /\ params = p
    BY Clases DEF Lleva, Cosa
  <2> QED
    BY <2>2, <2>3, <2>4, Clases DEF Suelta
<1>4. Lugares(p) = N + R + Cardinality(H)
  BY DEF Lugares
<1>5. H \subseteq Hilos
  OBVIOUS
<1> HIDE DEF N, R, H
<1>6. CASE p \in EnColas
  <2>1. H = {}
    BY <1>1, <1>3, <1>5, <1>6 DEF Sitios, Llevados, Solos
  <2>2. Cardinality(H) = 0
    BY <2>1, FS_EmptySet
  <2>3. N + R = 1
    BY <1>2, <1>6 DEF EnColas
  <2> QED
    BY <1>2, <1>4, <2>2, <2>3
<1>7. CASE p \notin EnColas
  <2>1. PICK h \in Hilos : Lleva(h, p) \/ Acaba(h, p) \/ Suelta(h, p)
    BY <1>1, <1>7 DEF Sitios, Presencia, Soltados
  <2>2. \A g \in Hilos : Lleva(g, p) \/ Acaba(g, p) \/ Suelta(g, p) => g = h
    BY <1>1, <2>1 DEF Sitios, Llevados, Solos
  <2>3. H = {h}
    BY <1>3, <1>5, <2>1, <2>2
  <2>4. Cardinality(H) = 1
    BY <2>3, FS_Singleton
  <2>5. N = 0 /\ R = 0
    BY <1>2, <1>7 DEF EnColas
  <2> QED
    BY <1>4, <2>4, <2>5
<1> QED
  BY <1>6, <1>7

\* Ending a process takes the others nowhere, page faults included: one the console has not
\* ended is in exactly one queue or in the hands of exactly one thread, for any number of
\* processes, threads and commands.
THEOREM AjenosTeorema == SpecF => []AjenosIntactos
BY SitiosSiempre, SitiosAjenos, PTL

-----------------------------------------------------------------------------
(* The multiprogramming degree, whatever the console ends *)

Gente    == EnPlan \cup EnFin \cup {"lee_params"}
ConGente == {h \in Hilos : hilo[h].pc \in Gente}
Marcados == {p \in Procesos : fin_por_consola[p]}
FinExit  == {p \in plani_exit : fin_por_consola[p]}
Libre    == sem["multiprog_disponible"] + Uno(hilo["largo"].pc \in ConPermiso)

\* A thread with a process on its way, and a process in READY, use a place each: a command adds
\* one thread at most.
Arriba ==
  Libre + Cardinality(ToSet(plani_ready)) + Cardinality(ConGente) <= multiprogramacion + muertes

\* A place is lost only when a process ended by the console goes to plani_exit.
Abajo ==
  /\ Libre + Cardinality(Admitidos) + Cardinality(FinExit) >= multiprogramacion
  /\ Cardinality(Marcados) <= muertes

Cuentas == Arriba /\ Abajo

Enteros ==
  /\ IsFiniteSet(ToSet(plani_ready)) /\ Cardinality(ToSet(plani_ready)) \in Nat
  /\ IsFiniteSet(ConGente) /\ Cardinality(ConGente) \in Nat
  /\ IsFiniteSet(Admitidos) /\ Cardinality(Admitidos) \in Nat
  /\ IsFiniteSet(FinExit) /\ Cardinality(FinExit) \in Nat
  /\ IsFiniteSet(Marcados) /\ Cardinality(Marcados) \in Nat
  /\ Libre \in Nat /\ sem["multiprog_disponible"] \in Nat
  /\ multiprogramacion \in Nat /\ muertes \in Nat

LEMMA CuentasEnteras == TipoFin => Enteros
<1> SUFFICES ASSUME TipoFin PROVE Enteros
  OBVIOUS
<1>1. Formas /\ BanderasOK
  BY DEF TipoFin
<1>2. IsFiniteSet(Procesos)
  BY ConstantesOK, FS_Interval DEF Procesos
<1>3. IsFiniteSet(ToSet(plani_ready)) /\ Cardinality(ToSet(plani_ready)) \in Nat
  <2>1. ToSet(plani_ready) \subseteq Procesos
    BY <1>1 DEF Formas, Estructura, ColasOK, ToSet
  <2> QED
    BY <1>2, <2>1, FS_Subset, FS_CardinalityType
<1>4. IsFiniteSet(ConGente) /\ Cardinality(ConGente) \in Nat
  BY HilosFinitos, FS_Subset, FS_CardinalityType DEF ConGente
<1>5. IsFiniteSet(Admitidos) /\ Cardinality(Admitidos) \in Nat
  BY <1>1, AdmitidosFinito DEF Formas, Estructura
<1>6. IsFiniteSet(FinExit) /\ Cardinality(FinExit) \in Nat
  <2>1. FinExit \subseteq Procesos
    BY <1>1 DEF Formas, Estructura, ColasOK, FinExit
  <2> QED
    BY <1>2, <2>1, FS_Subset, FS_CardinalityType
<1>7. IsFiniteSet(Marcados) /\ Cardinality(Marcados) \in Nat
  BY <1>2, FS_Subset, FS_CardinalityType DEF Marcados
<1>8. Libre \in Nat /\ sem["multiprog_disponible"] \in Nat
  BY <1>1 DEF Formas, Estructura, SemOK, Semaforos, Libre, Uno
<1>9. multiprogramacion \in Nat /\ muertes \in Nat
  BY <1>1, MuertesOK DEF Formas, Estructura, RestoOK, BanderasOK
<1> QED
  BY <1>3, <1>4, <1>5, <1>6, <1>7, <1>8, <1>9 DEF Enteros

LEMMA CuentasEnterasPrima == TipoFin' => Enteros'
BY CuentasEnteras, PTL

\* What the invariant gives: with Presencia, an admitted process is in READY or in the hands of
\* a thread.
LEMMA AdmitidosCuenta ==
  ASSUME TipoFin, Sitios
  PROVE  Cardinality(Admitidos) <= Cardinality(ToSet(plani_ready)) + Cardinality(ConGente)
<1>0. Enteros /\ Creados \subseteq Procesos
  BY CuentasEnteras, ConstantesOK DEF TipoFin, Formas, Estructura, PcbsOK, Creados, Procesos
<1> DEFINE f == [h \in ConGente |-> Cosa(h)]
           T == {f[h] : h \in ConGente}
           R == ToSet(plani_ready)
<1>1. f \in Surjection(ConGente, T)
  BY DEF Surjection
<1> HIDE DEF f
<1>2. IsFiniteSet(T) /\ Cardinality(T) <= Cardinality(ConGente) /\ Cardinality(T) \in Nat
  BY <1>0, <1>1, FS_Surjection, FS_CardinalityType DEF Enteros
<1>3. Admitidos \subseteq R \cup T
  <2> SUFFICES ASSUME NEW p \in Admitidos, p \notin R PROVE p \in T
    OBVIOUS
  <2>1. p \in Procesos /\ p \in Creados /\ p \notin EnColas \cup plani_exit
    BY <1>0 DEF Admitidos, EnColas
  <2>2. PICK h \in Hilos : Lleva(h, p) \/ Acaba(h, p)
    BY <2>1 DEF Sitios, Presencia
  <2>3. h \in ConGente /\ Cosa(h) = p
    BY <2>2, Clases DEF Lleva, Acaba, Cosa, ConGente, Gente
  <2> QED
    BY <2>3 DEF f
<1> HIDE DEF T, R
<1>4. IsFiniteSet(R \cup T) /\ Cardinality(R \cup T) <= Cardinality(R) + Cardinality(T)
  <2>1. IsFiniteSet(R) /\ Cardinality(R) \in Nat
    BY <1>0 DEF Enteros, R
  <2>2. IsFiniteSet(R \cup T) /\ IsFiniteSet(R \cap T)
    BY <1>2, <2>1, FS_Union, FS_Intersection
  <2>3. Cardinality(R \cup T) = Cardinality(R) + Cardinality(T) - Cardinality(R \cap T)
    BY <1>2, <2>1, FS_Union
  <2>4. Cardinality(R \cap T) \in Nat
    BY <2>2, FS_CardinalityType
  <2> QED
    BY <1>2, <2>1, <2>2, <2>3, <2>4
<1>5. Cardinality(Admitidos) <= Cardinality(R \cup T)
  BY <1>3, <1>4, FS_Subset
<1>6. Cardinality(R) \in Nat /\ Cardinality(R \cup T) \in Nat
  BY <1>0, <1>4, FS_CardinalityType DEF Enteros, R
<1> QED
  BY <1>0, <1>2, <1>4, <1>5, <1>6 DEF Enteros, R

LEMMA CuentasGrado == TipoFin /\ Sitios /\ Cuentas => GradoConMuertes
<1> SUFFICES ASSUME TipoFin, Sitios, Cuentas PROVE GradoConMuertes
  OBVIOUS
<1>1. Enteros
  BY CuentasEnteras
<1>2. Plazas = Libre + Cardinality(Admitidos)
  BY <1>1 DEF Plazas, Libre, Uno, ConPermiso, Enteros
<1>3. Cardinality(Admitidos) <= Cardinality(ToSet(plani_ready)) + Cardinality(ConGente)
  BY AdmitidosCuenta
<1>4. Cardinality(FinExit) <= Cardinality(Marcados)
  <2>1. FinExit \subseteq Marcados
    BY DEF FinExit, Marcados, TipoFin, Formas, Estructura, ColasOK
  <2> QED
    BY <1>1, <2>1, FS_Subset DEF Enteros
<1>5. Plazas <= multiprogramacion + muertes
  BY <1>1, <1>2, <1>3 DEF Enteros, Cuentas, Arriba
<1>6. Plazas >= multiprogramacion - muertes
  BY <1>1, <1>2, <1>4 DEF Enteros, Cuentas, Abajo
<1> QED
  BY <1>5, <1>6 DEF GradoConMuertes

LEMMA CuentasInicial == InitF => Cuentas
<1> SUFFICES ASSUME InitF PROVE Cuentas
  OBVIOUS
<1>1. /\ plani_ready = <<>> /\ plani_exit = {} /\ muertes = 0 /\ multiprogramacion = GradoInicial
      /\ GradoInicial \in Nat
  BY ConstantesOK DEF InitF, Init
<1>2. ToSet(plani_ready) = {} /\ FinExit = {} /\ Marcados = {} /\ Admitidos = {}
  BY <1>1 DEF ToSet, FinExit, Marcados, Admitidos, Creados, InitF, Init
<1>3. ConGente = {}
  <2>1. \A h \in Hilos : hilo[h].pc \in {"espera_new", "espera_ready", "libre"}
    BY DEF InitF, Init
  <2>2. {"espera_new", "espera_ready", "libre"} \cap Gente = {}
    BY DEF Gente, EnPlan, EnMano, EnFin, EnSalida
  <2> QED
    BY <2>1, <2>2 DEF ConGente
<1>4. Libre = GradoInicial
  <2>1. "multiprog_disponible" \in Semaforos \ Compuertas
    BY DEF Semaforos, Compuertas
  <2>2. sem["multiprog_disponible"] = CASE TRUE -> GradoInicial
                                       [] FALSE -> 1
                                       [] OTHER -> 0
    BY <2>1 DEF InitF, Init
  <2>3. hilo["largo"].pc = "espera_new"
    BY DEF InitF, Init, Hilos
  <2> QED
    BY <1>1, <2>2, <2>3 DEF Libre, Uno, ConPermiso
<1>5. /\ Cardinality(ToSet(plani_ready)) = 0 /\ Cardinality(FinExit) = 0
      /\ Cardinality(Marcados) = 0 /\ Cardinality(Admitidos) = 0 /\ Cardinality(ConGente) = 0
  BY <1>2, <1>3, FS_EmptySet
<1> QED
  BY <1>1, <1>4, <1>5 DEF Cuentas, Arriba, Abajo

\* d places more are free, or in the hands of the long-term planner.
LEMMA CuentasDelta ==
  ASSUME Cuentas, Enteros, Enteros', UNCHANGED multiprogramacion, NEW d \in Int, Libre' = Libre + d,
         Cardinality(ToSet(plani_ready')) + Cardinality(ConGente') + d + muertes
           <= Cardinality(ToSet(plani_ready)) + Cardinality(ConGente) + muertes',
         Cardinality(Admitidos') + Cardinality(FinExit') + d
           >= Cardinality(Admitidos) + Cardinality(FinExit),
         Cardinality(Marcados') + muertes <= Cardinality(Marcados) + muertes'
  PROVE  Cuentas'
BY DEF Cuentas, Enteros, Arriba, Abajo

\* A step that takes no place and gives none back.
LEMMA CuentasMarco ==
  ASSUME Cuentas, Enteros, Enteros', UNCHANGED <<multiprogramacion, muertes>>, Libre' = Libre,
         ToSet(plani_ready') \subseteq ToSet(plani_ready), ConGente' \subseteq ConGente,
         Admitidos \subseteq Admitidos', UNCHANGED <<plani_exit, fin_por_consola>>
  PROVE  Cuentas'
<1>1. /\ Cardinality(ToSet(plani_ready')) <= Cardinality(ToSet(plani_ready))
      /\ Cardinality(ConGente') <= Cardinality(ConGente)
  BY FS_Subset DEF Enteros
<1>2. Cardinality(Admitidos) <= Cardinality(Admitidos')
  BY FS_Subset DEF Enteros
<1>3. FinExit' = FinExit /\ Marcados' = Marcados
  BY DEF FinExit, Marcados
<1> HIDE DEF Marcados, FinExit
<1>4. Cardinality(Admitidos') + Cardinality(FinExit') + 0
        >= Cardinality(Admitidos) + Cardinality(FinExit)
  BY <1>2, <1>3 DEF Enteros
<1>5. /\ Cardinality(ToSet(plani_ready')) + Cardinality(ConGente') + 0 + muertes
           <= Cardinality(ToSet(plani_ready)) + Cardinality(ConGente) + muertes'
      /\ Cardinality(Marcados') + muertes <= Cardinality(Marcados) + muertes'
      /\ Libre' = Libre + 0
  BY <1>1, <1>3 DEF Enteros
<1> QED
  BY <1>4, <1>5, CuentasDelta

\* What the queues and the counters of the degree say.
Plantel == <<plani_new, plani_ready, plani_exit, pid_global, multiprogramacion,
             sem["multiprog_disponible"], fin_por_consola, muertes>>

LEMMA CuentasQuieto ==
  ASSUME Cuentas, Enteros, Enteros', UNCHANGED <<Plantel, hilo>>
  PROVE  Cuentas'
<1>1. /\ Libre' = Libre /\ ConGente' = ConGente /\ Admitidos' = Admitidos
      /\ UNCHANGED <<multiprogramacion, muertes, plani_ready, plani_exit, fin_por_consola>>
  BY DEF Plantel, Libre, ConGente, Admitidos, Creados
<1> QED
  BY <1>1, CuentasMarco

\* One thread moves, and does not become one with a process.
LEMMA CuentasMueve ==
  ASSUME Cuentas, Enteros, Enteros', HiloOK, UNCHANGED Plantel, NEW h \in Hilos, NEW l, NEW q,
         Sigue(h, l) \/ Va(h, l, q),
         l \in Gente => hilo[h].pc \in Gente,
         l \in ConPermiso <=> hilo[h].pc \in ConPermiso
  PROVE  Cuentas'
<1>1. hilo'[h].pc = l /\ \A g \in Hilos : g # h => hilo'[g] = hilo[g]
  BY DEF HiloOK, Sigue, Va
<1>2. ConGente' \subseteq ConGente
  BY <1>1 DEF ConGente
<1>3. hilo'["largo"].pc \in ConPermiso <=> hilo["largo"].pc \in ConPermiso
  BY <1>1, HilosFinitos
<1>4. /\ Libre' = Libre /\ Admitidos' = Admitidos
      /\ UNCHANGED <<multiprogramacion, muertes, plani_ready, plani_exit, fin_por_consola>>
  BY <1>3 DEF Plantel, Libre, Admitidos, Creados, Uno
<1> QED
  BY <1>2, <1>4, CuentasMarco

\* Where the threads with a process, and the long-term planner with a permit, are.
LEMMA LugaresGente ==
  /\ EnMano \subseteq Gente \cup {"libera"} /\ EnSalida \subseteq Gente
  /\ "libera" \notin Gente /\ "lee_params" \in Gente /\ EnPlan \subseteq Gente
  /\ EnCola \cap Gente = {} /\ ConPermiso \cap (Gente \cup {"libera"} \cup EnCola) = {}
  /\ {"libre", "espera_new", "espera_multi", "bloqueado", "espera_ready", "espera_ejecutar",
      "elige"} \cap (Gente \cup ConPermiso) = {}
  /\ EntradaReady \in Gente
<1>1. /\ EnMano \subseteq Gente \cup {"libera"} /\ EnSalida \subseteq Gente
      /\ "libera" \notin Gente /\ "lee_params" \in Gente /\ EnPlan \subseteq Gente
      /\ EnCola \cap Gente = {}
  BY Clases DEF Gente, EnFin
<1>2. ConPermiso \cap (EnMano \cup EnSalida \cup {"lee_params"} \cup EnCola) = {}
  BY DEF EnMano, EnSalida, EnCola, ConPermiso
<1>3. Gente \cup {"libera"} \subseteq EnMano \cup EnSalida \cup {"lee_params"}
  BY DEF Gente, EnPlan, EnFin, EnMano
<1>4. {"libre", "espera_new", "espera_multi", "bloqueado", "espera_ready", "espera_ejecutar",
       "elige"} \cap (EnMano \cup EnSalida \cup {"lee_params"} \cup ConPermiso) = {}
  BY DEF EnMano, EnSalida, ConPermiso
<1>5. EntradaReady \in Gente
  BY EntradaLugar DEF Gente, EnPlan
<1> QED
  BY <1>1, <1>2, <1>3, <1>4, <1>5

\* A thread starts to have a process, or ceases to.
LEMMA GenteMas ==
  ASSUME Enteros, NEW h \in Hilos, \A g \in Hilos : g # h => hilo'[g] = hilo[g],
         hilo[h].pc \notin Gente, hilo'[h].pc \in Gente
  PROVE  Cardinality(ConGente') = Cardinality(ConGente) + 1
<1>1. ConGente' = ConGente \cup {h} /\ h \notin ConGente
  BY DEF ConGente
<1> QED
  BY <1>1, FS_AddElement DEF Enteros

LEMMA GenteMenos ==
  ASSUME Enteros, NEW h \in Hilos, \A g \in Hilos : g # h => hilo'[g] = hilo[g],
         hilo[h].pc \in Gente, hilo'[h].pc \notin Gente
  PROVE  Cardinality(ConGente') = Cardinality(ConGente) - 1
<1>1. ConGente' = ConGente \ {h} /\ h \in ConGente
  BY DEF ConGente
<1> QED
  BY <1>1, FS_RemoveElement DEF Enteros

LEMMA CuentasAgregar ==
  ASSUME TipoFin, Sitios, Cuentas, Enteros, Enteros', NEW h \in Hilos, AgregarAReady(h),
         UNCHANGED <<fin_por_consola, muertes>>
  PROVE  Cuentas'
<1>0. HiloOK /\ PcbOK /\ SemOK /\ plani_ready \in Seq(Procesos)
  BY DEF TipoFin, Formas, Estructura, ColasOK
<1>1. CASE MiraExec(h) \/ Compara(h) \/ Marca(h) \/ Lista(h)
  <2>1. UNCHANGED Plantel
    <3>1. UNCHANGED sem["multiprog_disponible"]
      BY <1>0, <1>1, AlSubir DEF MiraExec, Compara, Marca, Lista, Semaforos
    <3> QED
      BY <1>1, <3>1 DEF MiraExec, Compara, Marca, Lista, Plantel, config, colas, pcbs
  <2>2. CASE MiraExec(h) \/ Compara(h)
    <3>1. /\ hilo[h].pc \in {"mira_exec", "compara"}
          /\ \E l \in {"encola", "compara"} : Sigue(h, l)
      BY <2>2 DEF MiraExec, Compara, En
    <3>2. {"mira_exec", "compara", "encola"} \subseteq Gente
      BY DEF Gente, EnPlan, EnMano
    <3> QED
      BY <1>0, <2>1, <3>1, <3>2, LugaresGente, CuentasMueve
  <2>3. CASE Marca(h) \/ Lista(h)
    <3>1. /\ hilo[h].pc \in EnCola
          /\ \E l \in {"lista", "espera_new", "espera_ready", "libre"} : \E q :
               Sigue(h, l) \/ Va(h, l, q)
      BY <2>3 DEF Marca, Lista, En, EnCola
    <3>2. "lista" \in EnCola
      BY DEF EnCola
    <3> QED
      BY <1>0, <2>1, <3>1, <3>2, LugaresGente, CuentasMueve
  <2> QED
    BY <1>1, <2>2, <2>3
<1>2. CASE Encola(h)
  <2>1. /\ hilo[h].pc = "encola" /\ "encola" \in EnPlan /\ "encola" \in Gente
        /\ Sigue(h, "marca") /\ "marca" \in EnCola /\ "marca" \in Puntos
    BY <1>2 DEF Encola, En, EnPlan, EnMano, Gente, EnCola, Puntos
  <2>2. PICK p \in Procesos : p = hilo[h].pcb
    BY <1>0, <2>1 DEF PcbOK, EnPlan
  <2>3. p \notin ToSet(plani_ready)
    <3>1. Lleva(h, p)
      BY <2>1, <2>2 DEF Lleva, Cosa
    <3> QED
      BY <3>1 DEF Sitios, Llevados, EnColas
  <2>4. ToSet(plani_ready') = ToSet(plani_ready) \cup {p}
    BY <1>0, <1>2, <2>2, EnAgregado DEF Encola, Pcb
  <2>5. Cardinality(ToSet(plani_ready')) = Cardinality(ToSet(plani_ready)) + 1
    BY <2>3, <2>4, FS_AddElement DEF Enteros
  <2>6. hilo'[h].pc = "marca" /\ \A g \in Hilos : g # h => hilo'[g] = hilo[g]
    BY <1>0, <2>1, AlSeguir
  <2>7. Cardinality(ConGente') = Cardinality(ConGente) - 1
    BY <2>1, <2>6, GenteMenos, LugaresGente
  <2>8. /\ UNCHANGED <<plani_new, plani_exit, pid_global, multiprogramacion>>
        /\ UNCHANGED sem["multiprog_disponible"]
    BY <1>0, <1>2, AlSubir DEF Encola, Semaforos, config, pcbs
  <2>9. Admitidos' = Admitidos /\ FinExit' = FinExit /\ Marcados' = Marcados
    BY <2>8 DEF Admitidos, FinExit, Marcados, Creados
  <2>10. Libre' = Libre
    BY <2>1, <2>6, <2>8, LugaresGente, HilosFinitos DEF Libre, Uno
  <2> HIDE DEF Marcados, FinExit
  <2>11. /\ Cardinality(ToSet(plani_ready')) + Cardinality(ConGente') + 0 + muertes
             <= Cardinality(ToSet(plani_ready)) + Cardinality(ConGente) + muertes'
         /\ Cardinality(Admitidos') + Cardinality(FinExit') + 0
             >= Cardinality(Admitidos) + Cardinality(FinExit)
         /\ Cardinality(Marcados') + muertes <= Cardinality(Marcados) + muertes'
         /\ Libre' = Libre + 0
    BY <2>5, <2>7, <2>9, <2>10 DEF Enteros
  <2> QED
    BY <2>8, <2>11, CuentasDelta
<1> QED
  BY <1>1, <1>2 DEF AgregarAReady

LEMMA CuentasLargo ==
  ASSUME TipoFin, Sitios, Cuentas, Enteros, Enteros', Largo, UNCHANGED <<fin_por_consola, muertes>>
  PROVE  Cuentas'
<1>0. /\ HiloOK /\ SemOK /\ PcbsOK /\ "largo" \in Hilos /\ plani_new \in Seq(Procesos)
      /\ IsInjective(plani_new) /\ ToSet(plani_new) \cap plani_exit = {}
      /\ ToSet(plani_new) \subseteq Creados
      /\ {"multiprog_disponible", "pcbs_en_new"} \subseteq Semaforos
  BY HilosFinitos DEF TipoFin, Formas, Estructura, ColasOK, Sitios, ColasFin, EnColas, Semaforos
<1>1. CASE LargoEsperaNew \/ LargoCompuerta
  <2>1. /\ UNCHANGED Plantel
        /\ \/ hilo["largo"].pc = "espera_new" /\ Sigue("largo", "espera_multi")
           \/ hilo["largo"].pc = "compuerta" /\ Sigue("largo", "saca_new")
    <3>1. UNCHANGED sem["multiprog_disponible"]
      BY <1>0, <1>1, AlBajar DEF LargoEsperaNew, LargoCompuerta, Cruza
    <3> QED
      BY <1>1, <3>1 DEF LargoEsperaNew, LargoCompuerta, En, Plantel, config, colas, pcbs
  <2>2. "compuerta" \in ConPermiso /\ "saca_new" \in ConPermiso
    BY DEF ConPermiso
  <2> QED
    BY <1>0, <2>1, <2>2, LugaresGente, CuentasMueve
<1>2. CASE LargoEsperaMulti
  <2>0. /\ UNCHANGED <<plani_new, plani_ready, plani_exit, pid_global, multiprogramacion>>
        /\ hilo["largo"].pc \in {"espera_multi", "bloqueado"}
    BY <1>2 DEF LargoEsperaMulti, En, config, colas, pcbs
  <2>1. CASE UNCHANGED sem /\ Sigue("largo", "bloqueado")
    BY <1>0, <2>0, <2>1, LugaresGente, CuentasMueve DEF Plantel
  <2>2. CASE P("multiprog_disponible") /\ Sigue("largo", "compuerta")
    <3>1. sem'["multiprog_disponible"] = sem["multiprog_disponible"] - 1
      BY <1>0, <2>2, AlBajar
    <3>2. /\ hilo'["largo"].pc = "compuerta"
          /\ \A g \in Hilos : g # "largo" => hilo'[g] = hilo[g]
      BY <1>0, <2>2, AlSeguir DEF Puntos, EnEspera
    <3>3. Libre' = Libre
      BY <2>0, <3>1, <3>2, LugaresGente DEF Libre, Uno, ConPermiso, Enteros
    <3>4. "compuerta" \notin Gente
      BY LugaresGente DEF ConPermiso
    <3>5. ConGente' \subseteq ConGente /\ Admitidos' = Admitidos
      BY <2>0, <3>2, <3>4 DEF ConGente, Admitidos, Creados
    <3> QED
      BY <2>0, <3>3, <3>5, CuentasMarco
  <2> QED
    BY <1>2, <2>1, <2>2 DEF LargoEsperaMulti
<1>3. CASE LargoSaca
  <2>0. /\ UNCHANGED <<plani_ready, plani_exit, pid_global, multiprogramacion, sem>>
        /\ hilo["largo"].pc = "saca_new"
    BY <1>3 DEF LargoSaca, En, config, pcbs
  <2>1. CASE plani_new = <<>>
    <3>1. UNCHANGED <<plani_new, hilo>>
      BY <1>3, <2>1 DEF LargoSaca
    <3> QED
      BY <2>0, <3>1, CuentasQuieto DEF Plantel
  <2>2. CASE plani_new # <<>>
    <3>1. plani_new' = Tail(plani_new) /\ Va("largo", EntradaReady, Head(plani_new))
      BY <1>3, <2>2 DEF LargoSaca
    <3>2. PICK p \in Procesos : p = Head(plani_new)
      BY <1>0, <2>2, EnCabeza
    <3>3. ToSet(plani_new) = ToSet(plani_new') \cup {p} /\ p \notin ToSet(plani_new')
      BY <1>0, <2>2, <3>1, <3>2, EnCabeza
    <3>4. /\ hilo'["largo"].pc = EntradaReady
          /\ \A g \in Hilos : g # "largo" => hilo'[g] = hilo[g]
      BY <1>0, <3>1, <3>2, AlIr, EntradaLugar
    <3>5. /\ "saca_new" \notin Gente /\ "saca_new" \in ConPermiso /\ EntradaReady \in Gente
          /\ EntradaReady \notin ConPermiso
      BY LugaresGente DEF ConPermiso
    <3>6. Cardinality(ConGente') = Cardinality(ConGente) + 1
      BY <1>0, <2>0, <3>4, <3>5, GenteMas
    <3>7. Admitidos' = Admitidos \cup {p} /\ p \notin Admitidos
      BY <1>0, <2>0, <3>3 DEF Admitidos, Creados
    <3>8. Cardinality(Admitidos') = Cardinality(Admitidos) + 1
      BY <3>7, FS_AddElement DEF Enteros
    <3>9. FinExit' = FinExit /\ Marcados' = Marcados
      BY <2>0 DEF FinExit, Marcados
    <3>10. Libre' = Libre - 1
      BY <2>0, <3>4, <3>5 DEF Libre, Uno, Enteros
    <3> HIDE DEF Marcados, FinExit
    <3>11. /\ Cardinality(ToSet(plani_ready')) + Cardinality(ConGente') + (-1) + muertes
                <= Cardinality(ToSet(plani_ready)) + Cardinality(ConGente) + muertes'
           /\ Cardinality(Admitidos') + Cardinality(FinExit') + (-1)
                >= Cardinality(Admitidos) + Cardinality(FinExit)
           /\ Cardinality(Marcados') + muertes <= Cardinality(Marcados) + muertes'
           /\ Libre' = Libre + (-1)
      BY <2>0, <3>6, <3>8, <3>9, <3>10 DEF Enteros
    <3> QED
      BY <2>0, <3>11, CuentasDelta
  <2> QED
    BY <2>1, <2>2
<1> QED
  BY <1>1, <1>2, <1>3 DEF Largo

\* The planner's process passes to a new thread.
LEMMA CuentasLanza ==
  ASSUME TipoFin, Cuentas, Enteros, Enteros', NEW l \in {"espera", "lee_params", "sale"},
         NEW q \in Procesos \cup {NULO}, Lanza(l, q), hilo["corto"].pc \in Gente,
         UNCHANGED Plantel
  PROVE  Cuentas'
<1>1. l \in Puntos /\ l \in Gente /\ HiloOK /\ l \notin ConPermiso
  BY LugaresGente DEF Puntos, EnEspera, EnMano, Gente, EnPlan, EnFin, TipoFin, Formas, Estructura
<1>2. hilo'["corto"].pc = "espera_ready"
  BY <1>1, AlLanzar
<1>3. PICK a \in Hilos \ {"corto"} :
        /\ hilo[a].pc = "libre" /\ hilo'[a].pc = l
        /\ \A g \in Hilos : g \notin {a, "corto"} => hilo'[g] = hilo[g]
  BY <1>1, AlLanzar
<1>4. ConGente' = (ConGente \ {"corto"}) \cup {a} /\ a \notin ConGente /\ "corto" \in ConGente
  BY <1>1, <1>2, <1>3, LugaresGente, HilosFinitos DEF ConGente
<1>5. Cardinality(ConGente') = Cardinality(ConGente)
  <2> DEFINE G == ConGente \ {"corto"}
  <2>1. IsFiniteSet(G) /\ Cardinality(G) = Cardinality(ConGente) - 1
    BY <1>4, FS_RemoveElement DEF Enteros
  <2>2. Cardinality(G \cup {a}) = Cardinality(G) + 1
    BY <1>4, <2>1, FS_AddElement
  <2> QED
    BY <1>4, <2>1, <2>2 DEF Enteros
<1>6. Admitidos' = Admitidos /\ FinExit' = FinExit /\ Marcados' = Marcados
  BY DEF Plantel, Admitidos, FinExit, Marcados, Creados
<1>7. Libre' = Libre
  BY <1>1, <1>3, HilosFinitos, LugaresGente DEF Plantel, Libre, Uno
<1>8. UNCHANGED <<muertes, multiprogramacion, plani_ready>>
  BY DEF Plantel
<1> HIDE DEF Marcados, FinExit
<1>9. /\ Cardinality(ToSet(plani_ready')) + Cardinality(ConGente') + 0 + muertes
           <= Cardinality(ToSet(plani_ready)) + Cardinality(ConGente) + muertes'
      /\ Cardinality(Admitidos') + Cardinality(FinExit') + 0
           >= Cardinality(Admitidos) + Cardinality(FinExit)
      /\ Cardinality(Marcados') + muertes <= Cardinality(Marcados) + muertes'
      /\ Libre' = Libre + 0
  BY <1>5, <1>6, <1>7, <1>8 DEF Enteros
<1> QED
  BY <1>8, <1>9, CuentasDelta

LEMMA CuentasElige ==
  ASSUME TipoFin, Sitios, Cuentas, Enteros, Enteros', CortoElige,
         UNCHANGED <<fin_por_consola, muertes>>
  PROVE  Cuentas'
<1>0. /\ HiloOK /\ "corto" \in Hilos /\ hilo["corto"].pc = "elige"
      /\ UNCHANGED <<plani_new, plani_exit, pid_global, sem, multiprogramacion>>
  BY HilosFinitos DEF TipoFin, Formas, Estructura, CortoElige, En, pcbs, config
<1>1. CASE plani_ready = <<>>
  <2>1. Sigue("corto", "espera_ready") /\ UNCHANGED plani_ready
    BY <1>1 DEF CortoElige
  <2> QED
    BY <1>0, <2>1, LugaresGente, CuentasMueve DEF Plantel
<1>2. CASE plani_ready # <<>>
  <2>1. PICK i \in DOMAIN plani_ready : /\ plani_ready' = RemoveAt(plani_ready, i)
                                        /\ Va("corto", "agrega_exec", plani_ready[i])
    BY <1>2 DEF CortoElige
  <2>2. plani_ready \in Seq(Procesos) /\ IsInjective(plani_ready)
    BY DEF TipoFin, Formas, Estructura, ColasOK, Sitios, ColasFin
  <2>3. PICK p \in Procesos : p = plani_ready[i]
    BY <2>2
  <2>4. ToSet(plani_ready) = ToSet(plani_ready') \cup {p} /\ p \notin ToSet(plani_ready')
    BY <2>1, <2>2, <2>3, AlQuitar
  <2>5. ToSet(plani_ready') = ToSet(plani_ready) \ {p} /\ p \in ToSet(plani_ready)
    BY <2>4
  <2>6. Cardinality(ToSet(plani_ready')) = Cardinality(ToSet(plani_ready)) - 1
    BY <2>5, FS_RemoveElement DEF Enteros
  <2>7. "agrega_exec" \in Puntos /\ "agrega_exec" \in EnPlan /\ "agrega_exec" \in Gente
    BY DEF Puntos, EnPlan, EnMano, Gente
  <2>8. /\ hilo'["corto"].pc = "agrega_exec"
        /\ \A g \in Hilos : g # "corto" => hilo'[g] = hilo[g]
    BY <1>0, <2>1, <2>3, <2>7, AlIr
  <2>9. Cardinality(ConGente') = Cardinality(ConGente) + 1
    BY <1>0, <2>7, <2>8, GenteMas, LugaresGente
  <2>10. /\ Admitidos' = Admitidos /\ FinExit' = FinExit /\ Marcados' = Marcados
         /\ Libre' = Libre
    BY <1>0, <2>8, HilosFinitos DEF Admitidos, FinExit, Marcados, Creados, Libre
  <2> HIDE DEF Marcados, FinExit
  <2>11. /\ Cardinality(ToSet(plani_ready')) + Cardinality(ConGente') + 0 + muertes
              <= Cardinality(ToSet(plani_ready)) + Cardinality(ConGente) + muertes'
         /\ Cardinality(Admitidos') + Cardinality(FinExit') + 0
              >= Cardinality(Admitidos) + Cardinality(FinExit)
         /\ Cardinality(Marcados') + muertes <= Cardinality(Marcados) + muertes'
         /\ Libre' = Libre + 0
    BY <2>6, <2>9, <2>10 DEF Enteros
  <2> QED
    BY <1>0, <2>11, CuentasDelta
<1> QED
  BY <1>1, <1>2

LEMMA CuentasCorto ==
  ASSUME TipoFin, Sitios, Cuentas, Enteros, Enteros', CortoSimple \/ CortoPageFault,
         UNCHANGED <<fin_por_consola, muertes>>
  PROVE  Cuentas'
<1>0. /\ HiloOK /\ SemOK /\ PcbOK /\ "corto" \in Hilos
      /\ {"multiprog_disponible", "pcbs_en_ready", "puede_ejecutar"} \subseteq Semaforos
  BY HilosFinitos DEF TipoFin, Formas, Estructura, Semaforos
<1> DEFINE Mano == {"agrega_exec", "despacha", "espera_cpu", "atiende", "redespacha", "bloquea"}
           Nada == {"espera_ready", "espera_ejecutar", "elige"}
<1>1. /\ Mano \subseteq Gente /\ EntradaReady \in Gente /\ Nada \cap Gente = {}
      /\ (Mano \cup Nada \cup {EntradaReady}) \cap ConPermiso = {}
  BY LugaresGente DEF EnPlan, EnMano, Gente
<1>2. CASE CortoElige
  BY <1>2, CuentasElige
<1>3. CASE CortoFinaliza \/ CortoDuerme \/ CortoPideFS \/ CortoPageFault
  <2>1. hilo["corto"].pc \in Mano /\ UNCHANGED Plantel
    BY <1>3 DEF CortoFinaliza, CortoDuerme, CortoPideFS, CortoPageFault, Bloquea, Atiende, En,
       Plantel, config, colas
  <2>2. hilo["corto"].pcb \in Procesos
    BY <1>0, <2>1 DEF PcbOK, EnMano
  <2>3. \E l \in {"espera", "lee_params", "sale"} : \E q \in Procesos \cup {NULO} : Lanza(l, q)
    BY <1>3, <2>2 DEF CortoFinaliza, CortoDuerme, CortoPideFS, CortoPageFault, Pcb
  <2> HIDE DEF Mano, Nada
  <2> QED
    BY <1>1, <2>1, <2>3, CuentasLanza
<1>4. CASE \/ CortoEsperaReady \/ CortoEsperaEjecutar \/ CortoAgregaExec \/ CortoDespacha
           \/ CortoRedespacha \/ CortoRecibe \/ CortoSacaExec \/ CortoContinua \/ CortoDesaloja
  <2>1. UNCHANGED Plantel
    <3>1. UNCHANGED sem["multiprog_disponible"]
      BY <1>0, <1>4, AlBajar DEF CortoEsperaReady, CortoEsperaEjecutar, CortoAgregaExec,
         CortoDespacha, CortoRedespacha, CortoRecibe, CortoSacaExec, CortoContinua,
         CortoDesaloja, Cruza
    <3> QED
      BY <1>4, <3>1 DEF CortoEsperaReady, CortoEsperaEjecutar, CortoAgregaExec,
         CortoDespacha, CortoRedespacha, CortoRecibe, CortoSacaExec, CortoContinua,
         CortoDesaloja, Plantel, config, colas, pcbs
  <2>2. \/ UNCHANGED hilo
        \/ hilo["corto"].pc \in Nada /\ \E l \in Nada : Sigue("corto", l)
        \/ hilo["corto"].pc \in Mano
             /\ \E l \in Mano \cup Nada \cup {EntradaReady} : \E q :
                  Sigue("corto", l) \/ Va("corto", l, q)
    <3>1. CASE CortoEsperaReady \/ CortoEsperaEjecutar
      BY <3>1 DEF CortoEsperaReady, CortoEsperaEjecutar, En
    <3>2. CASE ~(CortoEsperaReady \/ CortoEsperaEjecutar)
      <4>1. hilo["corto"].pc \in Mano
        BY <1>4, <3>2 DEF CortoAgregaExec, CortoDespacha, CortoRedespacha, CortoRecibe,
           CortoSacaExec, CortoContinua, CortoDesaloja, Atiende, En
      <4>2. \/ UNCHANGED hilo
            \/ \E l \in Mano \cup Nada \cup {EntradaReady} : \E q :
                  Sigue("corto", l) \/ Va("corto", l, q)
        BY <1>4, <3>2 DEF CortoAgregaExec, CortoDespacha, CortoRedespacha, CortoRecibe,
           CortoSacaExec, CortoContinua, CortoDesaloja, Envia
      <4> QED
        BY <4>1, <4>2
    <3> QED
      BY <3>1, <3>2
  <2> HIDE DEF Mano, Nada
  <2>3. CASE UNCHANGED hilo
    BY <2>1, <2>3, CuentasQuieto
  <2>4. CASE hilo["corto"].pc \in Nada /\ \E l \in Nada : Sigue("corto", l)
    BY <1>0, <1>1, <2>1, <2>4, CuentasMueve
  <2>5. CASE hilo["corto"].pc \in Mano
               /\ \E l \in Mano \cup Nada \cup {EntradaReady} : \E q :
                    Sigue("corto", l) \/ Va("corto", l, q)
    BY <1>0, <1>1, <2>1, <2>5, CuentasMueve
  <2> QED
    BY <2>2, <2>3, <2>4, <2>5
<1> QED
  BY <1>2, <1>3, <1>4 DEF CortoSimple

\* An exit thread puts its process in plani_exit.  It gives a place back, or the process, which
\* the console has ended, takes its own with it.
LEMMA CuentasSale ==
  ASSUME TipoFin, Cuentas, Enteros, Enteros', NEW h \in Auxiliares, NEW p \in Procesos,
         hilo[h].pcb = p, hilo[h].pc \in EnFin, Sigue(h, "libera"),
         plani_exit' = plani_exit \cup {p},
         V("multiprog_disponible") \/ (UNCHANGED sem /\ fin_por_consola[p]),
         UNCHANGED <<plani_new, plani_ready, pid_global, multiprogramacion, fin_por_consola, muertes>>
  PROVE  Cuentas'
<1>0. /\ HiloOK /\ SemOK /\ h \in Hilos /\ h # "largo" /\ "largo" \in Hilos
      /\ "multiprog_disponible" \in Semaforos /\ "libera" \in Puntos
      /\ hilo[h].pc \in Gente /\ "libera" \notin Gente
  BY ConstantesOK, LugaresGente
     DEF TipoFin, Formas, Estructura, Hilos, Semaforos, Puntos, EnMano, Gente
<1>1. hilo'[h].pc = "libera" /\ \A g \in Hilos : g # h => hilo'[g] = hilo[g]
  BY <1>0, AlSeguir
<1>2. Cardinality(ConGente') = Cardinality(ConGente) - 1
  BY <1>0, <1>1, GenteMenos
<1>3. Admitidos' = Admitidos \ {p} /\ Marcados' = Marcados
  BY DEF Admitidos, Creados, Marcados
<1>4. Cardinality(Admitidos') >= Cardinality(Admitidos) - 1
  <2>1. CASE p \in Admitidos
    BY <1>3, <2>1, FS_RemoveElement DEF Enteros
  <2>2. CASE p \notin Admitidos
    <3>1. Admitidos' = Admitidos
      BY <1>3, <2>2
    <3> QED
      BY <3>1 DEF Enteros
  <2> QED
    BY <2>1, <2>2
<1>5. FinExit' = IF fin_por_consola[p] THEN FinExit \cup {p} ELSE FinExit
  BY DEF FinExit
<1>6. UNCHANGED hilo["largo"]
  BY <1>0, <1>1
<1>7. CASE V("multiprog_disponible")
  <2>1. Libre' = Libre + 1
    <3>1. sem'["multiprog_disponible"] = sem["multiprog_disponible"] + 1
      BY <1>0, <1>7, AlSubir
    <3> QED
      BY <1>6, <3>1 DEF Libre, Uno, Enteros
  <2>2. Cardinality(FinExit) <= Cardinality(FinExit')
    BY <1>5, FS_Subset DEF Enteros
  <2> HIDE DEF Marcados, FinExit
  <2>3. /\ Cardinality(ToSet(plani_ready')) + Cardinality(ConGente') + 1 + muertes
             <= Cardinality(ToSet(plani_ready)) + Cardinality(ConGente) + muertes'
        /\ Cardinality(Admitidos') + Cardinality(FinExit') + 1
             >= Cardinality(Admitidos) + Cardinality(FinExit)
        /\ Cardinality(Marcados') + muertes <= Cardinality(Marcados) + muertes'
    BY <1>2, <1>3, <1>4, <2>2 DEF Enteros
  <2> QED
    BY <2>1, <2>3, CuentasDelta
<1>8. CASE UNCHANGED sem /\ fin_por_consola[p]
  <2>1. Libre' = Libre
    BY <1>6, <1>8 DEF Libre
  <2>2. Cardinality(Admitidos') + Cardinality(FinExit') >= Cardinality(Admitidos) + Cardinality(FinExit)
    <3>1. CASE p \in plani_exit
      <4>1. Admitidos' = Admitidos /\ FinExit' = FinExit
        BY <1>3, <1>5, <1>8, <3>1 DEF Admitidos, FinExit
      <4> QED
        BY <4>1 DEF Enteros
    <3>2. CASE p \notin plani_exit
      <4>1. FinExit' = FinExit \cup {p} /\ p \notin FinExit
        BY <1>5, <1>8, <3>2 DEF FinExit
      <4>2. Cardinality(FinExit') = Cardinality(FinExit) + 1
        BY <4>1, FS_AddElement DEF Enteros
      <4> QED
        BY <1>4, <4>2 DEF Enteros
    <3> QED
      BY <3>1, <3>2
  <2> HIDE DEF Marcados, FinExit
  <2>3. /\ Cardinality(ToSet(plani_ready')) + Cardinality(ConGente') + 0 + muertes
             <= Cardinality(ToSet(plani_ready)) + Cardinality(ConGente) + muertes'
        /\ Cardinality(Admitidos') + Cardinality(FinExit') + 0
             >= Cardinality(Admitidos) + Cardinality(FinExit)
        /\ Cardinality(Marcados') + muertes <= Cardinality(Marcados) + muertes'
        /\ Libre' = Libre + 0
    BY <1>2, <1>3, <2>1, <2>2 DEF Enteros
  <2> QED
    BY <2>3, CuentasDelta
<1> QED
  BY <1>7, <1>8

LEMMA CuentasAuxiliar ==
  ASSUME TipoFin, Cuentas, Enteros, Enteros', NEW h \in Auxiliares,
         UNCHANGED <<fin_por_consola, muertes>>,
         SaleDeBlock(h) \/ LeeParams(h) \/ ResuelvePf(h) \/ Libera(h) \/ SaleDelSistema(h)
  PROVE  Cuentas'
<1>0. /\ HiloOK /\ SemOK /\ PcbOK /\ h \in Hilos
      /\ {"multiprog_disponible", "sem_detener_block"} \subseteq Semaforos
  BY DEF TipoFin, Formas, Estructura, Hilos, Semaforos, Compuertas
<1>1. CASE SaleDelSistema(h)
  <2>1. /\ hilo[h].pc = "sale" /\ Sigue(h, "libera") /\ V("multiprog_disponible")
        /\ plani_exit' = plani_exit \cup {hilo[h].pcb}
        /\ UNCHANGED <<plani_new, plani_ready, pid_global, multiprogramacion>>
    BY <1>1 DEF SaleDelSistema, En, Pcb, pcbs, config
  <2>2. "sale" \in EnFin /\ "sale" \in EnMano
    BY DEF EnFin, EnMano
  <2>3. PICK p \in Procesos : p = hilo[h].pcb
    BY <1>0, <2>1, <2>2 DEF PcbOK
  <2> QED
    BY <2>1, <2>2, <2>3, CuentasSale
<1>2. CASE SaleDeBlock(h) \/ LeeParams(h) \/ ResuelvePf(h) \/ Libera(h)
  <2>1. UNCHANGED Plantel
    <3>1. UNCHANGED sem["multiprog_disponible"]
      BY <1>0, <1>2, AlBajar, AlSubir DEF SaleDeBlock, LeeParams, ResuelvePf, Libera, Cruza
    <3> QED
      BY <1>2, <3>1 DEF SaleDeBlock, LeeParams, ResuelvePf, Libera, Plantel, config, colas, pcbs
  <2>2. /\ hilo[h].pc \in {"espera", "lee_params", "pide_pagina", "libera"}
        /\ \/ UNCHANGED hilo
           \/ /\ hilo[h].pc # "libera"
              /\ \E l \in {EntradaReady, "pide_pagina"} : \E q : Sigue(h, l) \/ Va(h, l, q)
           \/ Va(h, "libre", NULO)
    BY <1>2 DEF SaleDeBlock, LeeParams, ResuelvePf, Libera, En
  <2>3. /\ {"espera", "lee_params", "pide_pagina"} \subseteq Gente
        /\ {"espera", "lee_params", "pide_pagina", "libera", "libre", EntradaReady}
             \cap ConPermiso = {}
        /\ EntradaReady \in Gente /\ "libre" \notin Gente
    BY LugaresGente DEF EnMano
  <2>4. CASE UNCHANGED hilo
    BY <2>1, <2>4, CuentasQuieto
  <2>5. CASE /\ hilo[h].pc # "libera"
             /\ \E l \in {EntradaReady, "pide_pagina"} : \E q : Sigue(h, l) \/ Va(h, l, q)
    BY <1>0, <2>1, <2>2, <2>3, <2>5, CuentasMueve
  <2>6. CASE Va(h, "libre", NULO)
    BY <1>0, <2>1, <2>2, <2>3, <2>6, CuentasMueve
  <2> QED
    BY <2>2, <2>4, <2>5, <2>6
<1> QED
  BY <1>1, <1>2

\* The switch on pcb->estado takes a process out of NEW that has no place, or out of READY.
LEMMA CuentasSegunEstado ==
  ASSUME TipoFin, Cuentas, Enteros, Enteros', NEW h \in Auxiliares, SegunEstado(h)
  PROVE  Cuentas'
<1>0. /\ HiloOK /\ h \in Hilos /\ hilo[h].pc = "segun_estado"
      /\ plani_new \in Seq(Procesos) /\ plani_ready \in Seq(Procesos)
      /\ UNCHANGED <<plani_exit, pid_global, multiprogramacion, sem, fin_por_consola, muertes>>
  BY DEF TipoFin, Formas, Estructura, ColasOK, Hilos, SegunEstado, En, pcbs, config
<1>1. PICK l \in {"recibe", "termina"} : Sigue(h, l)
  BY DEF SegunEstado
<1>2. {"segun_estado", "recibe", "termina"} \subseteq EnSalida /\ l \in Puntos
  BY SalidaEsFin DEF EnSalida
<1>3. hilo'[h].pc = l /\ \A g \in Hilos : g # h => hilo'[g] = hilo[g]
  BY <1>0, <1>1, <1>2, AlSeguir
<1>4. /\ {"segun_estado", "recibe", "termina"} \subseteq Gente
      /\ {"segun_estado", "recibe", "termina"} \cap ConPermiso = {}
  BY <1>2, LugaresGente
<1>5. ConGente' \subseteq ConGente
  BY <1>0, <1>3, <1>4 DEF ConGente
<1>6. ToSet(plani_new') \subseteq ToSet(plani_new) /\ ToSet(plani_ready') \subseteq ToSet(plani_ready)
  <2>1. hilo[h].pcb \in Procesos
    BY <1>0, <1>2 DEF TipoFin, Formas, PcbFin
  <2>2. PICK p \in Procesos : p = hilo[h].pcb
    BY <2>1
  <2>3. /\ plani_new' \in {plani_new, RemoveFirst(plani_new, p)}
        /\ plani_ready' \in {plani_ready, RemoveFirst(plani_ready, p)}
    BY <2>2 DEF SegunEstado, Pcb
  <2>4. /\ ToSet(RemoveFirst(plani_new, p)) \subseteq ToSet(plani_new)
        /\ ToSet(RemoveFirst(plani_ready, p)) \subseteq ToSet(plani_ready)
    BY <1>0, AlQuitarPrimero
  <2> QED
    BY <2>3, <2>4
<1>7. Admitidos \subseteq Admitidos'
  BY <1>0, <1>6 DEF Admitidos, Creados
<1>8. Libre' = Libre
  <2>1. hilo'["largo"].pc \in ConPermiso <=> hilo["largo"].pc \in ConPermiso
    BY <1>0, <1>3, <1>4, HilosFinitos
  <2> QED
    BY <1>0, <2>1 DEF Libre, Uno
<1> QED
  BY <1>0, <1>5, <1>6, <1>7, <1>8, CuentasMarco

LEMMA CuentasMata ==
  ASSUME TipoFin, Sitios, Cuentas, Enteros, Enteros', NEW h \in Auxiliares, Mata(h)
  PROVE  Cuentas'
<1>0. HiloOK /\ PcbFin /\ h \in Hilos
  BY DEF TipoFin, Formas, Estructura, Hilos
<1>1. CASE \/ AbandonaPf(h) \/ SaleMuerto(h) \/ EsperaManejo(h) \/ RecibeContexto(h)
           \/ Termina(h) \/ MiraGrado(h)
  <2> DEFINE Fila == {"espera_manejo", "segun_estado", "termina", "mira_grado", "devuelve",
                      "agrega_exit"}
  <2>1. UNCHANGED Plantel
    BY <1>1 DEF AbandonaPf, SaleMuerto, EsperaManejo, RecibeContexto, Termina, MiraGrado,
       Plantel, config, colas, pcbs, banderas
  <2>2. /\ hilo[h].pc \in {"pide_pagina", "sale", "espera_manejo", "recibe", "termina", "mira_grado"}
        /\ UNCHANGED hilo \/ Va(h, "libre", NULO) \/ \E l \in Fila : Sigue(h, l)
    BY <1>1 DEF AbandonaPf, SaleMuerto, EsperaManejo, RecibeContexto, Termina, MiraGrado, En
  <2>3. /\ {"pide_pagina", "sale", "recibe"} \cup Fila \subseteq Gente
        /\ ({"pide_pagina", "sale", "recibe", "libre"} \cup Fila) \cap ConPermiso = {}
        /\ "libre" \notin Gente
    BY LugaresGente DEF EnMano, EnSalida
  <2> HIDE DEF Fila
  <2>4. /\ hilo[h].pc \in Gente /\ hilo[h].pc \notin ConPermiso
        /\ "libre" \notin ConPermiso /\ \A l \in Fila : l \in Gente /\ l \notin ConPermiso
    <3>1. hilo[h].pc \in {"pide_pagina", "sale", "recibe"} \cup Fila
      BY <2>2 DEF Fila
    <3> QED
      BY <2>3, <3>1
  <2>5. CASE UNCHANGED hilo
    BY <2>1, <2>5, CuentasQuieto
  <2>6. CASE Va(h, "libre", NULO)
    BY <1>0, <2>1, <2>3, <2>4, <2>6, CuentasMueve
  <2>7. CASE \E l \in Fila : Sigue(h, l)
    BY <1>0, <2>1, <2>4, <2>7, CuentasMueve
  <2> QED
    BY <2>2, <2>5, <2>6, <2>7
<1>2. CASE AgregaExit(h)
  <2>1. /\ hilo[h].pc \in {"devuelve", "agrega_exit"} /\ Sigue(h, "libera")
        /\ plani_exit' = plani_exit \cup {hilo[h].pcb}
        /\ V("multiprog_disponible") \/ UNCHANGED sem
        /\ UNCHANGED <<plani_new, plani_ready, pid_global, multiprogramacion, fin_por_consola,
                       muertes>>
    BY <1>2 DEF AgregaExit, En, Pcb, pcbs, config
  <2>2. hilo[h].pc \in EnSalida /\ hilo[h].pc \in EnFin
    BY <2>1, Clases DEF EnSalida
  <2>3. PICK p \in Procesos : p = hilo[h].pcb
    BY <1>0, <2>1, <2>2 DEF PcbFin
  <2>4. fin_por_consola[p]
    BY <1>0, <2>2, <2>3 DEF Sitios, SalidaFin
  <2> QED
    BY <2>1, <2>2, <2>3, <2>4, CuentasSale
<1> QED
  BY <1>1, <1>2, CuentasSegunEstado DEF Mata

LEMMA CuentasInicia ==
  ASSUME TipoFin, Cuentas, Enteros, Enteros', NEW prio, IniciarProceso(prio),
         UNCHANGED <<fin_por_consola, muertes>>
  PROVE  Cuentas'
<1> DEFINE p == pid_global
<1>1. /\ plani_new' = Append(plani_new, p) /\ pid_global' = p + 1 /\ p \in Nat /\ p \in Procesos
      /\ plani_new \in Seq(Procesos) /\ SemOK
      /\ UNCHANGED <<plani_ready, plani_exit, hilo, multiprogramacion>>
  BY ConstantesOK
     DEF IniciarProceso, config, TipoFin, Formas, Estructura, ColasOK, PcbsOK, Procesos
<1>2. UNCHANGED sem["multiprog_disponible"]
  BY <1>1, AlSubir DEF IniciarProceso, Semaforos
<1>3. ToSet(plani_new') = ToSet(plani_new) \cup {p}
  BY <1>1, EnAgregado
<1>4. Creados' = Creados \cup {p} /\ p \notin Creados
  BY <1>1 DEF Creados
<1>5. Admitidos' = Admitidos /\ ConGente' = ConGente /\ Libre' = Libre
  BY <1>1, <1>2, <1>3, <1>4 DEF Admitidos, ConGente, Libre
<1> QED
  BY <1>1, <1>5, CuentasMarco

\* A command adds an exit thread and may mark one process more.
LEMMA CuentasFinaliza ==
  ASSUME TipoFin, Cuentas, Enteros, Enteros', NEW p \in Procesos, FinalizarProceso(p)
  PROVE  Cuentas'
<1>0. /\ HiloOK /\ BanderasOK /\ "largo" \in Hilos /\ muertes' = muertes + 1
      /\ UNCHANGED <<plani_new, plani_ready, plani_exit, pid_global, multiprogramacion, sem>>
  BY HilosFinitos
     DEF TipoFin, Formas, Estructura, FinalizarProceso, colas, pcbs, config
<1>1. Admitidos' = Admitidos
  BY <1>0 DEF Admitidos, Creados
<1>2. /\ UNCHANGED hilo["largo"]
      /\ Cardinality(ConGente') <= Cardinality(ConGente) + 1
      /\ Marcados' \subseteq Marcados \cup {p} /\ FinExit \subseteq FinExit'
  <2>1. CASE UNCHANGED <<hilo, fin_por_consola>>
    <3>1. ConGente' = ConGente /\ Marcados' = Marcados /\ FinExit' = FinExit
      BY <1>0, <2>1 DEF ConGente, Marcados, FinExit
    <3> QED
      BY <2>1, <3>1 DEF Enteros
  <2>2. CASE /\ Libres # {} /\ fin_por_consola' = [fin_por_consola EXCEPT ![p] = TRUE]
             /\ LET a == CHOOSE x \in Libres : TRUE IN Va(a, "sale", p)
    <3>1. PICK a \in Auxiliares : hilo[a].pc = "libre" /\ Va(a, "sale", p)
      BY <2>2 DEF Libres, En
    <3>2. /\ a \in Hilos /\ a # "largo" /\ hilo'[a].pc = "sale"
          /\ \A g \in Hilos : g # a => hilo'[g] = hilo[g]
      BY <1>0, <3>1, AlIr, ConstantesOK DEF Hilos, Puntos, EnMano
    <3>3. "libre" \notin Gente /\ "sale" \in Gente
      BY LugaresGente DEF Gente, EnFin
    <3>4. Cardinality(ConGente') = Cardinality(ConGente) + 1
      BY <3>1, <3>2, <3>3, GenteMas
    <3>5. \A x \in Procesos : fin_por_consola'[x] = IF x = p THEN TRUE ELSE fin_por_consola[x]
      BY <1>0, <2>2 DEF BanderasOK
    <3>6. plani_exit \subseteq Procesos
      BY DEF TipoFin, Formas, Estructura, ColasOK
    <3>7. Marcados' \subseteq Marcados \cup {p} /\ FinExit \subseteq FinExit'
      BY <1>0, <3>5, <3>6 DEF Marcados, FinExit
    <3> QED
      BY <1>0, <3>2, <3>4, <3>7 DEF Enteros
  <2> QED
    BY <2>1, <2>2 DEF FinalizarProceso
<1>3. Libre' = Libre
  BY <1>0, <1>2 DEF Libre, Uno
<1>4. Cardinality(FinExit) <= Cardinality(FinExit')
  BY <1>2, FS_Subset DEF Enteros
<1>5. Cardinality(Marcados') <= Cardinality(Marcados) + 1
  <2>1. IsFiniteSet(Marcados \cup {p}) /\ Cardinality(Marcados \cup {p}) <= Cardinality(Marcados) + 1
    <3> HIDE DEF Marcados
    <3>1. IsFiniteSet(Marcados) /\ Cardinality(Marcados) \in Nat
      BY DEF Enteros
    <3>2. CASE p \in Marcados
      <4>1. Marcados \cup {p} = Marcados
        BY <3>2
      <4> QED
        BY <3>1, <4>1
    <3>3. CASE p \notin Marcados
      BY <3>1, <3>3, FS_AddElement
    <3> QED
      BY <3>2, <3>3
  <2>2. Cardinality(Marcados') <= Cardinality(Marcados \cup {p})
    BY <1>2, <2>1, FS_Subset
  <2>3. Cardinality(Marcados \cup {p}) \in Nat
    BY <2>1, FS_CardinalityType
  <2> QED
    BY <2>1, <2>2, <2>3 DEF Enteros
<1> HIDE DEF Marcados, FinExit
<1>6. /\ Cardinality(ToSet(plani_ready')) + Cardinality(ConGente') + 0 + muertes
           <= Cardinality(ToSet(plani_ready)) + Cardinality(ConGente) + muertes'
      /\ Cardinality(Admitidos') + Cardinality(FinExit') + 0
           >= Cardinality(Admitidos) + Cardinality(FinExit)
      /\ Cardinality(Marcados') + muertes <= Cardinality(Marcados) + muertes'
      /\ Libre' = Libre + 0
  BY <1>0, <1>1, <1>2, <1>3, <1>4, <1>5 DEF Enteros
<1> QED
  BY <1>0, <1>6, CuentasDelta

LEMMA CuentasPaso == TipoFin /\ TipoFin' /\ Sitios /\ Cuentas /\ [NextF]_varsF => Cuentas'
<1> SUFFICES ASSUME TipoFin, TipoFin', Sitios, Cuentas, [NextF]_varsF PROVE Cuentas'
  OBVIOUS
<1>0. Enteros /\ Enteros'
  BY CuentasEnteras, CuentasEnterasPrima
<1>1. CASE UNCHANGED varsF
  <2>1. UNCHANGED <<Plantel, hilo>>
    BY <1>1 DEF Plantel, varsF, vars, config, colas, pcbs, banderas
  <2> QED
    BY <1>0, <2>1, CuentasQuieto
<1>2. CASE Planea
  <2>1. UNCHANGED <<fin_por_consola, muertes>>
    BY <1>2 DEF Planea
  <2>2. CASE \/ CpuDesaloja \/ \E c \in Servicios : CpuDevuelve(c)
             \/ \E p \in Procesos : VenceQuantum(p)
    <3>1. UNCHANGED <<hilo, sem, config, colas, pcbs>>
      BY <2>2 DEF CpuDesaloja, CpuDevuelve, VenceQuantum
    <3>2. UNCHANGED <<Plantel, hilo>>
      BY <2>1, <3>1 DEF Plantel, config, colas, pcbs
    <3> QED
      BY <1>0, <3>2, CuentasQuieto
  <2> QED
    BY <1>0, <1>2, <2>1, <2>2, CuentasLargo, CuentasCorto, CuentasAgregar, CuentasAuxiliar,
       CuentasInicia DEF Planea
<1>3. CASE NextF
  BY <1>0, <1>2, <1>3, AlPaso, CuentasMata, CuentasFinaliza
<1> QED
  BY <1>1, <1>3

\* The multiprogramming degree drifts by one place at most with each FINALIZAR_PROCESO, up or
\* down, for any number of processes, threads and commands: agregar_a_exit gives back a place
\* that was not taken, or none for one that was, once per command and no more.
THEOREM GradoFinTeorema == SpecF => []GradoConMuertes
<1>1. InitF => TipoFin /\ Sitios /\ Cuentas
  BY TipoFinInicial, SitiosInicial, CuentasInicial
<1>2. TipoFin /\ Sitios /\ Cuentas /\ [NextF]_varsF => (TipoFin /\ Sitios /\ Cuentas)'
  <2>1. TipoFin /\ [NextF]_varsF => TipoFin'
    BY FormasPaso, BanderasPaso DEF TipoFin
  <2> QED
    BY <2>1, SitiosPaso, CuentasPaso
<1> QED
  BY <1>1, <1>2, CuentasGrado, PTL DEF SpecF

=============================================================================
