--------------------------- MODULE RecursosPruebas --------------------------
(***************************************************************************)
(* Proofs about the resources, for any number of processes, resources and  *)
(* instances.                                                              *)
(***************************************************************************)
EXTENDS Recursos, Lemas

-----------------------------------------------------------------------------
(* The type invariant: types, and what a thread has in its hands at each   *)
(* point.                                                                  *)

\* Points at which the planner has a process, and a thread a resource or another process.
ConPcb  == {"ejecuta", "toma_wait", "duerme_wait", "encola", "marca", "saca", "toma", "duerme",
            "entrega"}
ConOtro == {"toma", "duerme", "entrega"}
ConRec  == ConOtro \cup {"saca", "toma_wait", "duerme_wait", "encola", "marca"}

TipoHilo ==
  hilo \in [Hilos -> [pc : Etapas, pcb : Procesos \cup {Nadie},
                      rec : Recursos \cup {Ninguno}, otro : Procesos \cup {Nadie}]]
TipoFin == fin \in [Procesos -> [pc : EtapasFin, i : Recursos \cup {1}, j : Nat]]
TipoPcb ==
  /\ asignados \in [Procesos -> [Recursos -> Nat]]
  /\ pedidos \in [Procesos -> SUBSET Recursos]
  /\ requerido \in [Procesos -> Recursos \cup {Ninguno}]
  /\ block_recurso \subseteq Procesos
TipoColas ==
  /\ listos \subseteq Procesos /\ total_pcbs \in Seq(Procesos)
  /\ colas_recursos \in [Recursos -> Seq(Procesos)]
TipoCuentas ==
  /\ vector_recursos \in [Recursos -> Nat] /\ recursos_disponibles \in [Recursos -> Nat]
  /\ aguardar_deadlock \in Nat /\ esperando \in [Recursos -> Nat] /\ waits \in Nat
TipoResto ==
  /\ estado \in [Procesos -> {"READY", "EXEC", "BLOCK", "FIN"}]
  /\ deadlock \subseteq Procesos /\ fin_por_consola \subseteq Procesos
TipoFallo == fallo \in BOOLEAN

Manos ==
  /\ hilo["corto"].pc \in ConPcb => hilo["corto"].pcb \in Procesos
  /\ hilo["corto"].pc # "libre"
  /\ hilo["reparto"].pc \in {"libre", "saca"} \cup ConOtro
  /\ \A h \in Hilos : /\ hilo[h].pc \in ConRec => hilo[h].rec \in Recursos
                      /\ hilo[h].pc \in ConOtro => hilo[h].otro \in Procesos

Tipos == TipoHilo /\ TipoFin /\ TipoPcb /\ TipoColas /\ TipoCuentas /\ TipoResto

TipoInv == Tipos /\ TipoFallo /\ Manos

LEMMA TipoInvTipo == TipoInv => TipoOK
BY DEF TipoInv, Tipos, TipoHilo, TipoFin, TipoPcb, TipoColas, TipoCuentas, TipoResto,
   TipoFallo, TipoOK

LEMMA TipoInicial == Init => TipoInv
<1> SUFFICES ASSUME Init PROVE TipoInv
  OBVIOUS
<1>1. TipoHilo /\ Manos
  BY DEF Init, TipoHilo, Manos, Hilos, Reposo, Etapas, ConPcb, ConRec, ConOtro
<1>2. TipoFin
  BY DEF Init, TipoFin, FinReposo, EtapasFin
<1>3. TipoPcb
  BY DEF Init, TipoPcb, SinNada
<1>4. TipoColas
  <2>1. [i \in 1 .. NProcesos |-> i - 1] \in Seq(Procesos)
    BY ConstantesOK DEF Procesos
  <2> QED
    BY <2>1 DEF Init, TipoColas
<1>5. TipoCuentas
  BY ConstantesOK DEF Init, TipoCuentas, SinNada
<1>6. TipoResto
  BY DEF Init, TipoResto
<1>7. TipoFallo
  BY DEF Init, TipoFallo
<1> QED
  BY <1>1, <1>2, <1>3, <1>4, <1>5, <1>6, <1>7 DEF TipoInv, Tipos

-----------------------------------------------------------------------------
(* What a thread's step does to its own record *)

LEMMA AlSeguir ==
  ASSUME TipoHilo, NEW h \in Hilos, NEW l \in Etapas, Sigue(h, l)
  PROVE  /\ TipoHilo'
         /\ hilo'[h].pc = l /\ hilo'[h].pcb = hilo[h].pcb /\ hilo'[h].rec = hilo[h].rec
         /\ hilo'[h].otro = hilo[h].otro
         /\ \A g \in Hilos : g # h => hilo'[g] = hilo[g]
BY DEF TipoHilo, Sigue

LEMMA AlVolver ==
  ASSUME TipoHilo, NEW h \in Hilos, Vuelve(h)
  PROVE  /\ TipoHilo'
         /\ hilo'[h].pc = (IF h = "corto" THEN "ejecuta" ELSE "libre")
         /\ h = "corto" => hilo'[h].pcb = hilo[h].pcb
         /\ \A g \in Hilos : g # h => hilo'[g] = hilo[g]
<1>1. CASE h = "corto"
  <2> DEFINE x == [hilo[h] EXCEPT !.pc = "ejecuta", !.rec = Ninguno, !.otro = Nadie]
  <2>1. /\ x \in [pc : Etapas, pcb : Procesos \cup {Nadie},
                  rec : Recursos \cup {Ninguno}, otro : Procesos \cup {Nadie}]
        /\ x.pc = "ejecuta" /\ x.pcb = hilo[h].pcb
    BY DEF TipoHilo, Etapas
  <2>2. hilo' = [hilo EXCEPT ![h] = x]
    BY <1>1 DEF Vuelve
  <2> HIDE DEF x
  <2> QED
    BY <1>1, <2>1, <2>2 DEF TipoHilo
<1>2. CASE h # "corto"
  BY <1>2 DEF TipoHilo, Vuelve, Reposo, Etapas
<1> QED
  BY <1>1, <1>2

LEMMA AlReposar ==
  ASSUME TipoHilo, hilo' = [hilo EXCEPT !["corto"] = Reposo("corto")]
  PROVE  TipoHilo' /\ hilo'["corto"].pc = "elige" /\ hilo'["reparto"] = hilo["reparto"]
BY DEF TipoHilo, Reposo, Etapas, Hilos

LEMMA AlSeguirFin ==
  ASSUME TipoFin, NEW p \in Procesos, NEW l \in EtapasFin, SigueFin(p, l)
  PROVE  /\ TipoFin' /\ fin'[p].pc = l /\ fin'[p].i = fin[p].i /\ fin'[p].j = fin[p].j
         /\ \A q \in Procesos : q # p => fin'[q] = fin[q]
BY DEF TipoFin, SigueFin

LEMMA AlTomar ==
  ASSUME TipoCuentas, NEW r \in Recursos, vector_recursos[r] > 0, Toma(r)
  PROVE  /\ vector_recursos' \in [Recursos -> Nat]
         /\ vector_recursos'[r] = vector_recursos[r] - 1
         /\ \A t \in Recursos : t # r => vector_recursos'[t] = vector_recursos[t]
BY DEF TipoCuentas, Toma

LEMMA AlSoltar ==
  ASSUME TipoCuentas, NEW r \in Recursos, Suelta(r)
  PROVE  /\ vector_recursos' \in [Recursos -> Nat]
         /\ vector_recursos'[r] = vector_recursos[r] + 1
         /\ \A t \in Recursos : t # r => vector_recursos'[t] = vector_recursos[t]
BY DEF TipoCuentas, Suelta

LEMMA AlAsignar ==
  ASSUME TipoPcb, NEW p \in Procesos, NEW r \in Recursos, NEW n \in Nat,
         asignados' = [asignados EXCEPT ![p][r] = n]
  PROVE  /\ asignados' \in [Procesos -> [Recursos -> Nat]]
         /\ asignados'[p][r] = n
         /\ \A q \in Procesos, t \in Recursos :
              q # p \/ t # r => asignados'[q][t] = asignados[q][t]
BY DEF TipoPcb

-----------------------------------------------------------------------------
(* The type invariant is kept: the actions of sacar_de_block_recurso *)

LEMMA TipoSacar ==
  ASSUME TipoInv, NEW h \in Hilos, SacarDeBlockRecurso(h)
  PROVE  TipoInv'
<1> USE DEF Tipos, TipoInv
<1>h. "corto" \in Hilos /\ "reparto" \in Hilos
  BY DEF Hilos
<1>1. CASE Saca(h)
  <2> DEFINE r == hilo[h].rec
  <2>1. hilo[h].pc = "saca" /\ r \in Recursos
    BY <1>1 DEF Saca, En, Manos, ConRec
  <2>2. colas_recursos[r] \in Seq(Procesos)
    BY <2>1 DEF TipoColas
  <2>3. CASE colas_recursos[r] = <<>>
    <3>1. Vuelve(h) /\ UNCHANGED colas_recursos
      BY <1>1, <2>3 DEF Saca, Rec
    <3>2. TipoHilo' /\ Manos'
      BY <1>h, <2>1, <3>1, AlVolver DEF Manos, ConPcb, ConRec, ConOtro, Hilos
    <3> QED
      BY <1>1, <3>1, <3>2
      DEF Saca, TipoFin, TipoPcb, TipoColas, TipoCuentas, TipoResto, TipoFallo, campos, detector,
          avisos
  <2>4. CASE colas_recursos[r] # <<>>
    <3>1. /\ colas_recursos' = [colas_recursos EXCEPT ![r] = Front(colas_recursos[r])]
          /\ hilo' = [hilo EXCEPT ![h].pc = "toma", ![h].otro = Last(colas_recursos[r])]
      BY <1>1, <2>4 DEF Saca, Rec
    <3>2. Front(colas_recursos[r]) \in Seq(Procesos) /\ Last(colas_recursos[r]) \in Procesos
      BY <2>2, <2>4, AlSacarUltimo
    <3>3. TipoHilo'
      BY <3>1, <3>2 DEF TipoHilo, Etapas
    <3>4. Manos'
      BY <2>1, <3>1, <3>2, <1>h DEF TipoHilo, Manos, ConPcb, ConRec, ConOtro, Hilos
    <3>5. TipoColas'
      BY <1>1, <3>1, <3>2 DEF Saca, TipoColas
    <3> QED
      BY <1>1, <3>3, <3>4, <3>5
      DEF Saca, TipoFin, TipoPcb, TipoCuentas, TipoResto, TipoFallo, campos, detector, avisos
  <2> QED
    BY <2>3, <2>4
<1>2. CASE TomaInstancia(h)
  <2> DEFINE r == hilo[h].rec
  <2>1. hilo[h].pc = "toma" /\ r \in Recursos
    BY <1>2 DEF TomaInstancia, En, Manos, ConRec, ConOtro
  <2>2. /\ vector_recursos' \in [Recursos -> Nat]
        /\ Sigue(h, "entrega") \/ Sigue(h, "duerme")
    <3>1. CASE vector_recursos[r] > 0
      BY <1>2, <2>1, <3>1, AlTomar DEF TomaInstancia, Rec
    <3>2. CASE ~ (vector_recursos[r] > 0)
      BY <1>2, <2>1, <3>2 DEF TomaInstancia, Rec, TipoCuentas
    <3> QED
      BY <3>1, <3>2
  <2>3. TipoHilo' /\ Manos'
    <3>1. "entrega" \in Etapas /\ "duerme" \in Etapas
      BY DEF Etapas
    <3>2. PICK l \in {"entrega", "duerme"} : Sigue(h, l)
      BY <2>2
    <3> QED
      BY <1>h, <2>1, <3>1, <3>2, AlSeguir DEF Manos, ConPcb, ConRec, ConOtro, Hilos
  <2> QED
    BY <1>2, <2>2, <2>3
    DEF TomaInstancia, TipoFin, TipoPcb, TipoColas, TipoCuentas, TipoResto, TipoFallo, campos,
        detector, avisos
<1>3. CASE Entrega(h)
  <2> DEFINE r == hilo[h].rec
             p == hilo[h].otro
  <2>1. hilo[h].pc = "entrega" /\ r \in Recursos /\ p \in Procesos
    BY <1>3 DEF Entrega, En, Manos, ConRec, ConOtro
  <2>2. TipoPcb' /\ listos' \subseteq Procesos
    BY <1>3, <2>1 DEF Entrega, Rec, TipoPcb, TipoColas
  <2>3. TipoResto'
    BY <1>3, <2>1 DEF Entrega, TipoResto, detector
  <2>4. TipoHilo' /\ Manos'
    <3>1. Vuelve(h)
      BY <1>3 DEF Entrega
    <3> QED
      BY <1>h, <2>1, <3>1, AlVolver DEF Manos, ConPcb, ConRec, ConOtro, Hilos
  <2>5. TipoFallo'
    BY <1>3 DEF Entrega, TipoFallo, Vivo
  <2> QED
    BY <1>3, <2>2, <2>3, <2>4, <2>5 DEF Entrega, TipoFin, TipoColas, TipoCuentas, detector, avisos
<1> QED
  BY <1>1, <1>2, <1>3 DEF SacarDeBlockRecurso

-----------------------------------------------------------------------------
(* The type invariant is kept: the planner *)

\* The detector: the verdict is a set of processes.
LEMMA RestoTipo == TipoColas => Resto \subseteq Procesos
<1> SUFFICES ASSUME TipoColas PROVE Resto \subseteq Procesos
  OBVIOUS
<1>1. Filtrados \subseteq Procesos
  BY DEF Filtrados, TipoColas
<1> QED
  BY <1>1 DEF Resto

LEMMA LeerTipo ==
  ASSUME Tipos, LeeDisponibles
  PROVE  TipoPcb' /\ TipoColas' /\ TipoCuentas' /\ TipoResto' /\ UNCHANGED fallo
BY DEF Tipos, LeeDisponibles, TipoPcb, TipoColas, TipoCuentas, TipoResto, campos, avisos

LEMMA EvaluarTipo ==
  ASSUME Tipos, Evalua
  PROVE  TipoPcb' /\ TipoColas' /\ TipoCuentas' /\ TipoResto' /\ UNCHANGED fallo
<1>1. deadlock' \subseteq Procesos /\ recursos_disponibles' \in [Recursos -> Nat]
  BY RestoTipo DEF Tipos, Evalua, SinNada
<1> QED
  BY <1>1 DEF Tipos, Evalua, TipoPcb, TipoColas, TipoCuentas, TipoResto, campos, avisos

\* A step of the planner that moves only the planner, to a point where its hands are right.
LEMMA ManosCorto ==
  ASSUME Manos, hilo'["reparto"] = hilo["reparto"],
         hilo'["corto"].pc # "libre",
         hilo'["corto"].pc \in ConPcb => hilo'["corto"].pcb \in Procesos,
         hilo'["corto"].pc \in ConRec => hilo'["corto"].rec \in Recursos,
         hilo'["corto"].pc \notin ConOtro
  PROVE  Manos'
BY DEF Manos, Hilos

LEMMA TipoCorto ==
  ASSUME TipoInv, Corto
  PROVE  TipoInv'
<1> USE DEF Tipos, TipoInv
<1>h. "corto" \in Hilos /\ "reparto" \in Hilos
  BY DEF Hilos
<1>e. Etapas = Etapas \cup ConPcb \cup {"elige", "lee", "evalua", "espera"}
  BY DEF Etapas, ConPcb
<1>1. ASSUME NEW p \in Procesos, CortoElige(p) PROVE TipoInv'
  <2>1. TipoHilo' /\ Manos'
    <3>1. hilo' = [hilo EXCEPT !["corto"].pc = "ejecuta", !["corto"].pcb = p]
      BY <1>1 DEF CortoElige
    <3>2. /\ TipoHilo' /\ hilo'["reparto"] = hilo["reparto"]
          /\ hilo'["corto"].pc = "ejecuta" /\ hilo'["corto"].pcb = p
      BY <1>h, <3>1 DEF TipoHilo, Etapas, Hilos
    <3> QED
      BY <3>2, ManosCorto DEF ConRec, ConOtro
  <2>2. TipoFallo'
    BY <1>1 DEF CortoElige, TipoFallo, Vivo
  <2>3. TipoColas' /\ TipoResto'
    BY <1>1 DEF CortoElige, TipoColas, TipoResto, detector
  <2> QED
    BY <1>1, <2>1, <2>2, <2>3 DEF CortoElige, TipoFin, TipoPcb, TipoCuentas, campos, detector,
       avisos
<1>2. ASSUME NEW r \in Recursos, CortoWait(r) PROVE TipoInv'
  <2>1. TipoHilo' /\ Manos'
    <3> DEFINE l == IF vector_recursos[r] > 0 THEN "toma_wait" ELSE "encola"
    <3>1. hilo' = [hilo EXCEPT !["corto"].rec = r, !["corto"].pc = l]
      BY <1>2 DEF CortoWait
    <3>2. l \in {"toma_wait", "encola"}
      OBVIOUS
    <3> HIDE DEF l
    <3>3. /\ TipoHilo' /\ hilo'["reparto"] = hilo["reparto"]
          /\ hilo'["corto"].pc = l /\ hilo'["corto"].pcb = hilo["corto"].pcb
          /\ hilo'["corto"].rec = r
      BY <1>h, <3>1, <3>2 DEF TipoHilo, Etapas, Hilos
    <3>4. hilo["corto"].pcb \in Procesos
      BY <1>2 DEF CortoWait, En, Manos, ConPcb
    <3> QED
      BY <3>2, <3>3, <3>4, ManosCorto DEF ConOtro
  <2> QED
    BY <1>2, <2>1 DEF CortoWait, TipoFin, TipoPcb, TipoColas, TipoCuentas, TipoResto, TipoFallo,
       campos, detector, avisos
<1>3. CASE CortoToma
  <2> DEFINE r == hilo["corto"].rec
             p == hilo["corto"].pcb
  <2>1. r \in Recursos /\ p \in Procesos
    BY <1>3, <1>h DEF CortoToma, En, Manos, ConPcb, ConRec
  <2>2. CASE vector_recursos[r] > 0
    <3>1. /\ Toma(r) /\ Vuelve("corto")
          /\ asignados' = [asignados EXCEPT ![p][r] = asignados[p][r] + 1]
      BY <1>3, <2>2 DEF CortoToma, Rec, Pcb
    <3>2. TipoPcb'
      <4>1. asignados[p][r] + 1 \in Nat
        BY <2>1 DEF TipoPcb
      <4>2. asignados' \in [Procesos -> [Recursos -> Nat]]
        BY <2>1, <3>1, <4>1, AlAsignar
      <4> QED
        BY <1>3, <4>2 DEF CortoToma, TipoPcb
    <3>3. TipoCuentas'
      BY <1>3, <2>1, <2>2, <3>1, AlTomar DEF CortoToma, TipoCuentas, avisos, detector
    <3>4. /\ TipoHilo' /\ hilo'["corto"].pc = "ejecuta"
          /\ hilo'["corto"].pcb = p /\ hilo'["reparto"] = hilo["reparto"]
      BY <1>h, <3>1, AlVolver DEF Hilos
    <3>5. Manos'
      BY <2>1, <3>4, ManosCorto DEF ConRec, ConOtro
    <3> QED
      BY <1>3, <3>2, <3>3, <3>4, <3>5 DEF CortoToma, TipoFin, TipoColas, TipoResto, TipoFallo,
         detector
  <2>3. CASE ~ (vector_recursos[r] > 0)
    <3>1. Sigue("corto", "duerme_wait") /\ UNCHANGED <<vector_recursos, asignados>>
      BY <1>3, <2>3 DEF CortoToma, Rec
    <3>2. /\ TipoHilo' /\ hilo'["corto"].pc = "duerme_wait" /\ hilo'["corto"].pcb = p
          /\ hilo'["corto"].rec = r /\ hilo'["reparto"] = hilo["reparto"]
      BY <1>h, <3>1, AlSeguir DEF Etapas, Hilos
    <3>3. Manos'
      BY <2>1, <3>2, ManosCorto DEF ConOtro
    <3> QED
      BY <1>3, <3>1, <3>2, <3>3 DEF CortoToma, TipoFin, TipoPcb, TipoColas, TipoCuentas,
         TipoResto, TipoFallo, detector, avisos
  <2> QED
    BY <2>2, <2>3
<1>4. CASE CortoEncola
  <2> DEFINE r == hilo["corto"].rec
             p == hilo["corto"].pcb
  <2>1. r \in Recursos /\ p \in Procesos
    BY <1>4, <1>h DEF CortoEncola, En, Manos, ConPcb, ConRec
  <2>2. TipoPcb' /\ TipoColas'
    <3>1. /\ requerido' = [requerido EXCEPT ![p] = r]
          /\ colas_recursos' = [colas_recursos EXCEPT ![r] = Append(@, p)]
      BY <1>4 DEF CortoEncola, Rec, Pcb
    <3>2. Append(colas_recursos[r], p) \in Seq(Procesos)
      BY <2>1 DEF TipoColas
    <3>3. TipoPcb'
      BY <1>4, <2>1, <3>1 DEF CortoEncola, TipoPcb
    <3>4. UNCHANGED <<listos, total_pcbs>>
      BY <1>4 DEF CortoEncola
    <3>5. TipoColas'
      BY <2>1, <3>1, <3>2, <3>4 DEF TipoColas
    <3> QED
      BY <3>3, <3>5
  <2>3. /\ TipoHilo' /\ hilo'["corto"].pc = "marca" /\ hilo'["corto"].pcb = p
        /\ hilo'["corto"].rec = r /\ hilo'["reparto"] = hilo["reparto"]
    <3>1. Sigue("corto", "marca") /\ "marca" \in Etapas
      BY <1>4 DEF CortoEncola, Etapas
    <3> QED
      BY <1>h, <3>1, AlSeguir DEF Hilos
  <2>4. Manos'
    BY <2>1, <2>3, ManosCorto DEF ConOtro
  <2> QED
    BY <1>4, <2>2, <2>3, <2>4 DEF CortoEncola, TipoFin, TipoCuentas, TipoResto, TipoFallo,
       detector, avisos
<1>5. CASE CortoMarca
  <2> DEFINE r == hilo["corto"].rec
             p == hilo["corto"].pcb
  <2>1. r \in Recursos /\ p \in Procesos
    BY <1>5, <1>h DEF CortoMarca, En, Manos, ConPcb, ConRec
  <2>2. TipoPcb' /\ TipoResto'
    BY <1>5, <2>1 DEF CortoMarca, TipoPcb, TipoResto, Rec, Pcb, detector
  <2>3. TipoHilo' /\ hilo'["corto"].pc = "lee" /\ hilo'["reparto"] = hilo["reparto"]
    BY <1>5, <1>h DEF CortoMarca, TipoHilo, Reposo, Etapas, Hilos
  <2>4. Manos'
    BY <2>3, ManosCorto DEF ConOtro, ConRec, ConPcb
  <2> QED
    BY <1>5, <2>2, <2>3, <2>4 DEF CortoMarca, TipoFin, TipoColas, TipoCuentas, TipoFallo,
       detector, avisos
<1>6. CASE CortoLee \/ CortoEvalua
  <2>1. TipoPcb' /\ TipoColas' /\ TipoCuentas' /\ TipoResto' /\ TipoFin' /\ TipoFallo'
    BY <1>6, LeerTipo, EvaluarTipo DEF CortoLee, CortoEvalua, TipoFin, TipoFallo
  <2>2. PICK l \in {"evalua", "espera"} : Sigue("corto", l)
    BY <1>6 DEF CortoLee, CortoEvalua
  <2>3. TipoHilo' /\ hilo'["corto"].pc = l /\ hilo'["reparto"] = hilo["reparto"]
    BY <1>h, <2>2, AlSeguir DEF Etapas, Hilos
  <2>4. Manos'
    BY <2>2, <2>3, ManosCorto DEF ConOtro, ConRec, ConPcb
  <2> QED
    BY <2>1, <2>3, <2>4
<1>7. CASE CortoContinua
  <2>1. TipoHilo' /\ hilo'["corto"].pc = "elige" /\ hilo'["reparto"] = hilo["reparto"]
    BY <1>7, AlReposar DEF CortoContinua
  <2>2. Manos'
    BY <2>1, ManosCorto DEF ConOtro, ConRec, ConPcb
  <2> QED
    BY <1>7, <2>1, <2>2 DEF CortoContinua, TipoFin, TipoPcb, TipoColas, TipoCuentas, TipoResto,
       TipoFallo, campos, detector, avisos
<1>8. ASSUME NEW r \in Recursos, CortoSignal(r) PROVE TipoInv'
  <2> DEFINE p == hilo["corto"].pcb
  <2>1. p \in Procesos /\ hilo["corto"].pc = "ejecuta"
    BY <1>8 DEF CortoSignal, En, Manos, ConPcb
  <2>2. TipoPcb'
    <3>1. /\ asignados' = [asignados EXCEPT ![p][r] = asignados[p][r] - 1]
          /\ asignados[p][r] > 0
      BY <1>8 DEF CortoSignal, Pcb
    <3>2. asignados[p][r] - 1 \in Nat
      BY <2>1, <3>1 DEF TipoPcb
    <3>3. asignados' \in [Procesos -> [Recursos -> Nat]]
      BY <2>1, <3>1, <3>2, AlAsignar
    <3> QED
      BY <1>8, <3>3 DEF CortoSignal, TipoPcb
  <2>3. TipoCuentas'
    <3>1. Suelta(r)
      BY <1>8 DEF CortoSignal
    <3> QED
      BY <1>8, <3>1, AlSoltar DEF CortoSignal, TipoCuentas, avisos, detector
  <2>4. TipoHilo' /\ Manos'
    <3>1. CASE UNCHANGED hilo
      BY <3>1 DEF TipoHilo, Manos
    <3>2. CASE hilo' = [hilo EXCEPT !["corto"].pc = "saca", !["corto"].rec = r]
      <4>1. /\ TipoHilo' /\ hilo'["corto"].pc = "saca" /\ hilo'["corto"].pcb = p
            /\ hilo'["corto"].rec = r /\ hilo'["reparto"] = hilo["reparto"]
        BY <1>h, <3>2 DEF TipoHilo, Etapas, Hilos
      <4> QED
        BY <2>1, <4>1, ManosCorto DEF ConOtro
    <3> QED
      BY <1>8, <3>1, <3>2 DEF CortoSignal
  <2> QED
    BY <1>8, <2>2, <2>3, <2>4 DEF CortoSignal, TipoFin, TipoColas, TipoResto, TipoFallo, detector
<1>9. CASE CortoFinaliza
  <2> DEFINE p == hilo["corto"].pcb
  <2>1. p \in Procesos
    BY <1>9 DEF CortoFinaliza, En, Manos, ConPcb
  <2>2. TipoFin'
    <3>1. SigueFin(p, "quita") /\ "quita" \in EtapasFin
      BY <1>9 DEF CortoFinaliza, Pcb, EtapasFin
    <3> QED
      BY <2>1, <3>1, AlSeguirFin
  <2>3. TipoResto' /\ TipoFallo'
    BY <1>9, <2>1 DEF CortoFinaliza, Pcb, TipoResto, TipoFallo, detector
  <2>4. TipoHilo' /\ hilo'["corto"].pc = "elige" /\ hilo'["reparto"] = hilo["reparto"]
    BY <1>9, AlReposar DEF CortoFinaliza
  <2>5. Manos'
    BY <2>4, ManosCorto DEF ConOtro, ConRec, ConPcb
  <2> QED
    BY <1>9, <2>2, <2>3, <2>4, <2>5 DEF CortoFinaliza, TipoPcb, TipoColas, TipoCuentas, campos,
       detector, avisos
<1>10. CASE CortoDesaloja
  <2> DEFINE p == hilo["corto"].pcb
  <2>1. p \in Procesos
    BY <1>10 DEF CortoDesaloja, En, Manos, ConPcb
  <2>2. TipoColas' /\ TipoResto'
    BY <1>10, <2>1 DEF CortoDesaloja, Pcb, TipoColas, TipoResto, detector
  <2>3. TipoHilo' /\ hilo'["corto"].pc = "elige" /\ hilo'["reparto"] = hilo["reparto"]
    BY <1>10, AlReposar DEF CortoDesaloja
  <2>4. Manos'
    BY <2>3, ManosCorto DEF ConOtro, ConRec, ConPcb
  <2> QED
    BY <1>10, <2>2, <2>3, <2>4 DEF CortoDesaloja, TipoFin, TipoPcb, TipoCuentas, TipoFallo,
       campos, detector, avisos
<1>11. CASE SacarDeBlockRecurso("corto")
  BY <1>h, <1>11, TipoSacar
<1> QED
  BY <1>1, <1>2, <1>3, <1>4, <1>5, <1>6, <1>7, <1>8, <1>9, <1>10, <1>11 DEF Corto

-----------------------------------------------------------------------------
(* The type invariant is kept: the exit threads, the operator, the hand-over thread *)

LEMMA TipoSalida ==
  ASSUME TipoInv, NEW p \in Procesos, AgregarAExit(p) \/ Finalizar(p)
  PROVE  TipoInv'
<1> USE DEF Tipos, TipoInv
<1>e. {"quita", "mata", "devuelve", "borra", "lee", "evalua", "avisa", "libre"} \subseteq EtapasFin
  BY DEF EtapasFin
<1>1. CASE Finalizar(p)
  <2>1. TipoFin'
    BY <1>1, <1>e, AlSeguirFin DEF Finalizar
  <2> QED
    BY <1>1, <2>1 DEF Finalizar, TipoHilo, TipoPcb, TipoColas, TipoCuentas, TipoResto, TipoFallo,
       Manos, campos, detector, avisos
<1>2. CASE FinMata(p)
  <2>1. TipoFin'
    BY <1>2, <1>e, AlSeguirFin DEF FinMata
  <2>2. TipoColas' /\ TipoResto'
    BY <1>2 DEF FinMata, TipoColas, TipoResto, detector
  <2> QED
    BY <1>2, <2>1, <2>2 DEF FinMata, TipoHilo, TipoPcb, TipoCuentas, TipoFallo, Manos, campos,
       detector, avisos
<1>3. CASE FinQuita(p)
  <2>1. TipoFin'
    BY <1>3, <1>e, AlSeguirFin DEF FinQuita
  <2>2. colas_recursos' \in [Recursos -> Seq(Procesos)]
    <3> DEFINE r == requerido[p]
    <3>1. CASE r = Ninguno
      BY <1>3, <3>1 DEF FinQuita, TipoColas
    <3>2. CASE r # Ninguno
      <4>1. r \in Recursos
        BY <3>2 DEF TipoPcb
      <4>2. RemoveFirst(colas_recursos[r], p) \in Seq(Procesos)
        BY <4>1, AlQuitarPrimero DEF TipoColas
      <4>3. colas_recursos' = [colas_recursos EXCEPT ![r] = RemoveFirst(@, p)]
        BY <1>3, <3>2 DEF FinQuita
      <4> QED
        BY <4>1, <4>2, <4>3 DEF TipoColas
    <3> QED
      BY <3>1, <3>2
  <2> QED
    BY <1>3, <2>1, <2>2 DEF FinQuita, TipoHilo, TipoPcb, TipoColas, TipoCuentas, TipoResto,
       TipoFallo, Manos, campos, detector, avisos
<1>4. CASE FinDevuelve(p)
  <2>1. TipoFin' /\ TipoCuentas'
    <3>1. CASE SigueFin(p, "borra") /\ UNCHANGED <<vector_recursos, esperando>>
      BY <1>4, <1>e, <3>1, AlSeguirFin DEF FinDevuelve, TipoCuentas, detector
    <3>2. ASSUME NEW i \in Recursos, Suelta(i),
                 esperando' = [esperando EXCEPT ![i] = @ + 1],
                 fin' = [fin EXCEPT ![p].i = i, ![p].j = IF i = fin[p].i THEN @ + 1 ELSE 1]
          PROVE  TipoFin' /\ TipoCuentas'
      <4>1. TipoFin'
        <5> DEFINE n == IF i = fin[p].i THEN fin[p].j + 1 ELSE 1
        <5>1. n \in Nat
          BY DEF TipoFin
        <5>2. fin' = [fin EXCEPT ![p].i = i, ![p].j = n]
          BY <3>2 DEF TipoFin
        <5> HIDE DEF n
        <5> QED
          BY <5>1, <5>2 DEF TipoFin
      <4>2. TipoCuentas'
        BY <1>4, <3>2, AlSoltar DEF FinDevuelve, TipoCuentas, detector
      <4> QED
        BY <4>1, <4>2
    <3> QED
      BY <1>4, <3>1, <3>2 DEF FinDevuelve
  <2> QED
    BY <1>4, <2>1 DEF FinDevuelve, TipoHilo, TipoPcb, TipoColas, TipoResto, TipoFallo, Manos,
       campos, detector
<1>5. CASE FinBorra(p)
  <2>1. TipoFin'
    <3> DEFINE l == IF p \in fin_por_consola THEN "lee" ELSE "libre"
    <3>1. fin' = [fin EXCEPT ![p] = [FinReposo EXCEPT !.pc = l]] /\ l \in EtapasFin
      BY <1>5, <1>e DEF FinBorra
    <3> HIDE DEF l
    <3> QED
      BY <3>1 DEF FinReposo, TipoFin
  <2>2. TipoPcb'
    BY <1>5 DEF FinBorra, TipoPcb, SinNada
  <2>3. TipoColas'
    <3>1. RemoveFirst(total_pcbs, p) \in Seq(Procesos)
      BY AlQuitarPrimero DEF TipoColas
    <3> QED
      BY <1>5, <3>1 DEF FinBorra, TipoColas
  <2> QED
    BY <1>5, <2>1, <2>2, <2>3 DEF FinBorra, TipoHilo, TipoCuentas, TipoResto, TipoFallo, Manos,
       detector, avisos
<1>6. CASE FinLee(p) \/ FinEvalua(p)
  <2>1. TipoPcb' /\ TipoColas' /\ TipoCuentas' /\ TipoResto' /\ TipoFallo'
    BY <1>6, LeerTipo, EvaluarTipo DEF FinLee, FinEvalua, TipoFallo
  <2>2. TipoFin' /\ TipoHilo' /\ Manos'
    BY <1>6, <1>e, AlSeguirFin DEF FinLee, FinEvalua, TipoHilo, Manos
  <2> QED
    BY <2>1, <2>2
<1>7. CASE FinAvisa(p)
  <2>1. TipoFin'
    BY <1>7, <1>e, AlSeguirFin DEF FinAvisa
  <2>2. TipoCuentas'
    BY <1>7 DEF FinAvisa, TipoCuentas, detector
  <2> QED
    BY <1>7, <2>1, <2>2 DEF FinAvisa, TipoHilo, TipoPcb, TipoColas, TipoResto, TipoFallo, Manos,
       campos, detector
<1> QED
  BY <1>1, <1>2, <1>3, <1>4, <1>5, <1>6, <1>7 DEF AgregarAExit

LEMMA TipoReparto ==
  ASSUME TipoInv, Reparto
  PROVE  TipoInv'
<1> USE DEF Tipos, TipoInv
<1>h. "corto" \in Hilos /\ "reparto" \in Hilos
  BY DEF Hilos
<1>1. ASSUME NEW r \in Recursos, RepartoDespierta(r) PROVE TipoInv'
  <2>1. hilo' = [hilo EXCEPT !["reparto"].pc = "saca", !["reparto"].rec = r]
    BY <1>1 DEF RepartoDespierta
  <2>2. /\ TipoHilo' /\ hilo'["corto"] = hilo["corto"]
        /\ hilo'["reparto"].pc = "saca" /\ hilo'["reparto"].rec = r
    BY <1>h, <2>1 DEF TipoHilo, Etapas, Hilos
  <2>4. Manos'
    BY <2>2 DEF Manos, ConOtro, ConRec, Hilos
  <2>5. TipoCuentas'
    BY <1>1 DEF RepartoDespierta, TipoCuentas, detector
  <2> QED
    BY <1>1, <2>2, <2>4, <2>5 DEF RepartoDespierta, TipoFin, TipoPcb, TipoColas, TipoResto,
       TipoFallo, campos, detector
<1>2. CASE SacarDeBlockRecurso("reparto")
  BY <1>h, <1>2, TipoSacar
<1> QED
  BY <1>1, <1>2 DEF Reparto

LEMMA TipoPaso == TipoInv /\ [Next]_vars => TipoInv'
<1> SUFFICES ASSUME TipoInv, [Next]_vars PROVE TipoInv'
  OBVIOUS
<1>1. CASE UNCHANGED vars
  BY <1>1 DEF vars, campos, detector, avisos, TipoInv, Tipos, TipoHilo, TipoFin, TipoPcb,
     TipoColas, TipoCuentas, TipoResto, TipoFallo, Manos
<1>2. CASE Next
  BY <1>2, TipoCorto, TipoReparto, TipoSalida DEF Next
<1> QED
  BY <1>1, <1>2

LEMMA TipoSiempre == Spec => []TipoInv
BY TipoInicial, TipoPaso, PTL DEF Spec

\* Every variable keeps its type: semaphores and counters never go below zero, the queues hold
\* processes, for any number of processes, resources, instances and kills.
THEOREM TipoTeorema == Spec => []TipoOK
BY TipoSiempre, TipoInvTipo, PTL

-----------------------------------------------------------------------------
(* Until somebody is killed: nobody posts aguardar_deadlock, so nobody but the planner takes *)
(* instances, and every instance beside a waiter is announced by a thread.                   *)

\* The instance of the SIGNAL the planner is serving is for the waiter it is about to wake.
Reservada(r) == IF hilo["corto"].pc \in {"saca", "toma"} /\ hilo["corto"].rec = r THEN 1 ELSE 0

\* r has a waiter, or the planner is about to put one there.
ConEspera(r) == \/ colas_recursos[r] # <<>>
                \/ hilo["corto"].pc = "encola" /\ hilo["corto"].rec = r

Quietos ==
  /\ aguardar_deadlock = 0
  /\ hilo["reparto"].pc = "libre"
  /\ \A p \in Procesos : fin[p].pc \notin {"mata", "lee", "evalua", "avisa"}

Despierto ==
  /\ hilo["corto"].pc \notin {"duerme", "duerme_wait"}
  /\ hilo["corto"].pc \in {"toma_wait", "saca", "toma"} => vector_recursos[hilo["corto"].rec] > 0

Anunciadas ==
  \A r \in Recursos : vector_recursos[r] > Reservada(r) /\ ConEspera(r) => esperando[r] > 0

SinMuertes == fin_por_consola = {} => Quietos /\ Despierto /\ Anunciadas

LEMMA SinMuertesInicial == Init => SinMuertes
<1> SUFFICES ASSUME Init PROVE Quietos /\ Despierto /\ Anunciadas
  BY DEF SinMuertes
<1>1. hilo["corto"].pc = "elige" /\ hilo["reparto"].pc = "libre"
  BY DEF Init, Hilos, Reposo
<1>2. Quietos
  BY <1>1 DEF Init, Quietos, FinReposo
<1>3. Despierto
  BY <1>1 DEF Despierto
<1>4. Anunciadas
  BY <1>1 DEF Init, Anunciadas, ConEspera
<1> QED
  BY <1>2, <1>3, <1>4

LEMMA SinMuertesImplica == TipoInv /\ SinMuertes => NadieDuerme /\ EntregaPendiente
<1> SUFFICES ASSUME TipoInv, SinMuertes, fin_por_consola = {}
             PROVE  NadieDuerme /\ EntregaPendiente
  BY DEF NadieDuerme, EntregaPendiente
<1>1. Quietos /\ Despierto /\ Anunciadas
  BY DEF SinMuertes
<1>2. NadieDuerme
  BY <1>1 DEF NadieDuerme, InstLibre, Quietos, Despierto, Hilos
<1>3. EntregaPendiente
  <2> SUFFICES ASSUME NEW r \in Recursos, vector_recursos[r] > 0, colas_recursos[r] # <<>>
               PROVE  \/ esperando[r] > 0
                      \/ \E h \in Hilos : hilo[h].pc \in {"saca", "toma"} /\ Rec(h) = r
    BY DEF EntregaPendiente
  <2>1. CASE Reservada(r) = 0
    BY <1>1, <2>1 DEF Anunciadas, ConEspera
  <2>2. CASE Reservada(r) # 0
    BY <2>2 DEF Reservada, Rec, Hilos
  <2> QED
    BY <2>1, <2>2
<1> QED
  BY <1>2, <1>3

\* A step of the planner that posts and takes nothing, and puts nobody into a queue.
LEMMA AnunciadasIgual ==
  ASSUME Anunciadas, UNCHANGED <<vector_recursos, esperando>>,
         \A r \in Recursos : ConEspera(r)' => ConEspera(r),
         \A r \in Recursos : Reservada(r)' = Reservada(r)
  PROVE  Anunciadas'
BY DEF Anunciadas

LEMMA SinMuertesCorto ==
  ASSUME TipoInv, Quietos, Despierto, Anunciadas, Corto
  PROVE  (Quietos /\ Despierto /\ Anunciadas)'
<1> USE DEF TipoInv, Tipos
<1>h. "corto" \in Hilos /\ "reparto" \in Hilos /\ Hilos = {"corto", "reparto"}
  BY DEF Hilos
\* Reservada is zero or one; what follows holds away from sacar_de_block_recurso.
<1>r. \A r \in Recursos : Reservada(r) \in {0, 1}
  BY DEF Reservada
<1>1. ASSUME NEW p \in Procesos, CortoElige(p) PROVE (Quietos /\ Despierto /\ Anunciadas)'
  <2>1. /\ hilo'["corto"].pc = "ejecuta" /\ hilo'["reparto"] = hilo["reparto"]
        /\ hilo["corto"].pc = "elige"
    BY <1>1, <1>h DEF CortoElige, TipoHilo, En
  <2>2. Anunciadas'
    BY <1>1, <2>1, AnunciadasIgual DEF CortoElige, ConEspera, Reservada, avisos
  <2> QED
    BY <1>1, <2>1, <2>2 DEF CortoElige, Quietos, Despierto, avisos
<1>2. ASSUME NEW r \in Recursos, CortoWait(r) PROVE (Quietos /\ Despierto /\ Anunciadas)'
  <2> DEFINE l == IF vector_recursos[r] > 0 THEN "toma_wait" ELSE "encola"
  <2>1. /\ hilo'["corto"].pc = l /\ hilo'["corto"].rec = r /\ hilo'["reparto"] = hilo["reparto"]
        /\ hilo["corto"].pc = "ejecuta"
    BY <1>2, <1>h DEF CortoWait, TipoHilo, En
  <2>2. UNCHANGED <<vector_recursos, esperando, colas_recursos, aguardar_deadlock, fin>>
    BY <1>2 DEF CortoWait, avisos
  <2>3. Anunciadas'
    BY <2>1, <2>2 DEF Anunciadas, ConEspera, Reservada
  <2> QED
    BY <2>1, <2>2, <2>3 DEF Quietos, Despierto
<1>3. CASE CortoToma
  <2> DEFINE r == hilo["corto"].rec
  <2>1. r \in Recursos /\ vector_recursos[r] > 0 /\ hilo["corto"].pc = "toma_wait"
    BY <1>3, <1>h DEF CortoToma, En, Manos, ConRec, Despierto
  <2>2. Toma(r) /\ Vuelve("corto")
    BY <1>3, <2>1 DEF CortoToma, Rec
  <2>3. hilo'["corto"].pc = "ejecuta" /\ hilo'["reparto"] = hilo["reparto"]
    BY <1>h, <2>2, AlVolver
  <2>4. \A t \in Recursos : vector_recursos'[t] <= vector_recursos[t]
    BY <2>1, <2>2, AlTomar DEF TipoCuentas
  <2>5. UNCHANGED <<esperando, colas_recursos, aguardar_deadlock, fin>>
    BY <1>3 DEF CortoToma, avisos
  <2>6. vector_recursos' \in [Recursos -> Nat]
    BY <2>1, <2>2, AlTomar
  <2>7. Anunciadas'
    BY <2>1, <2>3, <2>4, <2>5, <2>6 DEF Anunciadas, ConEspera, Reservada, TipoCuentas
  <2> QED
    BY <2>3, <2>5, <2>7 DEF Quietos, Despierto
<1>4. CASE CortoEncola
  <2> DEFINE r == hilo["corto"].rec
  <2>1. r \in Recursos /\ hilo["corto"].pc = "encola"
    BY <1>4, <1>h DEF CortoEncola, En, Manos, ConRec
  <2>2. /\ hilo'["corto"].pc = "marca" /\ hilo'["reparto"] = hilo["reparto"]
    BY <1>4, <1>h, AlSeguir DEF CortoEncola, Etapas
  <2>3. /\ UNCHANGED <<vector_recursos, esperando, aguardar_deadlock, fin>>
        /\ \A t \in Recursos : t # r => colas_recursos'[t] = colas_recursos[t]
    BY <1>4 DEF CortoEncola, avisos, TipoColas, Rec
  <2>4. Anunciadas'
    BY <2>1, <2>2, <2>3, AnunciadasIgual DEF ConEspera, Reservada
  <2> QED
    BY <2>2, <2>3, <2>4 DEF Quietos, Despierto
<1>5. CASE CortoMarca \/ CortoLee \/ CortoEvalua \/ CortoContinua
  <2>1. /\ hilo["corto"].pc \in {"marca", "lee", "evalua", "espera"}
        /\ hilo'["corto"].pc \in {"lee", "evalua", "espera", "elige"}
        /\ hilo'["reparto"] = hilo["reparto"]
    <3>1. CASE CortoMarca \/ CortoContinua
      BY <1>h, <3>1 DEF CortoMarca, CortoContinua, TipoHilo, Reposo, En
    <3>2. CASE CortoLee \/ CortoEvalua
      BY <1>h, <3>2, AlSeguir DEF CortoLee, CortoEvalua, En, Etapas
    <3> QED
      BY <1>5, <3>1, <3>2
  <2>2. UNCHANGED <<vector_recursos, esperando, colas_recursos, aguardar_deadlock, fin>>
    BY <1>5 DEF CortoMarca, CortoLee, CortoEvalua, CortoContinua, LeeDisponibles, Evalua, avisos
  <2>3. Anunciadas'
    BY <2>1, <2>2, AnunciadasIgual DEF ConEspera, Reservada
  <2> QED
    BY <2>1, <2>2, <2>3 DEF Quietos, Despierto
<1>6. ASSUME NEW r \in Recursos, CortoSignal(r) PROVE (Quietos /\ Despierto /\ Anunciadas)'
  <2>1. hilo["corto"].pc = "ejecuta" /\ Suelta(r)
    BY <1>6 DEF CortoSignal, En
  <2>2. UNCHANGED <<esperando, colas_recursos, aguardar_deadlock, fin>>
    BY <1>6 DEF CortoSignal, avisos
  <2>3. /\ vector_recursos' \in [Recursos -> Nat]
        /\ vector_recursos'[r] = vector_recursos[r] + 1
        /\ \A t \in Recursos : t # r => vector_recursos'[t] = vector_recursos[t]
    BY <2>1, AlSoltar
  <2>4. CASE colas_recursos[r] = <<>>
    <3>1. UNCHANGED hilo
      BY <1>6, <2>4 DEF CortoSignal
    <3>2. Anunciadas'
      BY <2>1, <2>2, <2>3, <2>4, <3>1 DEF Anunciadas, ConEspera, Reservada
    <3> QED
      BY <2>1, <2>2, <3>1, <3>2 DEF Quietos, Despierto
  <2>5. CASE colas_recursos[r] # <<>>
    <3>1. /\ hilo'["corto"].pc = "saca" /\ hilo'["corto"].rec = r
          /\ hilo'["reparto"] = hilo["reparto"]
      BY <1>6, <1>h, <2>5 DEF CortoSignal, TipoHilo
    <3>2. vector_recursos[r] \in Nat
      BY DEF TipoCuentas
    <3>3. Anunciadas'
      BY <2>1, <2>2, <2>3, <3>1, <3>2 DEF Anunciadas, ConEspera, Reservada
    <3> QED
      BY <2>2, <2>3, <3>1, <3>2, <3>3 DEF Quietos, Despierto
  <2> QED
    BY <2>4, <2>5
<1>7. CASE CortoFinaliza
  <2>1. hilo["corto"].pc = "ejecuta" /\ hilo["corto"].pcb \in Procesos
    BY <1>7 DEF CortoFinaliza, En, Manos, ConPcb
  <2>2. hilo'["corto"].pc = "elige" /\ hilo'["reparto"] = hilo["reparto"]
    BY <1>7, AlReposar DEF CortoFinaliza
  <2>3. UNCHANGED <<vector_recursos, esperando, colas_recursos, aguardar_deadlock>>
    BY <1>7 DEF CortoFinaliza, avisos
  <2>4. Quietos'
    BY <1>7, <2>1, <2>2, <2>3, AlSeguirFin DEF CortoFinaliza, Quietos, Pcb, EtapasFin
  <2>5. Anunciadas'
    BY <2>1, <2>2, <2>3, AnunciadasIgual DEF ConEspera, Reservada
  <2> QED
    BY <2>2, <2>4, <2>5 DEF Despierto
<1>8. CASE CortoDesaloja
  <2>1. hilo["corto"].pc = "ejecuta"
    BY <1>8 DEF CortoDesaloja, En
  <2>2. hilo'["corto"].pc = "elige" /\ hilo'["reparto"] = hilo["reparto"]
    BY <1>8, AlReposar DEF CortoDesaloja
  <2>3. UNCHANGED <<vector_recursos, esperando, colas_recursos, aguardar_deadlock, fin>>
    BY <1>8 DEF CortoDesaloja, avisos
  <2>4. Anunciadas'
    BY <2>1, <2>2, <2>3, AnunciadasIgual DEF ConEspera, Reservada
  <2> QED
    BY <2>2, <2>3, <2>4 DEF Quietos, Despierto
<1>9. CASE Saca("corto")
  <2> DEFINE r == hilo["corto"].rec
  <2>1. r \in Recursos /\ hilo["corto"].pc = "saca" /\ colas_recursos[r] \in Seq(Procesos)
    BY <1>9, <1>h DEF Saca, En, Manos, ConRec, TipoColas
  <2>2. UNCHANGED <<vector_recursos, esperando, aguardar_deadlock, fin>>
    BY <1>9 DEF Saca, avisos
  <2>3. CASE colas_recursos[r] = <<>>
    <3>1. Vuelve("corto") /\ UNCHANGED colas_recursos
      BY <1>9, <2>3 DEF Saca, Rec
    <3>2. hilo'["corto"].pc = "ejecuta" /\ hilo'["reparto"] = hilo["reparto"]
      BY <1>h, <3>1, AlVolver
    <3>3. Anunciadas'
      BY <2>1, <2>2, <2>3, <3>1, <3>2 DEF Anunciadas, ConEspera, Reservada
    <3> QED
      BY <2>2, <3>2, <3>3 DEF Quietos, Despierto
  <2>4. CASE colas_recursos[r] # <<>>
    <3>1. /\ colas_recursos' = [colas_recursos EXCEPT ![r] = Front(colas_recursos[r])]
          /\ hilo'["corto"].pc = "toma" /\ hilo'["corto"].rec = r
          /\ hilo'["reparto"] = hilo["reparto"]
      BY <1>9, <1>h, <2>4 DEF Saca, Rec, TipoHilo
    <3>2. \A t \in Recursos : ConEspera(t)' => ConEspera(t)
      BY <2>4, <3>1 DEF ConEspera, TipoColas
    <3>3. Anunciadas'
      BY <2>1, <2>2, <3>1, <3>2, AnunciadasIgual DEF Reservada
    <3> QED
      BY <2>1, <2>2, <3>1, <3>3 DEF Quietos, Despierto
  <2> QED
    BY <2>3, <2>4
<1>10. CASE TomaInstancia("corto")
  <2> DEFINE r == hilo["corto"].rec
  <2>1. r \in Recursos /\ hilo["corto"].pc = "toma" /\ vector_recursos[r] > 0
    BY <1>10, <1>h DEF TomaInstancia, En, Manos, ConRec, ConOtro, Despierto
  <2>2. Toma(r) /\ Sigue("corto", "entrega")
    BY <1>10, <2>1 DEF TomaInstancia, Rec
  <2>3. hilo'["corto"].pc = "entrega" /\ hilo'["reparto"] = hilo["reparto"]
    BY <1>h, <2>2, AlSeguir DEF Etapas
  <2>4. UNCHANGED <<esperando, colas_recursos, aguardar_deadlock, fin>>
    BY <1>10 DEF TomaInstancia, avisos
  <2>5. /\ vector_recursos' \in [Recursos -> Nat]
        /\ vector_recursos'[r] = vector_recursos[r] - 1
        /\ \A t \in Recursos : t # r => vector_recursos'[t] = vector_recursos[t]
    BY <2>1, <2>2, AlTomar
  <2>6. vector_recursos[r] \in Nat
    BY <2>1 DEF TipoCuentas
  <2>7. Anunciadas'
    BY <2>1, <2>3, <2>4, <2>5, <2>6 DEF Anunciadas, ConEspera, Reservada
  <2> QED
    BY <2>3, <2>4, <2>7 DEF Quietos, Despierto
<1>11. CASE Entrega("corto")
  <2>1. hilo["corto"].pc = "entrega"
    BY <1>11 DEF Entrega, En
  <2>2. hilo'["corto"].pc = "ejecuta" /\ hilo'["reparto"] = hilo["reparto"]
    BY <1>11, <1>h, AlVolver DEF Entrega
  <2>3. UNCHANGED <<vector_recursos, esperando, colas_recursos, aguardar_deadlock, fin>>
    BY <1>11 DEF Entrega, avisos
  <2>4. Anunciadas'
    BY <2>1, <2>2, <2>3, AnunciadasIgual DEF ConEspera, Reservada
  <2> QED
    BY <2>2, <2>3, <2>4 DEF Quietos, Despierto
<1> QED
  BY <1>1, <1>2, <1>3, <1>4, <1>5, <1>6, <1>7, <1>8, <1>9, <1>10, <1>11
  DEF Corto, SacarDeBlockRecurso

LEMMA SinMuertesSalida ==
  ASSUME TipoInv, Quietos, Despierto, Anunciadas, fin_por_consola = {},
         NEW p \in Procesos, AgregarAExit(p)
  PROVE  (Quietos /\ Despierto /\ Anunciadas)'
<1> USE DEF TipoInv, Tipos
<1>h. "corto" \in Hilos /\ "reparto" \in Hilos
  BY DEF Hilos
<1>1. CASE FinMata(p) \/ FinLee(p) \/ FinEvalua(p) \/ FinAvisa(p)
  BY <1>1 DEF Quietos, FinMata, FinLee, FinEvalua, FinAvisa
<1>2. CASE FinQuita(p)
  <2>1. SigueFin(p, "devuelve")
    BY <1>2 DEF FinQuita
  <2>2. \A q \in Procesos : fin'[q].pc \in {fin[q].pc, "devuelve"}
    BY <2>1, AlSeguirFin DEF EtapasFin
  <2>3. \A t \in Recursos : colas_recursos[t] = <<>> => colas_recursos'[t] = <<>>
    <3>1. RemoveFirst(<<>>, p) = <<>>
      BY DEF RemoveFirst
    <3>2. \/ UNCHANGED colas_recursos
          \/ /\ requerido[p] \in Recursos
             /\ colas_recursos' = [colas_recursos EXCEPT ![requerido[p]] = RemoveFirst(@, p)]
      BY <1>2 DEF FinQuita, TipoPcb
    <3> QED
      BY <3>1, <3>2 DEF TipoColas
  <2>4. UNCHANGED <<vector_recursos, esperando, aguardar_deadlock, hilo>>
    BY <1>2 DEF FinQuita, avisos
  <2>5. Anunciadas'
    BY <2>3, <2>4, AnunciadasIgual DEF ConEspera, Reservada
  <2> QED
    BY <2>2, <2>4, <2>5 DEF Quietos, Despierto
<1>3. CASE FinDevuelve(p)
  <2>1. UNCHANGED <<colas_recursos, aguardar_deadlock, hilo>>
    BY <1>3 DEF FinDevuelve
  <2>2. CASE SigueFin(p, "borra") /\ UNCHANGED <<vector_recursos, esperando>>
    <3>1. \A q \in Procesos : fin'[q].pc \in {fin[q].pc, "borra"}
      BY <2>2, AlSeguirFin DEF EtapasFin
    <3> QED
      BY <2>1, <2>2, <3>1 DEF Quietos, Despierto, Anunciadas, ConEspera, Reservada
  <2>3. ASSUME NEW i \in Recursos, Suelta(i),
               esperando' = [esperando EXCEPT ![i] = @ + 1],
               fin' = [fin EXCEPT ![p].i = i, ![p].j = IF i = fin[p].i THEN @ + 1 ELSE 1]
        PROVE  (Quietos /\ Despierto /\ Anunciadas)'
    <3>1. \A q \in Procesos : fin'[q].pc = fin[q].pc
      BY <2>3 DEF TipoFin
    <3>2. /\ vector_recursos'[i] = vector_recursos[i] + 1
          /\ \A t \in Recursos : t # i => vector_recursos'[t] = vector_recursos[t]
      BY <2>3, AlSoltar
    <3>3. /\ esperando'[i] > 0
          /\ \A t \in Recursos : t # i => esperando'[t] = esperando[t]
      BY <2>3 DEF TipoCuentas
    <3>4. Despierto'
      <4>1. \A t \in Recursos : vector_recursos[t] > 0 => vector_recursos'[t] > 0
        BY <3>2 DEF TipoCuentas
      <4>2. hilo["corto"].pc \in {"toma_wait", "saca", "toma"} => hilo["corto"].rec \in Recursos
        BY <1>h DEF Manos, ConRec, ConOtro
      <4> QED
        BY <2>1, <4>1, <4>2 DEF Despierto
    <3>5. Anunciadas'
      BY <2>1, <3>2, <3>3 DEF Anunciadas, ConEspera, Reservada
    <3> QED
      BY <2>1, <3>1, <3>4, <3>5 DEF Quietos
  <2> QED
    BY <1>3, <2>2, <2>3 DEF FinDevuelve
<1>4. CASE FinBorra(p)
  <2>1. fin' = [fin EXCEPT ![p] = [FinReposo EXCEPT !.pc = "libre"]]
    BY <1>4 DEF FinBorra
  <2>2. \A q \in Procesos : fin'[q].pc \in {fin[q].pc, "libre"}
    BY <2>1 DEF TipoFin, FinReposo
  <2>3. UNCHANGED <<colas_recursos, vector_recursos, esperando, aguardar_deadlock, hilo>>
    BY <1>4 DEF FinBorra, avisos
  <2> QED
    BY <2>2, <2>3 DEF Quietos, Despierto, Anunciadas, ConEspera, Reservada
<1> QED
  BY <1>1, <1>2, <1>3, <1>4 DEF AgregarAExit

LEMMA SinMuertesPaso == TipoInv /\ SinMuertes /\ [Next]_vars => SinMuertes'
<1> SUFFICES ASSUME TipoInv, SinMuertes, [Next]_vars, fin_por_consola' = {}
             PROVE  (Quietos /\ Despierto /\ Anunciadas)'
  BY DEF SinMuertes
<1>1. CASE UNCHANGED vars
  BY <1>1 DEF vars, avisos, SinMuertes, Quietos, Despierto, Anunciadas, ConEspera, Reservada
<1>2. CASE Corto
  <2>1. UNCHANGED fin_por_consola
    BY <1>2
    DEF Corto, CortoElige, CortoWait, CortoToma, CortoEncola, CortoMarca, CortoLee, CortoEvalua,
        CortoContinua, CortoSignal, CortoFinaliza, CortoDesaloja, SacarDeBlockRecurso, Saca,
        TomaInstancia, Entrega, LeeDisponibles, Evalua
  <2> QED
    BY <1>2, <2>1, SinMuertesCorto DEF SinMuertes
<1>3. CASE Reparto
  <2>1. UNCHANGED fin_por_consola
    BY <1>3 DEF Reparto, RepartoDespierta, SacarDeBlockRecurso, Saca, TomaInstancia, Entrega
  <2>2. Quietos
    BY <2>1 DEF SinMuertes
  <2> QED
    BY <1>3, <2>2
    DEF Quietos, Reparto, RepartoDespierta, SacarDeBlockRecurso, Saca, TomaInstancia, Entrega, En
<1>4. ASSUME NEW p \in Procesos, AgregarAExit(p) PROVE (Quietos /\ Despierto /\ Anunciadas)'
  <2>1. UNCHANGED fin_por_consola
    BY <1>4
    DEF AgregarAExit, FinMata, FinQuita, FinDevuelve, FinBorra, FinLee, FinEvalua, FinAvisa,
        LeeDisponibles, Evalua
  <2> QED
    BY <1>4, <2>1, SinMuertesSalida DEF SinMuertes
<1>5. ASSUME NEW p \in Procesos, Finalizar(p) PROVE FALSE
  BY <1>5 DEF Finalizar
<1> QED
  BY <1>1, <1>2, <1>3, <1>4, <1>5 DEF Next

LEMMA SinMuertesSiempre == Spec => [](TipoInv /\ SinMuertes)
<1>1. Init => TipoInv /\ SinMuertes
  BY TipoInicial, SinMuertesInicial
<1>2. (TipoInv /\ SinMuertes) /\ [Next]_vars => (TipoInv /\ SinMuertes)'
  BY TipoPaso, SinMuertesPaso
<1> QED
  BY <1>1, <1>2, PTL DEF Spec

\* Until the operator kills somebody, no thread of the kernel falls asleep on a resource while
\* it holds sem_inst_recursos or sem_block_recursos, whatever the processes ask for.
THEOREM DuermeTeorema == Spec => []NadieDuerme
<1>1. TipoInv /\ SinMuertes => NadieDuerme
  BY SinMuertesImplica
<1> QED
  BY <1>1, SinMuertesSiempre, PTL

\* Until the operator kills somebody, a free instance beside a waiter is always announced: a
\* hand-over thread has been created for it, or the planner is waking the waiter.
THEOREM EntregaTeorema == Spec => []EntregaPendiente
<1>1. TipoInv /\ SinMuertes => EntregaPendiente
  BY SinMuertesImplica
<1> QED
  BY <1>1, SinMuertesSiempre, PTL

-----------------------------------------------------------------------------
(* What holds with kills: the queues are coherent and no instance is lost, for any number of   *)
(* processes, resources, instances, WAITs and kills.                                            *)

-----------------------------------------------------------------------------
(* Where a process is.  As long as no freed t_pcb has been used, a process *)
(* is in one queue, or in READY, or with the planner, or on its way from a *)
(* queue to READY, or its exit thread has taken it out of all of them.     *)

\* Its exit thread has not begun to return what it holds.
Antes == {"libre", "mata", "quita"}

\* The planner has p and no queue has it yet.
Llevado(p)  == hilo["corto"].pc \in ConPcb \ {"marca"} /\ hilo["corto"].pcb = p
Encolado(p) == \E r \in Recursos : p \in ToSet(colas_recursos[r])

\* p is alive, and only a kill can end it.
Entero(p) ==
  Vivo(p) /\ fin[p].pc \in Antes /\ (fin[p].pc # "libre" => p \in fin_por_consola)

\* sem_block_recursos excludes.
Excluidos == hilo["corto"].pc \in ConOtro => hilo["reparto"].pc \notin ConOtro

EnColas ==
  \A r \in Recursos :
    /\ IsInjective(colas_recursos[r])
    /\ \A p \in ToSet(colas_recursos[r]) : requerido[p] = r /\ p \notin listos /\ Entero(p)

EnCorto ==
  /\ hilo["corto"].pc \in ConPcb => fin[hilo["corto"].pcb].pc = "libre" /\ Vivo(hilo["corto"].pcb)
  /\ \A p \in Procesos : Llevado(p) => p \notin listos /\ ~Encolado(p)

\* The waiter a thread has taken out of its queue.
EnMedio(p) ==
  requerido[p] \in Recursos /\ p \notin listos /\ ~Encolado(p) /\ Entero(p) /\ ~Llevado(p)
EnOtro == \A h \in Hilos : hilo[h].pc \in ConOtro => EnMedio(hilo[h].otro)

\* What is said of each process by itself.  Out of READY by a kill only:
Listo(p) == p \in listos /\ Vivo(p) /\ fin[p].pc # "libre" => p \in fin_por_consola

\* a kill happens while the planner waits, and the process stays dead;
Muerte(p) ==
  /\ p \in fin_por_consola =>
       /\ fin[p].pc \notin {"libre", "avisa"} => hilo["corto"].pc = "espera" /\ deadlock # {}
       /\ fin[p].pc = "libre" => ~Vivo(p)
  /\ fin[p].pc \in {"mata", "lee", "evalua", "avisa"} => p \in fin_por_consola

\* the operator is not offered a process that is ending;
Final(p) ==
  /\ p \notin fin_por_consola /\ fin[p].pc # "libre" => estado[p] = "FIN"
  /\ p \in deadlock =>
       \/ Vivo(p)
       \/ p \notin fin_por_consola /\ estado[p] = "FIN"
       \/ p \in fin_por_consola /\ fin[p].pc \in {"lee", "evalua"}

\* the loops of liberar_recursos_asignados.
Devuelto(p) ==
  /\ fin[p].pc \notin {"devuelve", "borra"} => fin[p].i = 1 /\ fin[p].j = 0
  /\ fin[p].pc = "devuelve" => \A r \in Recursos : r = fin[p].i => fin[p].j <= asignados[p][r]
  /\ fin[p].pc \in {"lee", "evalua", "avisa"} => asignados[p] = SinNada /\ ~Vivo(p)

Propio(p) == Listo(p) /\ Muerte(p) /\ Final(p) /\ Devuelto(p)
Propios   == \A p \in Procesos : Propio(p)

\* One kill at a time.
UnaMuerte ==
  \A p, q \in fin_por_consola : fin[p].pc # "libre" /\ fin[q].pc # "libre" => p = q

Unicos == IsInjective(total_pcbs)

Orden ==
  Excluidos /\ EnColas /\ EnCorto /\ EnOtro /\ Propios /\ UnaMuerte /\ Unicos

LEMMA OrdenInicial == Init => Orden
<1> SUFFICES ASSUME Init PROVE Orden
  OBVIOUS
<1>1. /\ hilo["corto"].pc = "elige" /\ hilo["reparto"].pc = "libre"
      /\ \A p \in Procesos : fin[p].pc = "libre" /\ fin[p].i = 1 /\ fin[p].j = 0
  BY DEF Init, Hilos, Reposo, FinReposo
<1>2. Excluidos /\ EnCorto /\ EnOtro
  BY <1>1 DEF Excluidos, EnCorto, EnOtro, Hilos, ConPcb, ConOtro, Llevado
<1>3. EnColas
  <2>1. ToSet(<<>>) = {} /\ IsInjective(<<>>)
    BY DEF ToSet, IsInjective
  <2> QED
    BY <2>1 DEF Init, EnColas
<1>4. Propios /\ UnaMuerte
  BY <1>1 DEF Init, Propios, Propio, Listo, Muerte, Final, Devuelto, UnaMuerte
<1>5. Unicos
  BY ConstantesOK DEF Init, Unicos, IsInjective
<1> QED
  BY <1>2, <1>3, <1>4, <1>5 DEF Orden

-----------------------------------------------------------------------------
(* Steps of the threads of the resources *)

\* A step that moves them and leaves everybody where he was.
LEMMA OrdenHilo ==
  ASSUME TipoInv, Orden,
         UNCHANGED <<listos, total_pcbs, colas_recursos, requerido, fin, fin_por_consola, estado>>,
         \A p \in deadlock' : p \in deadlock \/ Vivo(p),
         hilo["corto"].pc = "espera" =>
           \/ hilo'["corto"].pc = "espera" /\ deadlock' = deadlock
           \/ deadlock = {},
         hilo'["corto"].pc \in ConPcb =>
           /\ hilo["corto"].pc \in ConPcb /\ hilo'["corto"].pcb = hilo["corto"].pcb
           /\ hilo["corto"].pc = "marca" => hilo'["corto"].pc = "marca",
         \A h \in Hilos : hilo'[h].pc \in ConOtro =>
           hilo[h].pc \in ConOtro /\ hilo'[h].otro = hilo[h].otro,
         \A p \in Procesos : fin[p].pc \notin Antes => asignados'[p] = asignados[p]
  PROVE  Orden'
<1> USE DEF Orden
<1>1. \A p : Vivo(p)' = Vivo(p) /\ Encolado(p)' = Encolado(p) /\ Entero(p)' = Entero(p)
  BY DEF Vivo, Encolado, Entero
<1>2. \A p : Llevado(p)' => Llevado(p)
  BY DEF Llevado, ConPcb
<1>3. Excluidos'
  BY DEF Excluidos, Hilos
<1>4. EnColas' /\ Unicos'
  BY <1>1 DEF EnColas, Unicos
<1>5. EnCorto'
  BY <1>1, <1>2 DEF EnCorto
<1>6. EnOtro'
  BY <1>1, <1>2 DEF EnOtro, EnMedio
<1>7. Propios' /\ UnaMuerte'
  BY <1>1 DEF Antes, Propios, Propio, Listo, Muerte, Final, Devuelto, UnaMuerte
<1> QED
  BY <1>3, <1>4, <1>5, <1>6, <1>7

LEMMA OrdenSacar ==
  ASSUME TipoInv, Orden, ~fallo, NEW h \in Hilos, SacarDeBlockRecurso(h)
  PROVE  Orden' /\ ~fallo'
<1> USE DEF Orden, TipoInv, Tipos
<1>h. "corto" \in Hilos /\ "reparto" \in Hilos /\ \A g \in Hilos : g = "corto" \/ g = "reparto"
  BY DEF Hilos
<1>1. CASE Saca(h)
  <2> DEFINE r == hilo[h].rec
  <2>1. hilo[h].pc = "saca" /\ r \in Recursos /\ \A g \in Hilos : hilo[g].pc \notin ConOtro
    BY <1>1 DEF Saca, En, Manos, ConRec, ConOtro, ColasLibres
  <2>2. colas_recursos[r] \in Seq(Procesos)
    BY <2>1 DEF TipoColas
  <2>3. /\ UNCHANGED <<listos, total_pcbs, requerido, asignados, fin, fin_por_consola, estado>>
        /\ UNCHANGED <<deadlock, fallo>>
    BY <1>1 DEF Saca, campos, detector
  <2>4. CASE colas_recursos[r] = <<>>
    <3>1. Vuelve(h) /\ UNCHANGED colas_recursos
      BY <1>1, <2>4 DEF Saca, Rec
    <3>2. /\ hilo'[h].pc = (IF h = "corto" THEN "ejecuta" ELSE "libre")
          /\ h = "corto" => hilo'[h].pcb = hilo[h].pcb
          /\ \A g \in Hilos : g # h => hilo'[g] = hilo[g]
      BY <3>1, AlVolver
    <3> QED
      BY <1>h, <2>1, <2>3, <3>1, <3>2, OrdenHilo DEF ConPcb, ConOtro
  <2>5. CASE colas_recursos[r] # <<>>
    <3>0. Last(colas_recursos[r]) \in Procesos /\ Front(colas_recursos[r]) \in Seq(Procesos)
      BY <2>2, <2>5, AlSacarUltimo
    <3>p. PICK x \in Procesos, s \in Seq(Procesos) :
            x = Last(colas_recursos[r]) /\ s = Front(colas_recursos[r])
      BY <3>0
    <3>1. /\ colas_recursos' = [colas_recursos EXCEPT ![r] = s]
          /\ hilo' = [hilo EXCEPT ![h].pc = "toma", ![h].otro = x]
      BY <1>1, <2>5, <3>p DEF Saca, Rec
    <3>2. /\ ToSet(colas_recursos[r]) = ToSet(s) \cup {x}
          /\ IsInjective(colas_recursos[r]) => IsInjective(s) /\ x \notin ToSet(s)
      BY <2>2, <2>5, <3>p, AlSacarUltimo
    <3>3. /\ colas_recursos'[r] = s
          /\ \A t \in Recursos : t # r => colas_recursos'[t] = colas_recursos[t]
      BY <2>1, <3>1 DEF TipoColas
    <3>4. /\ hilo'[h].pc = "toma" /\ hilo'[h].otro = x /\ hilo'[h].pcb = hilo[h].pcb
          /\ \A g \in Hilos : g # h => hilo'[g] = hilo[g]
      BY <3>1 DEF TipoHilo
    <3>5. \A p : Vivo(p)' = Vivo(p) /\ Entero(p)' = Entero(p)
      BY <2>3 DEF Vivo, Entero
    <3>6. \A p \in Procesos : Encolado(p)' => Encolado(p)
      BY <2>1, <3>2, <3>3 DEF Encolado
    <3>7. \A p : Llevado(p)' = Llevado(p)
      BY <1>h, <2>1, <3>4 DEF Llevado, ConPcb
    <3>8. EnColas'
      BY <2>1, <2>3, <3>2, <3>3, <3>5 DEF EnColas
    <3>9. requerido[x] = r /\ x \notin listos /\ Entero(x) /\ Encolado(x)
      BY <2>1, <3>2 DEF EnColas, Encolado
    <3>10. ~Encolado(x)'
      BY <2>1, <3>2, <3>3, <3>9 DEF Encolado, EnColas
    <3>11. ~Llevado(x)
      BY <3>2, <3>9 DEF EnCorto
    <3>12. EnOtro' /\ Excluidos'
      BY <1>h, <2>1, <2>3, <3>4, <3>5, <3>7, <3>9, <3>10, <3>11 DEF EnOtro, EnMedio, Excluidos
    <3>13. EnCorto'
      BY <1>h, <2>1, <2>3, <3>4, <3>5, <3>6, <3>7 DEF EnCorto, ConPcb
    <3>14. hilo["corto"].pc = "espera" => hilo'["corto"].pc = "espera"
      BY <1>h, <2>1, <3>4
    <3>15. Propios' /\ UnaMuerte' /\ Unicos'
      BY <2>3, <3>5, <3>14 DEF Unicos, Propios, Propio, Listo, Muerte, Final, Devuelto,
         UnaMuerte
    <3> QED
      BY <2>3, <3>8, <3>12, <3>13, <3>14, <3>15
  <2> QED
    BY <2>4, <2>5
<1>2. CASE TomaInstancia(h)
  <2>1. PICK l \in {"entrega", "duerme"} : Sigue(h, l)
    BY <1>2 DEF TomaInstancia
  <2>2. /\ hilo'[h].pc = l /\ hilo'[h].pcb = hilo[h].pcb /\ hilo'[h].otro = hilo[h].otro
        /\ \A g \in Hilos : g # h => hilo'[g] = hilo[g]
    BY <2>1, AlSeguir DEF Etapas
  <2>3. /\ UNCHANGED <<listos, total_pcbs, colas_recursos, requerido, fin, fin_por_consola, estado>>
        /\ UNCHANGED <<asignados, deadlock, fallo>> /\ hilo[h].pc = "toma"
    BY <1>2 DEF TomaInstancia, campos, detector, En
  <2> QED
    BY <1>h, <2>1, <2>2, <2>3, OrdenHilo DEF ConPcb, ConOtro
<1>3. CASE Entrega(h)
  <2>0. hilo[h].pc = "entrega" /\ hilo[h].otro \in Procesos
    BY <1>3 DEF Entrega, En, Manos, ConOtro
  <2>p. PICK p \in Procesos : p = hilo[h].otro
    BY <2>0
  <2>1. hilo[h].pc = "entrega" /\ EnMedio(p)
    BY <2>0, <2>p DEF EnOtro, ConOtro
  <2>2. /\ listos' = listos \cup {p} /\ estado' = [estado EXCEPT ![p] = "READY"]
        /\ fallo' = ~Vivo(p) /\ Vuelve(h)
        /\ UNCHANGED <<total_pcbs, colas_recursos, requerido, deadlock, fin_por_consola, fin>>
        /\ \A q \in Procesos : q # p => asignados'[q] = asignados[q] /\ estado'[q] = estado[q]
    BY <1>3, <2>p DEF Entrega, detector, TipoPcb, TipoResto
  <2>3. /\ hilo'[h].pc = (IF h = "corto" THEN "ejecuta" ELSE "libre")
        /\ h = "corto" => hilo'[h].pcb = hilo[h].pcb
        /\ \A g \in Hilos : g # h => hilo'[g] = hilo[g]
    BY <2>2, AlVolver
  <2>4. \A q : Vivo(q)' = Vivo(q) /\ Entero(q)' = Entero(q) /\ Encolado(q)' = Encolado(q)
    BY <2>2 DEF Vivo, Entero, Encolado
  <2>5. \A q : Llevado(q)' = Llevado(q)
    BY <1>h, <2>1, <2>3 DEF Llevado, ConPcb
  <2>6. Entero(p) /\ ~Encolado(p) /\ ~Llevado(p)
    BY <2>1 DEF EnMedio
  <2>7. EnColas'
    BY <2>2, <2>4, <2>6 DEF EnColas, Encolado
  <2>8. EnCorto'
    BY <1>h, <2>1, <2>2, <2>3, <2>4, <2>5, <2>6 DEF EnCorto, ConPcb
  <2>9. \A g \in Hilos : hilo'[g].pc \notin ConOtro
    BY <1>h, <2>1, <2>3 DEF Excluidos, ConOtro
  <2>10. EnOtro' /\ Excluidos'
    BY <1>h, <2>9 DEF EnOtro, Excluidos
  <2>11. hilo["corto"].pc = "espera" => hilo'["corto"].pc = "espera"
    BY <1>h, <2>1, <2>3
  <2>12. Propio(p)'
    BY <2>1, <2>2, <2>4, <2>6, <2>11
    DEF Propios, Propio, Listo, Muerte, Final, Devuelto, Entero, Antes
  <2>13. \A q \in Procesos : q # p => Propio(q)'
    BY <2>2, <2>4, <2>11 DEF Propios, Propio, Listo, Muerte, Final, Devuelto
  <2>14. Propios' /\ UnaMuerte'
    BY <2>2, <2>12, <2>13 DEF Propios, UnaMuerte
  <2>15. ~fallo' /\ Unicos'
    BY <2>2, <2>6 DEF Entero, Unicos
  <2> QED
    BY <2>7, <2>8, <2>10, <2>14, <2>15
<1> QED
  BY <1>1, <1>2, <1>3 DEF SacarDeBlockRecurso

-----------------------------------------------------------------------------
(* Steps of the planner *)

\* The detector only names processes it can see.
LEMMA RestoVivo == \A p \in Resto : Vivo(p)
<1>1. \A p \in Filtrados : Vivo(p)
  BY DEF Filtrados, Vivo, ToSet
<1> QED
  BY <1>1 DEF Resto

\* While the planner plans, whoever is in READY and alive has no exit thread.
LEMMA ListoSinFin ==
  ASSUME Orden, hilo["corto"].pc # "espera", NEW p \in listos, Vivo(p), p \in Procesos
  PROVE  fin[p].pc = "libre"
BY DEF Orden, Propios, Propio, Listo, Muerte, Devuelto

LEMMA OrdenCorto ==
  ASSUME TipoInv, Orden, ~fallo, Corto
  PROVE  fallo' \/ Orden'
<1> USE DEF Orden, TipoInv, Tipos
<1>h. "corto" \in Hilos /\ "reparto" \in Hilos /\ \A g \in Hilos : g = "corto" \/ g = "reparto"
  BY DEF Hilos
<1>1. ASSUME NEW p \in Procesos, CortoElige(p), ~fallo' PROVE Orden'
  <2>1. /\ hilo["corto"].pc = "elige" /\ p \in listos /\ listos' = listos \ {p}
        /\ hilo'["corto"].pc = "ejecuta" /\ hilo'["corto"].pcb = p
        /\ hilo'["reparto"] = hilo["reparto"] /\ Vivo(p)
    BY <1>1, <1>h DEF CortoElige, En, TipoHilo
  <2>2. /\ UNCHANGED <<total_pcbs, colas_recursos, requerido, asignados, fin, fin_por_consola>>
        /\ UNCHANGED deadlock
        /\ \A q \in Procesos : q # p => estado'[q] = estado[q]
    BY <1>1 DEF CortoElige, campos, detector, TipoResto
  <2>3. fin[p].pc = "libre"
    BY <2>1, ListoSinFin
  <2>4. \A q : Vivo(q)' = Vivo(q) /\ Entero(q)' = Entero(q) /\ Encolado(q)' = Encolado(q)
    BY <2>2 DEF Vivo, Entero, Encolado
  <2>5. ~Encolado(p)
    BY <2>1 DEF EnColas, Encolado
  <2>6. \A q : Llevado(q)' => q = p
    BY <2>1 DEF Llevado
  <2>7. EnColas' /\ Unicos'
    BY <2>1, <2>2, <2>4 DEF EnColas, Unicos
  <2>8. EnCorto'
    BY <2>1, <2>2, <2>3, <2>4, <2>5, <2>6 DEF EnCorto
  <2>9. EnOtro' /\ Excluidos'
    BY <1>h, <2>1, <2>2, <2>4, <2>6 DEF EnOtro, EnMedio, Excluidos, ConOtro
  <2>10. Propios' /\ UnaMuerte'
    BY <2>1, <2>2, <2>3, <2>4 DEF Propios, Propio, Listo, Muerte, Final, Devuelto, UnaMuerte
  <2> QED
    BY <2>7, <2>8, <2>9, <2>10
<1>2. ASSUME NEW r \in Recursos, CortoWait(r) PROVE Orden'
  <2>1. /\ hilo["corto"].pc = "ejecuta" /\ hilo'["corto"].pc \in {"toma_wait", "encola"}
        /\ hilo'["corto"].pcb = hilo["corto"].pcb /\ hilo'["reparto"] = hilo["reparto"]
    BY <1>2, <1>h DEF CortoWait, En, TipoHilo
  <2>2. /\ UNCHANGED <<listos, total_pcbs, colas_recursos, requerido, asignados, fin>>
        /\ UNCHANGED <<fin_por_consola, estado, deadlock>>
    BY <1>2 DEF CortoWait, campos, detector
  <2> QED
    BY <1>h, <2>1, <2>2, OrdenHilo DEF ConPcb, ConOtro
<1>3. CASE CortoToma
  <2> DEFINE r == hilo["corto"].rec
             p == hilo["corto"].pcb
  <2>1. hilo["corto"].pc = "toma_wait" /\ r \in Recursos /\ p \in Procesos /\ fin[p].pc = "libre"
    BY <1>3, <1>h DEF CortoToma, En, Manos, ConPcb, ConRec, EnCorto
  <2>2. Sigue("corto", "duerme_wait") \/ Vuelve("corto")
    BY <1>3 DEF CortoToma
  <2>3. /\ hilo'["corto"].pc \in {"duerme_wait", "ejecuta"}
        /\ hilo'["corto"].pcb = p /\ hilo'["reparto"] = hilo["reparto"]
    BY <1>h, <2>2, AlSeguir, AlVolver DEF Etapas
  <2>4. /\ UNCHANGED <<listos, total_pcbs, colas_recursos, requerido, fin, fin_por_consola>>
        /\ UNCHANGED <<estado, deadlock>>
        /\ \A q \in Procesos : q # p => asignados'[q] = asignados[q]
    BY <1>3, <2>1 DEF CortoToma, detector, TipoPcb, Pcb
  <2> QED
    BY <1>h, <2>1, <2>3, <2>4, OrdenHilo DEF ConPcb, ConOtro, Antes
<1>4. CASE CortoEncola
  <2>0. hilo["corto"].pcb \in Procesos /\ hilo["corto"].rec \in Recursos
    BY <1>4, <1>h DEF CortoEncola, En, Manos, ConPcb, ConRec
  <2>p. PICK p \in Procesos, r \in Recursos : p = hilo["corto"].pcb /\ r = hilo["corto"].rec
    BY <2>0
  <2>1. /\ hilo["corto"].pc = "encola" /\ \A g \in Hilos : hilo[g].pc \notin ConOtro
        /\ requerido' = [requerido EXCEPT ![p] = r]
        /\ colas_recursos' = [colas_recursos EXCEPT ![r] = Append(colas_recursos[r], p)]
    BY <1>4, <2>p DEF CortoEncola, En, Rec, Pcb, ColasLibres, ConOtro
  <2>2. /\ UNCHANGED <<listos, total_pcbs, asignados, fin, fin_por_consola, estado, deadlock>>
        /\ requerido'[p] = r /\ colas_recursos'[r] = Append(colas_recursos[r], p)
        /\ \A q \in Procesos : q # p => requerido'[q] = requerido[q]
        /\ \A t \in Recursos : t # r => colas_recursos'[t] = colas_recursos[t]
    BY <1>4, <2>1 DEF CortoEncola, detector, TipoPcb, TipoColas
  <2>3. /\ hilo'["corto"].pc = "marca" /\ hilo'["corto"].pcb = p
        /\ hilo'["reparto"] = hilo["reparto"]
    BY <1>4, <1>h, <2>p, AlSeguir DEF CortoEncola, Etapas
  <2>4. fin[p].pc = "libre" /\ Vivo(p) /\ p \notin listos /\ ~Encolado(p)
    BY <2>p, <2>1 DEF EnCorto, Llevado, ConPcb
  <2>5. /\ ToSet(colas_recursos'[r]) = ToSet(colas_recursos[r]) \cup {p}
        /\ IsInjective(colas_recursos[r]) => IsInjective(colas_recursos'[r])
    BY <2>2, <2>4, EnAgregado DEF Encolado, TipoColas
  <2>6. \A q : Vivo(q)' = Vivo(q) /\ Entero(q)' = Entero(q) /\ ~Llevado(q)'
    BY <2>2, <2>3 DEF Vivo, Entero, Llevado
  <2>k. \A t \in Recursos : ToSet(colas_recursos[t]) \subseteq Procesos
    BY DEF TipoColas, ToSet
  <2>7. EnColas'
    <3> SUFFICES ASSUME NEW t \in Recursos
                 PROVE  /\ IsInjective(colas_recursos'[t])
                        /\ \A q \in ToSet(colas_recursos'[t]) :
                             requerido'[q] = t /\ q \notin listos' /\ Entero(q)'
      BY DEF EnColas
    <3>1. CASE t = r
      BY <2>2, <2>4, <2>5, <2>6, <2>k, <3>1 DEF EnColas, Entero, Antes
    <3>2. CASE t # r
      <4>1. p \notin ToSet(colas_recursos[t])
        BY <2>4 DEF Encolado
      <4> QED
        BY <2>2, <2>6, <2>k, <3>2, <4>1 DEF EnColas
    <3> QED
      BY <3>1, <3>2
  <2>8. EnCorto'
    BY <2>2, <2>3, <2>4, <2>6 DEF EnCorto
  <2>9. EnOtro' /\ Excluidos'
    BY <1>h, <2>1, <2>3 DEF EnOtro, Excluidos, ConOtro
  <2>10. Propios' /\ UnaMuerte' /\ Unicos'
    BY <2>1, <2>2, <2>3, <2>6 DEF Unicos, Propios, Propio, Listo, Muerte, Final, Devuelto, UnaMuerte
  <2> QED
    BY <2>7, <2>8, <2>9, <2>10
<1>5. CASE CortoMarca
  <2> DEFINE p == hilo["corto"].pcb
  <2>1. hilo["corto"].pc = "marca" /\ p \in Procesos /\ fin[p].pc = "libre" /\ Vivo(p)
    BY <1>5, <1>h DEF CortoMarca, En, Manos, ConPcb, EnCorto
  <2>2. /\ UNCHANGED <<listos, total_pcbs, colas_recursos, requerido, asignados, fin>>
        /\ UNCHANGED <<fin_por_consola, deadlock>>
        /\ \A q \in Procesos : q # p => estado'[q] = estado[q]
    BY <1>5 DEF CortoMarca, Pcb, detector, TipoResto
  <2>3. hilo'["corto"].pc = "lee" /\ hilo'["reparto"] = hilo["reparto"]
    BY <1>5, <1>h DEF CortoMarca, TipoHilo, Reposo
  <2>4. \A q : Vivo(q)' = Vivo(q) /\ Entero(q)' = Entero(q) /\ Encolado(q)' = Encolado(q)
    BY <2>2 DEF Vivo, Entero, Encolado
  <2>5. \A q : ~Llevado(q)'
    BY <2>3 DEF Llevado, ConPcb
  <2>6. EnColas' /\ Unicos'
    BY <2>2, <2>4 DEF EnColas, Unicos
  <2>7. EnCorto'
    BY <2>3, <2>5 DEF EnCorto, ConPcb
  <2>8. EnOtro' /\ Excluidos'
    BY <1>h, <2>2, <2>3, <2>4, <2>5 DEF EnOtro, EnMedio, Excluidos, ConOtro
  <2>9. Propios' /\ UnaMuerte'
    BY <2>1, <2>2, <2>3, <2>4 DEF Propios, Propio, Listo, Muerte, Final, Devuelto, UnaMuerte
  <2> QED
    BY <2>6, <2>7, <2>8, <2>9
<1>6. CASE CortoLee \/ CortoEvalua \/ CortoContinua
  <2>1. /\ UNCHANGED <<listos, total_pcbs, colas_recursos, requerido, asignados, fin>>
        /\ UNCHANGED <<fin_por_consola, estado>>
    BY <1>6 DEF CortoLee, CortoEvalua, CortoContinua, LeeDisponibles, Evalua, campos
  <2>2. \A p \in deadlock' : p \in deadlock \/ Vivo(p)
    BY <1>6, RestoVivo
    DEF CortoLee, CortoEvalua, CortoContinua, LeeDisponibles, Evalua, detector
  <2>3. hilo["corto"].pc = "espera" => deadlock = {}
    BY <1>6 DEF CortoLee, CortoEvalua, CortoContinua, En
  <2>4. /\ hilo'["corto"].pc \in {"evalua", "espera", "elige"}
        /\ hilo'["reparto"] = hilo["reparto"]
    BY <1>6, <1>h, AlSeguir, AlReposar DEF CortoLee, CortoEvalua, CortoContinua, Etapas
  <2> QED
    BY <1>h, <2>1, <2>2, <2>3, <2>4, OrdenHilo DEF ConPcb, ConOtro
<1>7. ASSUME NEW r \in Recursos, CortoSignal(r) PROVE Orden'
  <2> DEFINE p == hilo["corto"].pcb
  <2>1. hilo["corto"].pc = "ejecuta" /\ p \in Procesos /\ fin[p].pc = "libre"
    BY <1>7, <1>h DEF CortoSignal, En, Manos, ConPcb, EnCorto
  <2>2. /\ hilo'["corto"].pc \in {"saca", "ejecuta"} /\ hilo'["corto"].pcb = p
        /\ hilo'["reparto"] = hilo["reparto"]
    BY <1>7, <1>h, <2>1 DEF CortoSignal, TipoHilo
  <2>3. /\ UNCHANGED <<listos, total_pcbs, colas_recursos, requerido, fin, fin_por_consola>>
        /\ UNCHANGED <<estado, deadlock>>
        /\ \A q \in Procesos : q # p => asignados'[q] = asignados[q]
    BY <1>7 DEF CortoSignal, detector, TipoPcb, Pcb
  <2> QED
    BY <1>h, <2>1, <2>2, <2>3, OrdenHilo DEF ConPcb, ConOtro, Antes
<1>8. CASE CortoFinaliza \/ CortoDesaloja
  <2>0. hilo["corto"].pcb \in Procesos /\ hilo["corto"].pc = "ejecuta"
    BY <1>8, <1>h DEF CortoFinaliza, CortoDesaloja, En, Manos, ConPcb
  <2>p. PICK p \in Procesos : p = hilo["corto"].pcb
    BY <2>0
  <2>1. /\ fin[p].pc = "libre" /\ Vivo(p) /\ Llevado(p) /\ p \notin listos /\ ~Encolado(p)
        /\ p \notin fin_por_consola
    BY <2>p, <2>0 DEF EnCorto, Llevado, ConPcb, Propios, Propio, Muerte
  <2>i. fin[p].i = 1 /\ fin[p].j = 0
    BY <2>1 DEF Propios, Propio, Devuelto
  <2>2. hilo'["corto"].pc = "elige" /\ hilo'["reparto"] = hilo["reparto"]
    BY <1>8, AlReposar DEF CortoFinaliza, CortoDesaloja
  <2>3. /\ UNCHANGED <<total_pcbs, colas_recursos, requerido, asignados, fin_por_consola, deadlock>>
        /\ \A q \in Procesos : q # p => estado'[q] = estado[q] /\ fin'[q] = fin[q]
        /\ fin'[p].i = 1 /\ fin'[p].j = 0 /\ fin'[p].pc \in {"libre", "quita"}
        /\ fin'[p].pc = "quita" => estado'[p] = "FIN"
        /\ listos' \subseteq listos \cup {p} /\ listos \subseteq listos'
        /\ p \in listos' => fin'[p].pc = "libre"
    <3>1. CASE CortoFinaliza
      <4>1. SigueFin(p, "quita") /\ estado' = [estado EXCEPT ![p] = "FIN"]
        BY <2>p, <3>1 DEF CortoFinaliza, Pcb
      <4>2. /\ fin'[p].pc = "quita" /\ fin'[p].i = fin[p].i /\ fin'[p].j = fin[p].j
            /\ \A q \in Procesos : q # p => fin'[q] = fin[q]
        BY <4>1, AlSeguirFin DEF EtapasFin
      <4> QED
        BY <2>1, <2>i, <3>1, <4>1, <4>2 DEF CortoFinaliza, campos, detector, TipoResto
    <3>2. CASE CortoDesaloja
      BY <2>1, <2>i, <2>p, <3>2 DEF CortoDesaloja, campos, detector, TipoResto, Pcb
    <3> QED
      BY <1>8, <3>1, <3>2
  <2>4. \A q : Vivo(q)' = Vivo(q) /\ Encolado(q)' = Encolado(q) /\ ~Llevado(q)'
    BY <2>2, <2>3 DEF Vivo, Encolado, Llevado, ConPcb
  <2>5. \A q \in Procesos : q # p => Entero(q)' = Entero(q)
    BY <2>3, <2>4 DEF Entero
  <2>6. EnColas'
    BY <2>1, <2>3, <2>5 DEF EnColas, Encolado, TipoColas, ToSet
  <2>7. EnCorto'
    BY <2>2, <2>4 DEF EnCorto, ConPcb
  <2>8. EnOtro' /\ Excluidos'
    <3>1. hilo["reparto"].pc \in ConOtro => hilo["reparto"].otro \in Procesos \ {p}
      BY <1>h, <2>1 DEF EnOtro, EnMedio, Manos
    <3> QED
      BY <1>h, <2>2, <2>3, <2>4, <2>5, <3>1 DEF EnOtro, EnMedio, Excluidos, ConOtro
  <2>9. Propio(p)'
    BY <2>1, <2>3, <2>4 DEF Propio, Listo, Muerte, Final, Devuelto
  <2>10. \A q \in Procesos : q # p => Propio(q)'
    BY <2>0, <2>3, <2>4 DEF Propios, Propio, Listo, Muerte, Final, Devuelto
  <2>11. Propios' /\ UnaMuerte' /\ Unicos'
    BY <2>1, <2>3, <2>9, <2>10 DEF Propios, UnaMuerte, Unicos, TipoResto
  <2> QED
    BY <2>6, <2>7, <2>8, <2>11
<1>9. CASE SacarDeBlockRecurso("corto")
  BY <1>h, <1>9, OrdenSacar
<1> QED
  BY <1>1, <1>2, <1>3, <1>4, <1>5, <1>6, <1>7, <1>8, <1>9 DEF Corto

-----------------------------------------------------------------------------
(* Steps of the exit threads, of the operator and of the thread that hands over *)

LEMMA OrdenFinalizar ==
  ASSUME TipoInv, Orden, NEW p \in Procesos, Finalizar(p)
  PROVE  Orden'
<1> USE DEF Orden, TipoInv, Tipos
<1>1. /\ hilo["corto"].pc = "espera" /\ p \in deadlock /\ estado[p] # "FIN"
      /\ \A q \in fin_por_consola : fin[q].pc = "libre"
      /\ fin_por_consola' = fin_por_consola \cup {p}
      /\ UNCHANGED <<listos, estado, total_pcbs, colas_recursos, requerido, asignados, deadlock>>
      /\ UNCHANGED hilo
  BY DEF Finalizar, En, campos, detector
<1>2. Vivo(p) /\ p \notin fin_por_consola /\ fin[p].pc = "libre"
  BY <1>1 DEF Propios, Propio, Muerte, Final
<1>3. /\ fin'[p].pc = "mata" /\ fin'[p].i = fin[p].i /\ fin'[p].j = fin[p].j
      /\ \A q \in Procesos : q # p => fin'[q] = fin[q]
  BY AlSeguirFin DEF Finalizar, EtapasFin
<1>4. \A q : Vivo(q)' = Vivo(q) /\ Encolado(q)' = Encolado(q) /\ Llevado(q)' = Llevado(q)
  BY <1>1 DEF Vivo, Encolado, Llevado
<1>5. \A q \in Procesos : Entero(q) => Entero(q)'
  BY <1>1, <1>3, <1>4 DEF Entero, Antes
<1>k. \A t \in Recursos : ToSet(colas_recursos[t]) \subseteq Procesos
  BY DEF TipoColas, ToSet
<1>6. EnColas'
  BY <1>1, <1>5, <1>k DEF EnColas
<1>7. EnCorto' /\ Excluidos' /\ Unicos'
  BY <1>1, <1>4 DEF EnCorto, Excluidos, ConPcb, Unicos
<1>8. EnOtro'
  BY <1>1, <1>4, <1>5 DEF EnOtro, EnMedio, Manos
<1>9. Propio(p)'
  BY <1>1, <1>2, <1>3, <1>4 DEF Propios, Propio, Listo, Muerte, Final, Devuelto
<1>10. \A q \in Procesos : q # p => Propio(q)'
  BY <1>1, <1>3, <1>4 DEF Propios, Propio, Listo, Muerte, Final, Devuelto
<1>11. Propios' /\ UnaMuerte'
  BY <1>1, <1>3, <1>9, <1>10 DEF Propios, UnaMuerte, TipoResto
<1> QED
  BY <1>6, <1>7, <1>8, <1>11

\* An exit thread goes on: everybody else stays where he was, and p is out of the queues and
\* of the hands of the threads, or still entire and where it was.
LEMMA OrdenExit ==
  ASSUME TipoInv, Orden, NEW p \in Procesos, fin[p].pc # "libre",
         UNCHANGED <<hilo, fin_por_consola>>,
         \/ deadlock' = deadlock
         \/ p \in fin_por_consola /\ \A q \in deadlock' : Vivo(q)',
         \A q \in Procesos : q # p =>
           /\ fin'[q] = fin[q] /\ requerido'[q] = requerido[q] /\ asignados'[q] = asignados[q]
           /\ estado'[q] = estado[q] /\ Vivo(q)' = Vivo(q) /\ (q \in listos' <=> q \in listos),
         \A r \in Recursos : /\ IsInjective(colas_recursos'[r])
                            /\ ToSet(colas_recursos'[r]) \subseteq ToSet(colas_recursos[r]),
         \/ Entero(p)' /\ requerido'[p] = requerido[p] /\ (p \in listos' => p \in listos)
         \/ ~Encolado(p)' /\ \A h \in Hilos : hilo[h].pc \in ConOtro => hilo[h].otro # p,
         Propio(p)', Unicos'
  PROVE  Orden'
<1> USE DEF Orden, TipoInv, Tipos
<1>k. \A t \in Recursos : ToSet(colas_recursos[t]) \subseteq Procesos
  BY DEF TipoColas, ToSet
<1>1. \A q \in Procesos : q # p => Entero(q)' = Entero(q)
  BY DEF Entero
<1>2. \A q : (Llevado(q)' = Llevado(q)) /\ (Encolado(q)' => Encolado(q))
  BY DEF Llevado, Encolado
<1>3. EnColas'
  <2> SUFFICES ASSUME NEW r \in Recursos, NEW q \in ToSet(colas_recursos'[r])
               PROVE  requerido'[q] = r /\ q \notin listos' /\ Entero(q)'
    BY DEF EnColas
  <2>1. q \in ToSet(colas_recursos[r]) /\ q \in Procesos
    BY <1>k
  <2>2. requerido[q] = r /\ q \notin listos /\ Entero(q)
    BY <2>1 DEF EnColas
  <2>3. CASE q = p
    BY <2>2, <2>3 DEF Encolado
  <2>4. CASE q # p
    BY <1>1, <2>1, <2>2, <2>4
  <2> QED
    BY <2>3, <2>4
<1>4. EnCorto'
  <2>1. hilo["corto"].pc \in ConPcb => hilo["corto"].pcb \in Procesos \ {p}
    BY DEF EnCorto, Manos
  <2>2. ~Llevado(p)
    BY DEF EnCorto, Llevado
  <2> QED
    BY <1>2, <2>1, <2>2 DEF EnCorto
<1>5. EnOtro'
  <2> SUFFICES ASSUME NEW h \in Hilos, hilo[h].pc \in ConOtro PROVE EnMedio(hilo[h].otro)'
    BY DEF EnOtro
  <2>1. PICK q \in Procesos : q = hilo[h].otro
    BY DEF Manos
  <2>2. EnMedio(q)
    BY <2>1 DEF EnOtro
  <2>3. EnMedio(q)'
    <3>1. CASE q = p
      BY <1>2, <2>1, <2>2, <3>1 DEF EnMedio
    <3>2. CASE q # p
      BY <1>1, <1>2, <2>2, <3>2 DEF EnMedio
    <3> QED
      BY <3>1, <3>2
  <2> QED
    BY <2>1, <2>3
<1>6. ASSUME NEW q \in Procesos, q # p PROVE Propio(q)'
  <2>1. Propio(q)
    BY DEF Propios
  <2>2. Listo(q)' /\ Devuelto(q)'
    BY <1>6, <2>1 DEF Propio, Listo, Devuelto
  <2>3. Muerte(q)'
    BY <1>6, <2>1 DEF Propio, Muerte, UnaMuerte
  <2>4. Final(q)'
    BY <1>6, <2>1 DEF Propio, Final
  <2> QED
    BY <2>2, <2>3, <2>4 DEF Propio
<1>7. Propios'
  BY <1>6 DEF Propios
<1>8. UnaMuerte'
  BY DEF UnaMuerte, TipoResto
<1>9. Excluidos'
  BY DEF Excluidos
<1> QED
  BY <1>3, <1>4, <1>5, <1>7, <1>8, <1>9

LEMMA OrdenSalida ==
  ASSUME TipoInv, Orden, NEW p \in Procesos, AgregarAExit(p)
  PROVE  Orden'
<1> USE DEF Orden, TipoInv, Tipos
<1>h. "corto" \in Hilos /\ "reparto" \in Hilos
  BY DEF Hilos
<1>p. Propio(p)
  BY DEF Propios
<1>e. {"quita", "devuelve", "borra", "lee", "evalua", "avisa", "libre"} \subseteq EtapasFin
  BY DEF EtapasFin
\* From devuelve on, p is neither in a queue nor in the hands of a thread.
<1>f. ASSUME fin[p].pc \notin Antes
      PROVE  ~Encolado(p) /\ \A h \in Hilos : hilo[h].pc \in ConOtro => hilo[h].otro # p
  BY <1>f DEF EnColas, Encolado, EnOtro, EnMedio, Entero
<1>1. CASE FinMata(p)
  <2>1. /\ fin[p].pc = "mata" /\ p \in fin_por_consola /\ listos' \subseteq listos
        /\ estado' = [estado EXCEPT ![p] = "FIN"]
        /\ UNCHANGED <<hilo, fin_por_consola, deadlock, total_pcbs, colas_recursos>>
        /\ UNCHANGED <<requerido, asignados>>
        /\ \A q \in Procesos : q # p => (q \in listos' <=> q \in listos)
    BY <1>1, <1>p DEF FinMata, campos, detector, Propio, Muerte
  <2>2. /\ fin'[p].pc = "quita" /\ fin'[p].i = fin[p].i /\ fin'[p].j = fin[p].j
        /\ \A q \in Procesos : q # p => fin'[q] = fin[q]
    BY <1>1, <1>e, AlSeguirFin DEF FinMata
  <2>3. \A q : Vivo(q)' = Vivo(q) /\ Encolado(q)' = Encolado(q)
    BY <2>1 DEF Vivo, Encolado
  <2>4. \/ Entero(p)' /\ requerido'[p] = requerido[p] /\ (p \in listos' => p \in listos)
        \/ ~Encolado(p)' /\ \A h \in Hilos : hilo[h].pc \in ConOtro => hilo[h].otro # p
    <3>1. CASE Vivo(p)
      BY <2>1, <2>2, <2>3, <3>1 DEF Entero, Antes
    <3>2. CASE ~Vivo(p)
      BY <2>3, <3>2 DEF EnColas, Encolado, EnOtro, EnMedio, Entero
    <3> QED
      BY <3>1, <3>2
  <2>5. Propio(p)'
    BY <1>p, <2>1, <2>2, <2>3 DEF Propio, Listo, Muerte, Final, Devuelto
  <2>6. \A r \in Recursos : /\ IsInjective(colas_recursos'[r])
                            /\ ToSet(colas_recursos'[r]) \subseteq ToSet(colas_recursos[r])
    BY <2>1 DEF EnColas
  <2>7. Unicos'
    BY <2>1 DEF Unicos
  <2>8. \A q \in Procesos : q # p => estado'[q] = estado[q]
    BY <2>1 DEF TipoResto
  <2> QED
    BY <2>1, <2>2, <2>3, <2>4, <2>5, <2>6, <2>7, <2>8, OrdenExit
<1>2. CASE FinQuita(p)
  <2>1. /\ fin[p].pc = "quita"
        /\ UNCHANGED <<listos, estado, hilo, fin_por_consola, deadlock, total_pcbs>>
        /\ UNCHANGED <<requerido, asignados>>
    BY <1>2 DEF FinQuita, campos, detector
  <2>2. /\ fin'[p].pc = "devuelve" /\ fin'[p].i = fin[p].i /\ fin'[p].j = fin[p].j
        /\ \A q \in Procesos : q # p => fin'[q] = fin[q]
    BY <1>2, <1>e, AlSeguirFin DEF FinQuita
  <2>3. \A q : Vivo(q)' = Vivo(q)
    BY <2>1 DEF Vivo
  <2>4. Propio(p)'
    BY <1>p, <2>1, <2>2, <2>3 DEF Propio, Listo, Muerte, Final, Devuelto, TipoPcb
  <2>5. /\ \A r \in Recursos : /\ IsInjective(colas_recursos'[r])
                               /\ ToSet(colas_recursos'[r]) \subseteq ToSet(colas_recursos[r])
        /\ ~Encolado(p)' /\ \A h \in Hilos : hilo[h].pc \in ConOtro => hilo[h].otro # p
    <3>1. CASE requerido[p] = Ninguno
      <4>1. UNCHANGED colas_recursos
        BY <1>2, <3>1 DEF FinQuita
      <4>2. requerido[p] \notin Recursos
        BY <3>1, ConstantesOK DEF Recursos, Ninguno
      <4> QED
        BY <4>1, <4>2 DEF EnColas, Encolado, EnOtro, EnMedio
    <3>2. CASE requerido[p] # Ninguno
      <4>0. requerido[p] \in Recursos
        BY <3>2 DEF TipoPcb
      <4>p. PICK r \in Recursos : r = requerido[p]
        BY <4>0
      <4>1. ColasLibres /\ colas_recursos' = [colas_recursos EXCEPT ![r] = RemoveFirst(@, p)]
        BY <1>2, <3>2, <4>p DEF FinQuita
      <4>2. /\ colas_recursos'[r] = RemoveFirst(colas_recursos[r], p)
            /\ \A t \in Recursos : t # r => colas_recursos'[t] = colas_recursos[t]
        BY <4>1 DEF TipoColas
      <4>3. /\ IsInjective(colas_recursos'[r]) /\ p \notin ToSet(colas_recursos'[r])
            /\ ToSet(colas_recursos'[r]) \subseteq ToSet(colas_recursos[r])
        BY <4>2, AlQuitarPrimero DEF TipoColas, EnColas
      <4>4. \A t \in Recursos : t # r => p \notin ToSet(colas_recursos[t])
        BY <4>p DEF EnColas
      <4>5. \A h \in Hilos : hilo[h].pc \notin ConOtro
        BY <4>1 DEF ColasLibres, ConOtro
      <4> QED
        BY <4>2, <4>3, <4>4, <4>5 DEF EnColas, Encolado
    <3> QED
      BY <3>1, <3>2
  <2>6. Unicos'
    BY <2>1 DEF Unicos
  <2> QED
    BY <2>1, <2>2, <2>3, <2>4, <2>5, <2>6, OrdenExit
<1>3. CASE FinDevuelve(p)
  <2>1. /\ fin[p].pc = "devuelve"
        /\ UNCHANGED <<listos, estado, hilo, fin_por_consola, deadlock, total_pcbs>>
        /\ UNCHANGED <<requerido, asignados, colas_recursos>>
    BY <1>3 DEF FinDevuelve, campos, detector
  <2>2. /\ \A q \in Procesos : q # p => fin'[q] = fin[q]
        /\ \/ fin'[p].pc = "borra"
           \/ /\ fin'[p].pc = "devuelve" /\ fin'[p].i \in Recursos
              /\ fin'[p].j <= asignados[p][fin'[p].i]
    <3>1. CASE SigueFin(p, "borra")
      BY <1>e, <3>1, AlSeguirFin
    <3>2. ASSUME NEW i \in Recursos,
                 \/ i = fin[p].i /\ fin[p].j < asignados[p][i]
                 \/ i > fin[p].i /\ asignados[p][i] > 0,
                 fin' = [fin EXCEPT ![p].i = i, ![p].j = IF i = fin[p].i THEN @ + 1 ELSE 1]
          PROVE  /\ \A q \in Procesos : q # p => fin'[q] = fin[q]
                 /\ fin'[p].pc = "devuelve" /\ fin'[p].i \in Recursos
                 /\ fin'[p].j <= asignados[p][fin'[p].i]
      <4> DEFINE n == IF i = fin[p].i THEN fin[p].j + 1 ELSE 1
      <4>1. fin' = [fin EXCEPT ![p].i = i, ![p].j = n]
        BY <3>2 DEF TipoFin
      <4>2. n <= asignados[p][i]
        <5>1. fin[p].i \in Recursos \cup {1} /\ fin[p].j \in Nat /\ asignados[p][i] \in Nat
          BY DEF TipoFin, TipoPcb
        <5>2. fin[p].i \in Int /\ i \in Int
          BY <5>1 DEF Recursos
        <5> QED
          BY <3>2, <5>1, <5>2
      <4> HIDE DEF n
      <4> QED
        BY <2>1, <4>1, <4>2 DEF TipoFin
    <3> QED
      BY <1>3, <3>1, <3>2 DEF FinDevuelve
  <2>3. \A q : Vivo(q)' = Vivo(q) /\ Encolado(q)' = Encolado(q)
    BY <2>1 DEF Vivo, Encolado
  <2>4. Propio(p)'
    BY <1>p, <2>1, <2>2, <2>3 DEF Propio, Listo, Muerte, Final, Devuelto
  <2>5. /\ ~Encolado(p)' /\ \A h \in Hilos : hilo[h].pc \in ConOtro => hilo[h].otro # p
        /\ Unicos' /\ \A r \in Recursos : IsInjective(colas_recursos'[r])
    BY <1>f, <2>1, <2>3 DEF Antes, Unicos, EnColas
  <2> QED
    BY <2>1, <2>2, <2>3, <2>4, <2>5, OrdenExit
<1>4. CASE FinBorra(p)
  <2>1. /\ fin[p].pc = "borra"
        /\ UNCHANGED <<listos, estado, hilo, fin_por_consola, deadlock, colas_recursos>>
        /\ asignados' = [asignados EXCEPT ![p] = SinNada]
        /\ requerido' = [requerido EXCEPT ![p] = Ninguno]
        /\ total_pcbs' = RemoveFirst(total_pcbs, p)
        /\ fin' = [fin EXCEPT ![p] =
                     [FinReposo EXCEPT !.pc = IF p \in fin_por_consola THEN "lee" ELSE "libre"]]
    BY <1>4 DEF FinBorra, detector
  <2>2. /\ fin'[p].pc = (IF p \in fin_por_consola THEN "lee" ELSE "libre")
        /\ fin'[p].i = 1 /\ fin'[p].j = 0 /\ asignados'[p] = SinNada
        /\ \A q \in Procesos : q # p => /\ fin'[q] = fin[q] /\ requerido'[q] = requerido[q]
                                      /\ asignados'[q] = asignados[q]
    BY <2>1 DEF TipoFin, TipoPcb, FinReposo
  <2>3. Unicos' /\ ~Vivo(p)' /\ \A q \in Procesos : q # p => Vivo(q)' = Vivo(q)
    <3>1. /\ IsInjective(total_pcbs') /\ p \notin ToSet(total_pcbs')
          /\ ToSet(total_pcbs') \subseteq ToSet(total_pcbs)
          /\ ToSet(total_pcbs) \subseteq ToSet(total_pcbs') \cup {p}
      BY <2>1, AlQuitarPrimero DEF TipoColas, Unicos
    <3> QED
      BY <3>1 DEF Unicos, Vivo
  <2>4. Propio(p)'
    BY <1>p, <2>1, <2>2, <2>3 DEF Propio, Listo, Muerte, Final, Devuelto
  <2>5. /\ ~Encolado(p)' /\ \A h \in Hilos : hilo[h].pc \in ConOtro => hilo[h].otro # p
        /\ \A r \in Recursos : IsInjective(colas_recursos'[r])
    BY <1>f, <2>1 DEF Antes, EnColas, Encolado
  <2> QED
    BY <2>1, <2>2, <2>3, <2>4, <2>5, OrdenExit
<1>5. CASE FinLee(p) \/ FinEvalua(p) \/ FinAvisa(p)
  <2>1. /\ fin[p].pc \in {"lee", "evalua", "avisa"} /\ UNCHANGED fin_por_consola
        /\ UNCHANGED <<listos, estado, hilo, total_pcbs, requerido, asignados, colas_recursos>>
    BY <1>5 DEF FinLee, FinEvalua, FinAvisa, LeeDisponibles, Evalua, campos
  <2>2. /\ \/ fin[p].pc = "lee" /\ fin'[p].pc = "evalua" /\ deadlock' = deadlock
           \/ fin[p].pc = "evalua" /\ fin'[p].pc = "avisa" /\ deadlock' = Resto
           \/ fin[p].pc = "avisa" /\ fin'[p].pc = "libre" /\ deadlock' = deadlock
        /\ fin'[p].i = fin[p].i /\ fin'[p].j = fin[p].j
        /\ \A q \in Procesos : q # p => fin'[q] = fin[q]
    <3>1. CASE FinLee(p)
      BY <1>e, <3>1, AlSeguirFin DEF FinLee, LeeDisponibles
    <3>2. CASE FinEvalua(p)
      BY <1>e, <3>2, AlSeguirFin DEF FinEvalua, Evalua
    <3>3. CASE FinAvisa(p)
      BY <1>e, <3>3, AlSeguirFin DEF FinAvisa, detector
    <3> QED
      BY <1>5, <3>1, <3>2, <3>3
  <2>3. \A q : Vivo(q)' = Vivo(q) /\ Encolado(q)' = Encolado(q)
    BY <2>1 DEF Vivo, Encolado
  <2>4. p \in fin_por_consola /\ ~Vivo(p)
    BY <1>p, <2>1 DEF Propio, Muerte, Devuelto
  <2>5. deadlock' = deadlock \/ \A q \in deadlock' : Vivo(q)'
    BY <2>2, <2>3, RestoVivo
  <2>6. Propio(p)'
    <3>1. Listo(p)' /\ Devuelto(p)'
      BY <1>p, <2>1, <2>2, <2>3, <2>4 DEF Propio, Listo, Devuelto
    <3>2. Muerte(p)'
      BY <1>p, <2>1, <2>2, <2>3, <2>4 DEF Propio, Muerte
    <3>3. Final(p)'
      BY <1>p, <2>1, <2>2, <2>3, <2>4, RestoVivo DEF Propio, Final
    <3> QED
      BY <3>1, <3>2, <3>3 DEF Propio
  <2>7. /\ ~Encolado(p)' /\ \A h \in Hilos : hilo[h].pc \in ConOtro => hilo[h].otro # p
        /\ Unicos' /\ \A r \in Recursos : IsInjective(colas_recursos'[r])
    BY <1>f, <2>1, <2>3 DEF Antes, Unicos, EnColas
  <2> QED
    BY <2>1, <2>2, <2>3, <2>4, <2>5, <2>6, <2>7, OrdenExit
<1> QED
  BY <1>1, <1>2, <1>3, <1>4, <1>5 DEF AgregarAExit

LEMMA OrdenReparto ==
  ASSUME TipoInv, Orden, ~fallo, Reparto
  PROVE  Orden'
<1>h. "corto" \in Hilos /\ "reparto" \in Hilos /\ \A g \in Hilos : g = "corto" \/ g = "reparto"
  BY DEF Hilos
<1>1. ASSUME NEW r \in Recursos, RepartoDespierta(r) PROVE Orden'
  <2>1. hilo'["reparto"].pc = "saca" /\ hilo'["corto"] = hilo["corto"]
    BY <1>1, <1>h DEF RepartoDespierta, TipoInv, Tipos, TipoHilo
  <2>2. /\ UNCHANGED <<listos, total_pcbs, colas_recursos, requerido, asignados, fin>>
        /\ UNCHANGED <<fin_por_consola, estado, deadlock>>
    BY <1>1 DEF RepartoDespierta, campos, detector
  <2> QED
    BY <1>h, <2>1, <2>2, OrdenHilo DEF ConOtro
<1>2. CASE SacarDeBlockRecurso("reparto")
  BY <1>h, <1>2, OrdenSacar
<1> QED
  BY <1>1, <1>2 DEF Reparto

-----------------------------------------------------------------------------
(* The queues.  A freed t_pcb is first used when the planner dispatches a killed process that *)
(* a hand-over has put into READY, and nothing moves after that: the queues are then as they  *)
(* were.                                                                                      *)

Ordenado == ColaCoherente /\ (~fallo => Orden)

LEMMA OrdenCola == Orden => ColaCoherente
BY DEF Orden, EnColas, Entero, ColaCoherente

LEMMA OrdenadoInicial == Init => Ordenado
<1> SUFFICES ASSUME Init PROVE Ordenado
  OBVIOUS
<1>1. Orden
  BY OrdenInicial
<1> QED
  BY <1>1, OrdenCola DEF Ordenado

LEMMA OrdenadoPaso == TipoInv /\ Ordenado /\ [Next]_vars => Ordenado'
<1> SUFFICES ASSUME TipoInv, Ordenado, [Next]_vars PROVE Ordenado'
  OBVIOUS
<1>o. Orden' => ColaCoherente'
  BY DEF Orden, EnColas, Entero, ColaCoherente
<1>1. CASE UNCHANGED vars
  BY <1>1
  DEF vars, campos, detector, avisos, Ordenado, ColaCoherente, Orden, Excluidos, EnColas, EnCorto,
      EnOtro, EnMedio, Entero, Encolado, Llevado, Vivo, Propios, Propio, Listo, Muerte, Final,
      Devuelto, UnaMuerte, Unicos
<1>2. CASE Next
  <2>1. ~fallo /\ Orden
    BY <1>2 DEF Next, Ordenado
  <2>2. CASE Orden'
    BY <1>o, <2>2 DEF Ordenado
  <2>3. CASE fallo'
    <3>1. UNCHANGED <<colas_recursos, requerido, total_pcbs>> /\ listos' \subseteq listos
      <4>1. CASE \E p \in Procesos : CortoElige(p)
        BY <4>1 DEF CortoElige, campos
      <4>2. CASE Corto /\ ~ \E p \in Procesos : CortoElige(p)
        <5>1. ASSUME CortoFinaliza PROVE FALSE
          BY <2>1, <2>3, <5>1 DEF CortoFinaliza, En, Pcb, Orden, EnCorto, ConPcb
        <5>2. ASSUME SacarDeBlockRecurso("corto") PROVE FALSE
          BY <2>1, <2>3, <5>2, OrdenSacar DEF Hilos
        <5> QED
          BY <2>1, <2>3, <4>2, <5>1, <5>2
          DEF Corto, CortoWait, CortoSignal, CortoToma, CortoEncola, CortoMarca, CortoLee,
              CortoEvalua, CortoContinua, CortoDesaloja, LeeDisponibles, Evalua
      <4>3. CASE Reparto
        <5>1. ASSUME SacarDeBlockRecurso("reparto") PROVE FALSE
          BY <2>1, <2>3, <5>1, OrdenSacar DEF Hilos
        <5> QED
          BY <2>1, <2>3, <4>3, <5>1 DEF Reparto, RepartoDespierta
      <4>4. CASE \E p \in Procesos : AgregarAExit(p) \/ Finalizar(p)
        BY <2>1, <2>3, <4>4
        DEF AgregarAExit, Finalizar, FinMata, FinQuita, FinDevuelve, FinBorra, FinLee, FinEvalua,
            FinAvisa, LeeDisponibles, Evalua
      <4> QED
        BY <1>2, <4>1, <4>2, <4>3, <4>4 DEF Next
    <3>2. ColaCoherente'
      BY <3>1 DEF Ordenado, ColaCoherente, Vivo
    <3> QED
      BY <2>3, <3>2 DEF Ordenado
  <2> QED
    BY <1>2, <2>1, <2>2, <2>3, OrdenCorto, OrdenReparto, OrdenSalida, OrdenFinalizar DEF Next
<1> QED
  BY <1>1, <1>2

LEMMA OrdenadoSiempre == Spec => []Ordenado
BY OrdenadoInicial, OrdenadoPaso, TipoSiempre, PTL DEF Spec

\* Who is in the queue of a resource waits for it and for no other, once, is not ready and has
\* not been freed, with kills, with hand-overs and with the detector at work.
THEOREM ColaTeorema == Spec => []ColaCoherente
<1>1. Ordenado => ColaCoherente
  BY DEF Ordenado
<1> QED
  BY <1>1, OrdenadoSiempre, PTL

-----------------------------------------------------------------------------
(* Instances are conserved.  A step changes what one process holds, and moves the difference *)
(* to the semaphore or to the hands of a thread: Balance is the part of the sum it touches.  *)

De(h, r) == IF hilo[h].pc = "entrega" /\ hilo[h].rec = r THEN 1 ELSE 0

Balance(p, r) == vector_recursos[r] + EnPoder(p, r) + De("corto", r) + De("reparto", r)

LEMMA DosHilos ==
  ASSUME NEW T, T \subseteq Hilos
  PROVE  Cardinality(T) = (IF "corto" \in T THEN 1 ELSE 0) + (IF "reparto" \in T THEN 1 ELSE 0)
<1>1. Cardinality({}) = 0 /\ Cardinality({"corto"}) = 1 /\ Cardinality({"reparto"}) = 1
  BY FS_EmptySet, FS_Singleton
<1>2. Cardinality({"corto", "reparto"}) = 2
  <2>1. IsFiniteSet({"reparto"}) /\ "corto" \notin {"reparto"}
    BY FS_Singleton
  <2>2. Cardinality({"reparto"} \cup {"corto"}) = Cardinality({"reparto"}) + 1
    BY <2>1, FS_AddElement
  <2>3. {"reparto"} \cup {"corto"} = {"corto", "reparto"}
    OBVIOUS
  <2> QED
    BY <1>1, <2>2, <2>3
<1>3. \/ T = {"corto", "reparto"} \/ T = {"corto"} \/ T = {"reparto"} \/ T = {}
  BY DEF Hilos
<1>4. "corto" # "reparto"
  OBVIOUS
<1> QED
  BY <1>1, <1>2, <1>3, <1>4

CaminoOK == \A r \in Recursos : EnCamino(r) = De("corto", r) + De("reparto", r)

LEMMA CaminoSuma == CaminoOK
<1> SUFFICES ASSUME NEW r \in Recursos PROVE EnCamino(r) = De("corto", r) + De("reparto", r)
  BY DEF CaminoOK
<1> DEFINE T == {h \in Hilos : En(h, "entrega") /\ Rec(h) = r}
<1>1. /\ T \subseteq Hilos
      /\ "corto" \in T <=> hilo["corto"].pc = "entrega" /\ hilo["corto"].rec = r
      /\ "reparto" \in T <=> hilo["reparto"].pc = "entrega" /\ hilo["reparto"].rec = r
  BY DEF Hilos, En, Rec
<1>2. EnCamino(r) = Cardinality(T)
  BY DEF EnCamino
<1> HIDE DEF T
<1> QED
  BY <1>1, <1>2, DosHilos DEF De

PoderOK == \A p \in Procesos, r \in Recursos : EnPoder(p, r) \in Int

LEMMA PoderTipo == TipoInv => PoderOK
<1> SUFFICES ASSUME TipoInv, NEW p \in Procesos, NEW r \in Recursos PROVE EnPoder(p, r) \in Int
  BY DEF PoderOK
<1>1. asignados[p][r] \in Int /\ fin[p].j \in Int
  BY DEF TipoInv, Tipos, TipoPcb, TipoFin
<1>2. asignados[p][r] - fin[p].j \in Int
  BY <1>1
<1> QED
  BY <1>1, <1>2 DEF EnPoder

\* What is left in the sum of one resource when only p changes.
LEMMA Conserva ==
  ASSUME TipoInv, TipoInv', InstanciasConservadas, NEW p \in Procesos,
         \A q \in Procesos, r \in Recursos : q # p => EnPoder(q, r)' = EnPoder(q, r),
         \A r \in Recursos : Balance(p, r)' = Balance(p, r)
  PROVE  InstanciasConservadas'
<1> SUFFICES ASSUME NEW r \in Recursos
             PROVE  (vector_recursos[r] + SumFunction([q \in Procesos |-> EnPoder(q, r)])
                       + EnCamino(r) = Instancias[r])'
  BY DEF InstanciasConservadas
<1> DEFINE f == [q \in Procesos |-> EnPoder(q, r)]
           h == [q \in Procesos |-> EnPoder(q, r)']
<1>1. IsFiniteSet(Procesos)
  BY ConstantesOK, FS_Interval DEF Procesos
<1>2. \A q \in Procesos : f[q] \in Int /\ h[q] \in Int
  <2>1. PoderOK /\ PoderOK'
    BY PoderTipo, PTL
  <2> QED
    BY <2>1 DEF PoderOK
<1>3. \A q \in Procesos : q # p => h[q] = f[q]
  OBVIOUS
<1> DEFINE a == SumFunctionOnSet(f, Procesos)
           b == SumFunctionOnSet(h, Procesos)
<1>4. h[p] = EnPoder(p, r)' /\ f[p] = EnPoder(p, r)
  OBVIOUS
<1>5. SumFunction(f) = a /\ SumFunction(h) = b
  BY DEF SumFunction
<1> HIDE DEF f, h
<1>6. b = a + (h[p] - f[p]) /\ a \in Int
  BY <1>1, <1>2, <1>3, SumaCambia, SumaTipo
<1>7. EnCamino(r) = De("corto", r) + De("reparto", r)
  BY CaminoSuma DEF CaminoOK
<1>8. EnCamino(r)' = De("corto", r)' + De("reparto", r)'
  <2>1. CaminoOK'
    BY CaminoSuma, PTL
  <2> QED
    BY <2>1 DEF CaminoOK
<1>9. /\ De("corto", r) \in Int /\ De("reparto", r) \in Int
      /\ De("corto", r)' \in Int /\ De("reparto", r)' \in Int
      /\ vector_recursos[r] \in Int /\ vector_recursos'[r] \in Int
  BY DEF De, TipoInv, Tipos, TipoCuentas
<1>10. vector_recursos[r] + a + EnCamino(r) = Instancias[r]
  BY <1>5 DEF InstanciasConservadas, f
<1>11. /\ vector_recursos'[r] + h[p] + De("corto", r)' + De("reparto", r)'
            = vector_recursos[r] + f[p] + De("corto", r) + De("reparto", r)
       /\ h[p] \in Int /\ f[p] \in Int
  BY <1>2, <1>4 DEF Balance
<1> HIDE DEF a, b
<1>12. vector_recursos'[r] + b + EnCamino(r)' = Instancias[r]
  BY <1>6, <1>7, <1>8, <1>9, <1>10, <1>11
<1> QED
  BY <1>5, <1>12 DEF h

\* Nobody's holding changes.
LEMMA ConservaIgual ==
  ASSUME TipoInv, TipoInv', InstanciasConservadas,
         \A q \in Procesos, r \in Recursos : EnPoder(q, r)' = EnPoder(q, r),
         \A r \in Recursos : vector_recursos'[r] + De("corto", r)' + De("reparto", r)'
                            = vector_recursos[r] + De("corto", r) + De("reparto", r)
  PROVE  InstanciasConservadas'
<1> SUFFICES ASSUME NEW r \in Recursos
             PROVE  (vector_recursos[r] + SumFunction([q \in Procesos |-> EnPoder(q, r)])
                       + EnCamino(r) = Instancias[r])'
  BY DEF InstanciasConservadas
<1> DEFINE f == [q \in Procesos |-> EnPoder(q, r)]
           a == SumFunctionOnSet(f, Procesos)
<1>1. a \in Int
  <2>1. IsFiniteSet(Procesos)
    BY ConstantesOK, FS_Interval DEF Procesos
  <2>2. \A q \in Procesos : f[q] \in Int
    BY PoderTipo DEF PoderOK
  <2> HIDE DEF f
  <2> QED
    BY <2>1, <2>2, SumaTipo
<1>2. [q \in Procesos |-> EnPoder(q, r)'] = f
  OBVIOUS
<1>3. SumFunction(f) = a
  BY DEF SumFunction
<1>4. EnCamino(r) = De("corto", r) + De("reparto", r)
  BY CaminoSuma DEF CaminoOK
<1>5. EnCamino(r)' = De("corto", r)' + De("reparto", r)'
  <2>1. CaminoOK'
    BY CaminoSuma, PTL
  <2> QED
    BY <2>1 DEF CaminoOK
<1>6. /\ De("corto", r) \in Int /\ De("reparto", r) \in Int
      /\ De("corto", r)' \in Int /\ De("reparto", r)' \in Int
      /\ vector_recursos[r] \in Int /\ vector_recursos'[r] \in Int
  BY DEF De, TipoInv, Tipos, TipoCuentas
<1>7. vector_recursos[r] + a + EnCamino(r) = Instancias[r]
  BY <1>3 DEF InstanciasConservadas
<1> HIDE DEF a, f
<1>8. vector_recursos'[r] + a + EnCamino(r)' = Instancias[r]
  BY <1>1, <1>4, <1>5, <1>6, <1>7
<1> QED
  BY <1>2, <1>3, <1>8

\* Threads move, and none of them to or from "entrega".
LEMMA ConservaHilo ==
  ASSUME TipoInv, TipoInv', InstanciasConservadas, UNCHANGED <<vector_recursos, asignados, fin>>,
         \A h \in Hilos : \/ hilo'[h] = hilo[h]
                          \/ hilo[h].pc # "entrega" /\ hilo'[h].pc # "entrega"
  PROVE  InstanciasConservadas'
<1>1. \A r : De("corto", r)' = De("corto", r) /\ De("reparto", r)' = De("reparto", r)
  BY DEF De, Hilos
<1>2. \A q \in Procesos, r \in Recursos : EnPoder(q, r)' = EnPoder(q, r)
  BY DEF EnPoder
<1> QED
  BY <1>1, <1>2, ConservaIgual

LEMMA PoderIgual ==
  ASSUME NEW q, NEW r, fin'[q] = fin[q], asignados'[q][r] = asignados[q][r]
  PROVE  EnPoder(q, r)' = EnPoder(q, r)
BY DEF EnPoder

LEMMA ConservaInicial == Init => InstanciasConservadas
<1> SUFFICES ASSUME Init, NEW r \in Recursos
             PROVE  vector_recursos[r] + SumFunction([p \in Procesos |-> EnPoder(p, r)])
                      + EnCamino(r) = Instancias[r]
  BY DEF InstanciasConservadas
<1> DEFINE f == [p \in Procesos |-> EnPoder(p, r)]
<1>1. \A p \in Procesos : f[p] = 0
  BY DEF Init, FinReposo, EnPoder, SinNada
<1>2. IsFiniteSet(Procesos)
  BY ConstantesOK, FS_Interval DEF Procesos
<1>3. SumFunction(f) = SumFunctionOnSet(f, Procesos)
  BY DEF SumFunction
<1> HIDE DEF f
<1>4. SumFunction(f) = 0
  BY <1>1, <1>2, <1>3, SumaTipo
<1>5. EnCamino(r) = 0
  <2>1. De("corto", r) = 0 /\ De("reparto", r) = 0
    BY DEF Init, De, Hilos, Reposo
  <2> QED
    BY <2>1, CaminoSuma DEF CaminoOK
<1>6. vector_recursos[r] = Instancias[r] /\ Instancias[r] \in Nat
  BY ConstantesOK DEF Init
<1> QED
  BY <1>4, <1>5, <1>6 DEF f

LEMMA ConservaSacar ==
  ASSUME TipoInv, TipoInv', Orden, InstanciasConservadas, NEW h \in Hilos, SacarDeBlockRecurso(h)
  PROVE  InstanciasConservadas'
<1> USE DEF TipoInv, Tipos
<1>h. "corto" \in Hilos /\ "reparto" \in Hilos /\ \A g \in Hilos : g = "corto" \/ g = "reparto"
  BY DEF Hilos
<1>1. CASE Saca(h)
  <2>1. hilo[h].pc = "saca" /\ UNCHANGED <<vector_recursos, asignados, fin>>
    BY <1>1 DEF Saca, En, campos
  <2>2. hilo'[h].pc # "entrega" /\ \A g \in Hilos : g # h => hilo'[g] = hilo[g]
    <3>1. CASE Vuelve(h)
      BY <3>1, AlVolver
    <3>2. CASE ~Vuelve(h)
      BY <1>1, <3>2 DEF Saca, TipoHilo
    <3> QED
      BY <3>1, <3>2
  <2> QED
    BY <2>1, <2>2, ConservaHilo
<1>2. CASE TomaInstancia(h)
  <2>1. /\ hilo[h].pc = "toma" /\ hilo[h].rec \in Recursos
        /\ UNCHANGED <<asignados, fin>>
    BY <1>2 DEF TomaInstancia, En, campos, Manos, ConRec, ConOtro
  <2>2. CASE vector_recursos[hilo[h].rec] > 0
    <3>1. Toma(hilo[h].rec) /\ Sigue(h, "entrega")
      BY <1>2, <2>2 DEF TomaInstancia, Rec
    <3>2. /\ hilo'[h].pc = "entrega" /\ hilo'[h].rec = hilo[h].rec
          /\ \A g \in Hilos : g # h => hilo'[g] = hilo[g]
      BY <3>1, AlSeguir DEF Etapas
    <3>3. \A r \in Recursos : vector_recursos'[r]
                              = IF r = hilo[h].rec THEN vector_recursos[r] - 1
                                                   ELSE vector_recursos[r]
      BY <2>1, <2>2, <3>1, AlTomar
    <3>4. \A q \in Procesos, r \in Recursos : EnPoder(q, r)' = EnPoder(q, r)
      BY <2>1, PoderIgual
    <3>5. \A r \in Recursos : vector_recursos'[r] + De("corto", r)' + De("reparto", r)'
                             = vector_recursos[r] + De("corto", r) + De("reparto", r)
      BY <1>h, <2>1, <3>2, <3>3 DEF De, TipoCuentas
    <3> QED
      BY <3>4, <3>5, ConservaIgual
  <2>3. CASE ~ (vector_recursos[hilo[h].rec] > 0)
    <3>1. UNCHANGED vector_recursos /\ Sigue(h, "duerme")
      BY <1>2, <2>3 DEF TomaInstancia, Rec
    <3>2. hilo'[h].pc = "duerme" /\ \A g \in Hilos : g # h => hilo'[g] = hilo[g]
      BY <3>1, AlSeguir DEF Etapas
    <3> QED
      BY <2>1, <3>1, <3>2, ConservaHilo
  <2> QED
    BY <2>2, <2>3
<1>3. CASE Entrega(h)
  <2>0. hilo[h].pc = "entrega" /\ hilo[h].otro \in Procesos /\ hilo[h].rec \in Recursos
    BY <1>3 DEF Entrega, En, Manos, ConOtro, ConRec
  <2>p. PICK p \in Procesos, t \in Recursos : p = hilo[h].otro /\ t = hilo[h].rec
    BY <2>0
  <2>1. /\ asignados' = [asignados EXCEPT ![p][t] = asignados[p][t] + 1]
        /\ Vuelve(h) /\ UNCHANGED <<vector_recursos, fin>>
    BY <1>3, <2>p DEF Entrega, Rec
  <2>2. fin[p].pc \in Antes
    BY <2>0, <2>p DEF Orden, EnOtro, EnMedio, Entero, ConOtro
  <2>3. hilo'[h].pc # "entrega" /\ \A g \in Hilos : g # h => hilo'[g] = hilo[g]
    BY <2>1, AlVolver
  <2>4. /\ asignados'[p][t] = asignados[p][t] + 1
        /\ \A q \in Procesos, r \in Recursos : q # p \/ r # t => asignados'[q][r] = asignados[q][r]
    <3>1. PICK n \in Nat : n = asignados[p][t] + 1
      BY DEF TipoPcb
    <3>2. asignados' = [asignados EXCEPT ![p][t] = n]
      BY <2>1, <3>1
    <3>3. /\ asignados'[p][t] = n
          /\ \A q \in Procesos, r \in Recursos :
               q # p \/ r # t => asignados'[q][r] = asignados[q][r]
      BY <3>2 DEF TipoPcb
    <3> QED
      BY <3>1, <3>3
  <2>5. \A q \in Procesos, r \in Recursos : q # p => EnPoder(q, r)' = EnPoder(q, r)
    BY <2>1, <2>4, PoderIgual
  <2>6. \A r \in Recursos : EnPoder(p, r)' = asignados'[p][r] /\ EnPoder(p, r) = asignados[p][r]
    BY <2>1, <2>2 DEF EnPoder, Antes
  <2>7. \A r \in Recursos : Balance(p, r)' = Balance(p, r)
    <3> SUFFICES ASSUME NEW r \in Recursos PROVE Balance(p, r)' = Balance(p, r)
      OBVIOUS
    <3>1. /\ asignados[p][r] \in Int /\ vector_recursos[r] \in Int
          /\ vector_recursos'[r] = vector_recursos[r]
      BY <2>1 DEF TipoPcb, TipoCuentas
    <3>2. \A g \in Hilos : De(g, r) \in Int
      BY DEF De
    <3>3. De(h, r)' = 0 /\ De(h, r) = (IF r = t THEN 1 ELSE 0)
      BY <2>0, <2>p, <2>3 DEF De
    <3>4. \A g \in Hilos : g # h => De(g, r)' = De(g, r)
      BY <2>3 DEF De
    <3>5. De("corto", r)' + De("reparto", r)' + (IF r = t THEN 1 ELSE 0)
            = De("corto", r) + De("reparto", r)
      BY <1>h, <3>2, <3>3, <3>4
    <3>6. asignados'[p][r] = asignados[p][r] + (IF r = t THEN 1 ELSE 0)
      BY <2>4, <3>1
    <3>7. De("corto", r)' \in Int /\ De("reparto", r)' \in Int
      BY DEF De
    <3> QED
      BY <1>h, <2>6, <3>1, <3>2, <3>5, <3>6, <3>7 DEF Balance
  <2> QED
    BY <2>5, <2>7, Conserva
<1> QED
  BY <1>1, <1>2, <1>3 DEF SacarDeBlockRecurso

\* The planner with p takes or returns an instance of t.
LEMMA ConservaAsigna ==
  ASSUME TipoInv, TipoInv', InstanciasConservadas, NEW p \in Procesos, NEW t \in Recursos,
         NEW n \in Int, fin[p].pc \in Antes, UNCHANGED fin,
         \A h \in Hilos : \/ hilo'[h] = hilo[h]
                          \/ hilo[h].pc # "entrega" /\ hilo'[h].pc # "entrega",
         asignados'[p][t] = asignados[p][t] + n, vector_recursos'[t] = vector_recursos[t] - n,
         \A q \in Procesos, r \in Recursos : q # p \/ r # t => asignados'[q][r] = asignados[q][r],
         \A r \in Recursos : r # t => vector_recursos'[r] = vector_recursos[r]
  PROVE  InstanciasConservadas'
<1>1. \A r : De("corto", r)' = De("corto", r) /\ De("reparto", r)' = De("reparto", r)
  BY DEF De, Hilos
<1>2. \A q \in Procesos, r \in Recursos : q # p => EnPoder(q, r)' = EnPoder(q, r)
  BY PoderIgual
<1>3. \A r \in Recursos : EnPoder(p, r)' = asignados'[p][r] /\ EnPoder(p, r) = asignados[p][r]
  BY DEF EnPoder, Antes
<1>4. \A r \in Recursos : /\ asignados[p][r] \in Int /\ vector_recursos[r] \in Int
                         /\ De("corto", r) \in Int /\ De("reparto", r) \in Int
  BY DEF TipoInv, Tipos, TipoPcb, TipoCuentas, De
<1>5. \A r \in Recursos : Balance(p, r)' = Balance(p, r)
  BY <1>1, <1>3, <1>4 DEF Balance
<1> QED
  BY <1>2, <1>5, Conserva

LEMMA ConservaCorto ==
  ASSUME TipoInv, TipoInv', Orden, InstanciasConservadas, Corto
  PROVE  InstanciasConservadas'
<1>t. Tipos /\ Manos /\ TipoHilo /\ TipoPcb /\ TipoCuentas /\ TipoFin
  BY DEF TipoInv, Tipos
<1>h. "corto" \in Hilos /\ "reparto" \in Hilos /\ \A g \in Hilos : g = "corto" \/ g = "reparto"
  BY DEF Hilos
<1>1. ASSUME NEW p \in Procesos, CortoElige(p) PROVE InstanciasConservadas'
  <2>1. /\ UNCHANGED <<vector_recursos, asignados, fin>> /\ hilo["corto"].pc = "elige"
        /\ hilo'["corto"].pc = "ejecuta" /\ hilo'["reparto"] = hilo["reparto"]
    BY <1>1, <1>h, <1>t DEF CortoElige, En, TipoHilo, campos
  <2> QED
    BY <1>h, <2>1, ConservaHilo
<1>2. ASSUME NEW r \in Recursos, CortoWait(r) PROVE InstanciasConservadas'
  <2>1. /\ UNCHANGED <<vector_recursos, asignados, fin>> /\ hilo["corto"].pc = "ejecuta"
        /\ hilo'["corto"].pc \in {"toma_wait", "encola"} /\ hilo'["reparto"] = hilo["reparto"]
    BY <1>2, <1>h, <1>t DEF CortoWait, En, TipoHilo, campos
  <2> QED
    BY <1>h, <2>1, ConservaHilo
<1>3. CASE CortoToma
  <2>0. /\ hilo["corto"].pc = "toma_wait" /\ UNCHANGED fin
        /\ hilo["corto"].pcb \in Procesos /\ hilo["corto"].rec \in Recursos
    BY <1>3, <1>h, <1>t DEF CortoToma, En, Manos, ConPcb, ConRec
  <2>p. PICK p \in Procesos, t \in Recursos : p = hilo["corto"].pcb /\ t = hilo["corto"].rec
    BY <2>0
  <2>1. fin[p].pc = "libre"
    BY <2>0, <2>p DEF Orden, EnCorto, ConPcb
  <2>2. CASE vector_recursos[t] > 0
    <3>1. /\ Toma(t) /\ Vuelve("corto")
          /\ asignados' = [asignados EXCEPT ![p][t] = asignados[p][t] + 1]
      BY <1>3, <2>2, <2>p DEF CortoToma, Rec, Pcb
    <3>2. hilo'["corto"].pc = "ejecuta" /\ hilo'["reparto"] = hilo["reparto"]
      BY <1>h, <1>t, <3>1, AlVolver
    <3>3. /\ vector_recursos'[t] = vector_recursos[t] - 1
          /\ \A r \in Recursos : r # t => vector_recursos'[r] = vector_recursos[r]
      BY <1>t, <2>2, <3>1, AlTomar
    <3>4. /\ asignados'[p][t] = asignados[p][t] + 1
          /\ \A q \in Procesos, r \in Recursos :
               q # p \/ r # t => asignados'[q][r] = asignados[q][r]
      BY <1>t, <3>1 DEF TipoPcb
    <3> QED
      BY <1>h, <2>0, <2>1, <3>2, <3>3, <3>4, ConservaAsigna DEF Antes
  <2>3. CASE ~ (vector_recursos[t] > 0)
    <3>1. Sigue("corto", "duerme_wait") /\ UNCHANGED <<vector_recursos, asignados>>
      BY <1>3, <2>3, <2>p DEF CortoToma, Rec
    <3>2. hilo'["corto"].pc = "duerme_wait" /\ hilo'["reparto"] = hilo["reparto"]
      BY <1>h, <1>t, <3>1, AlSeguir DEF Etapas
    <3> QED
      BY <1>h, <2>0, <3>1, <3>2, ConservaHilo
  <2> QED
    BY <2>2, <2>3
<1>4. CASE CortoEncola \/ CortoMarca \/ CortoLee \/ CortoEvalua \/ CortoContinua \/ CortoDesaloja
  <2>1. /\ hilo["corto"].pc # "entrega" /\ UNCHANGED <<vector_recursos, asignados, fin>>
        /\ \/ Sigue("corto", "marca") \/ Sigue("corto", "evalua") \/ Sigue("corto", "espera")
           \/ hilo' = [hilo EXCEPT !["corto"] = Reposo("corto")]
           \/ hilo' = [hilo EXCEPT !["corto"] = [Reposo("corto") EXCEPT !.pc = "lee"]]
    BY <1>4
    DEF CortoEncola, CortoMarca, CortoLee, CortoEvalua, CortoContinua, CortoDesaloja,
        LeeDisponibles, Evalua, En, campos
  <2>2. hilo'["corto"].pc # "entrega" /\ hilo'["reparto"] = hilo["reparto"]
    BY <1>h, <1>t, <2>1 DEF Sigue, Reposo, TipoHilo
  <2> QED
    BY <1>h, <2>1, <2>2, ConservaHilo
<1>5. ASSUME NEW t \in Recursos, CortoSignal(t) PROVE InstanciasConservadas'
  <2>0. hilo["corto"].pc = "ejecuta" /\ hilo["corto"].pcb \in Procesos /\ UNCHANGED fin
    BY <1>5, <1>t DEF CortoSignal, En, Manos, ConPcb
  <2>p. PICK p \in Procesos : p = hilo["corto"].pcb
    BY <2>0
  <2>1. fin[p].pc = "libre"
    BY <2>0, <2>p DEF Orden, EnCorto, ConPcb
  <2>2. /\ Suelta(t) /\ asignados' = [asignados EXCEPT ![p][t] = asignados[p][t] - 1]
    BY <1>5, <2>p DEF CortoSignal, Pcb
  <2>3. hilo'["corto"].pc # "entrega" /\ hilo'["reparto"] = hilo["reparto"]
    BY <1>5, <1>h, <1>t, <2>0 DEF CortoSignal, TipoHilo
  <2>4. /\ vector_recursos'[t] = vector_recursos[t] + 1
        /\ \A r \in Recursos : r # t => vector_recursos'[r] = vector_recursos[r]
    BY <1>t, <2>2, AlSoltar
  <2>5. /\ asignados'[p][t] = asignados[p][t] - 1
        /\ \A q \in Procesos, r \in Recursos :
             q # p \/ r # t => asignados'[q][r] = asignados[q][r]
    BY <1>t, <2>2 DEF TipoPcb
  <2>6. /\ asignados'[p][t] = asignados[p][t] + (-1)
        /\ vector_recursos'[t] = vector_recursos[t] - (-1) /\ -1 \in Int
    BY <1>t, <2>4, <2>5 DEF TipoPcb, TipoCuentas
  <2> QED
    BY <1>h, <2>0, <2>1, <2>3, <2>4, <2>5, <2>6, ConservaAsigna DEF Antes
<1>6. CASE CortoFinaliza
  <2>0. /\ hilo["corto"].pc = "ejecuta" /\ UNCHANGED <<vector_recursos, asignados>>
        /\ hilo["corto"].pcb \in Procesos
    BY <1>6, <1>t DEF CortoFinaliza, En, Manos, ConPcb, campos
  <2>p. PICK p \in Procesos : p = hilo["corto"].pcb
    BY <2>0
  <2>1. fin[p].pc = "libre"
    BY <2>0, <2>p DEF Orden, EnCorto, ConPcb
  <2>2. fin'[p].pc = "quita" /\ \A q \in Procesos : q # p => fin'[q] = fin[q]
    BY <1>6, <1>t, <2>p, AlSeguirFin DEF CortoFinaliza, Pcb, EtapasFin
  <2>3. hilo'["corto"].pc = "elige" /\ hilo'["reparto"] = hilo["reparto"]
    BY <1>6, <1>t, AlReposar DEF CortoFinaliza
  <2>4. \A q \in Procesos, r \in Recursos : EnPoder(q, r)' = EnPoder(q, r)
    BY <2>0, <2>1, <2>2 DEF EnPoder
  <2>5. \A r : De("corto", r)' = De("corto", r) /\ De("reparto", r)' = De("reparto", r)
    BY <2>0, <2>3 DEF De
  <2> QED
    BY <2>0, <2>4, <2>5, ConservaIgual
<1>7. CASE SacarDeBlockRecurso("corto")
  BY <1>h, <1>7, ConservaSacar
<1> QED
  BY <1>1, <1>2, <1>3, <1>4, <1>5, <1>6, <1>7 DEF Corto

LEMMA ConservaSalida ==
  ASSUME TipoInv, TipoInv', Orden, InstanciasConservadas, NEW p \in Procesos,
         AgregarAExit(p) \/ Finalizar(p)
  PROVE  InstanciasConservadas'
<1>t. Tipos /\ TipoPcb /\ TipoCuentas /\ TipoFin
  BY DEF TipoInv, Tipos
<1>e. {"quita", "mata", "devuelve", "borra", "lee", "evalua", "avisa", "libre"} \subseteq EtapasFin
  BY DEF EtapasFin
<1>p. Devuelto(p)
  BY DEF Orden, Propios, Propio
<1>a. \A r \in Recursos : asignados[p][r] \in Nat /\ vector_recursos[r] \in Nat
  BY <1>t DEF TipoPcb, TipoCuentas
<1>f. fin[p].j \in Nat /\ fin[p].i \in Int
  BY <1>t DEF TipoFin, Recursos
\* What keeps the planner and the other processes out of the account.
<1>o. ASSUME UNCHANGED hilo,
             \A q \in Procesos : q # p => fin'[q] = fin[q] /\ asignados'[q] = asignados[q],
             \A r \in Recursos :
               vector_recursos'[r] + EnPoder(p, r)' = vector_recursos[r] + EnPoder(p, r)
      PROVE  InstanciasConservadas'
  <2>1. \A r : De("corto", r)' = De("corto", r) /\ De("reparto", r)' = De("reparto", r)
    BY <1>o DEF De
  <2>2. \A q \in Procesos, r \in Recursos : q # p => EnPoder(q, r)' = EnPoder(q, r)
    BY <1>o DEF EnPoder
  <2>3. \A r \in Recursos : Balance(p, r)' = Balance(p, r)
    BY <1>o, <2>1 DEF Balance
  <2> QED
    BY <2>2, <2>3, Conserva
<1>1. CASE Finalizar(p) \/ FinMata(p) \/ FinQuita(p)
  <2>1. /\ UNCHANGED <<hilo, asignados, vector_recursos>>
        /\ \/ fin[p].pc \in Antes /\ SigueFin(p, "mata")
           \/ fin[p].pc \in Antes /\ SigueFin(p, "quita")
           \/ fin[p].pc = "quita" /\ SigueFin(p, "devuelve")
    <3>1. ASSUME Finalizar(p) PROVE fin[p].pc = "libre"
      BY <3>1 DEF Finalizar, En, Orden, Propios, Propio, Muerte, Final
    <3> QED
      BY <1>1, <3>1 DEF Finalizar, FinMata, FinQuita, campos, Antes
  <2>2. /\ fin'[p].i = fin[p].i /\ fin'[p].j = fin[p].j
        /\ \A q \in Procesos : q # p => fin'[q] = fin[q]
        /\ \/ fin[p].pc \in Antes /\ fin'[p].pc \in Antes
           \/ fin[p].pc = "quita" /\ fin'[p].pc = "devuelve"
    BY <1>t, <1>e, <2>1, AlSeguirFin DEF Antes
  <2>3. fin[p].pc = "quita" => fin[p].i = 1 /\ fin[p].j = 0
    BY <1>p DEF Devuelto
  <2>4. \A r \in Recursos : EnPoder(p, r)' = EnPoder(p, r)
    BY <1>a, <2>1, <2>2, <2>3 DEF EnPoder, Antes, Recursos
  <2> QED
    BY <1>o, <2>1, <2>2, <2>4
<1>2. CASE FinDevuelve(p)
  <2>1. fin[p].pc = "devuelve" /\ UNCHANGED <<hilo, asignados>>
    BY <1>2 DEF FinDevuelve, campos
  <2>2. \A r \in Recursos : r = fin[p].i => fin[p].j <= asignados[p][r]
    BY <1>p, <2>1 DEF Devuelto
  <2> DEFINE falta(r) == \/ r = fin[p].i /\ fin[p].j < asignados[p][r]
                         \/ r > fin[p].i /\ asignados[p][r] > 0
             faltan   == {r \in Recursos : falta(r)}
  <2>3. CASE faltan = {} /\ SigueFin(p, "borra") /\ UNCHANGED vector_recursos
    <3>1. fin'[p].pc = "borra" /\ \A q \in Procesos : q # p => fin'[q] = fin[q]
      BY <1>t, <1>e, <2>3, AlSeguirFin
    <3>2. \A r \in Recursos : EnPoder(p, r)' = 0
      BY <3>1 DEF EnPoder
    <3>3. \A r \in Recursos : EnPoder(p, r) = 0
      <4> SUFFICES ASSUME NEW r \in Recursos PROVE EnPoder(p, r) = 0
        OBVIOUS
      <4>1. r \notin faltan /\ r \in Int
        BY <2>3 DEF Recursos
      <4> QED
        BY <1>a, <1>f, <2>1, <2>2, <4>1 DEF EnPoder
    <3> QED
      BY <1>o, <2>1, <2>3, <3>1, <3>2, <3>3
  <2>4. ASSUME NEW i \in faltan, \A k \in faltan : i <= k, Suelta(i),
               fin' = [fin EXCEPT ![p].i = i, ![p].j = IF i = fin[p].i THEN @ + 1 ELSE 1]
        PROVE  InstanciasConservadas'
    <3> DEFINE n == IF i = fin[p].i THEN fin[p].j + 1 ELSE 1
    <3>1. i \in Recursos /\ i \in Int /\ n \in Int
      BY <1>f DEF Recursos
    <3>2. /\ fin'[p].pc = "devuelve" /\ fin'[p].i = i /\ fin'[p].j = n
          /\ \A q \in Procesos : q # p => fin'[q] = fin[q]
      BY <1>t, <2>1, <2>4 DEF TipoFin
    <3>3. /\ vector_recursos'[i] = vector_recursos[i] + 1
          /\ \A r \in Recursos : r # i => vector_recursos'[r] = vector_recursos[r]
      BY <1>t, <2>4, <3>1, AlSoltar
    <3>4. ASSUME NEW r \in Recursos
          PROVE  /\ r = i => EnPoder(p, r)' = EnPoder(p, r) - 1
                 /\ r # i => EnPoder(p, r)' = EnPoder(p, r)
      <4>1. r \in Int /\ (r \in faltan => i <= r)
        BY <2>4 DEF Recursos
      <4>2. EnPoder(p, r) = (IF r = fin[p].i THEN asignados[p][r] - fin[p].j
                             ELSE IF r > fin[p].i THEN asignados[p][r] ELSE 0)
        BY <1>f, <2>1, <4>1 DEF EnPoder
      <4>3. EnPoder(p, r)' = (IF r = i THEN asignados[p][r] - n
                              ELSE IF r > i THEN asignados[p][r] ELSE 0)
        BY <2>1, <3>1, <3>2, <4>1 DEF EnPoder
      <4>4. CASE r = i
        <5>1. \/ i = fin[p].i /\ n = fin[p].j + 1
              \/ i > fin[p].i /\ i # fin[p].i /\ n = 1
          BY <1>f, <3>1
        <5> QED
          BY <1>a, <1>f, <4>2, <4>3, <4>4, <5>1
      <4>5. CASE r > i
        <5>1. r > fin[p].i /\ r # fin[p].i /\ r # i
          BY <1>f, <3>1, <4>1, <4>5
        <5> QED
          BY <1>a, <4>2, <4>3, <4>5, <5>1
      <4>6. CASE r < i
        <5>1. r \notin faltan /\ r # i /\ ~ (r > i)
          BY <3>1, <4>1, <4>6
        <5>2. EnPoder(p, r) = 0
          BY <1>a, <1>f, <2>2, <4>1, <4>2, <5>1
        <5>3. EnPoder(p, r)' = 0
          BY <4>3, <5>1
        <5> QED
          BY <5>1, <5>2, <5>3
      <4> QED
        BY <3>1, <4>1, <4>4, <4>5, <4>6
    <3>5. \A r \in Recursos : EnPoder(p, r) \in Int
      BY PoderTipo DEF PoderOK
    <3>6. \A r \in Recursos :
            vector_recursos'[r] + EnPoder(p, r)' = vector_recursos[r] + EnPoder(p, r)
      BY <1>a, <3>3, <3>4, <3>5
    <3> QED
      BY <1>o, <2>1, <3>2, <3>6
  <2> QED
    BY <1>2, <2>3, <2>4 DEF FinDevuelve
<1>3. CASE FinBorra(p)
  <2>1. /\ fin[p].pc = "borra" /\ UNCHANGED <<hilo, vector_recursos>>
        /\ asignados' = [asignados EXCEPT ![p] = SinNada]
        /\ fin' = [fin EXCEPT ![p] =
                     [FinReposo EXCEPT !.pc = IF p \in fin_por_consola THEN "lee" ELSE "libre"]]
    BY <1>3 DEF FinBorra
  <2>2. /\ fin'[p].pc \in {"lee", "libre"} /\ asignados'[p] = SinNada
        /\ \A q \in Procesos : q # p => fin'[q] = fin[q] /\ asignados'[q] = asignados[q]
    BY <1>t, <2>1 DEF TipoFin, TipoPcb, FinReposo
  <2>3. \A r \in Recursos : EnPoder(p, r)' = 0 /\ EnPoder(p, r) = 0
    BY <2>1, <2>2 DEF EnPoder, SinNada
  <2> QED
    BY <1>o, <2>1, <2>2, <2>3
<1>4. CASE FinLee(p) \/ FinEvalua(p) \/ FinAvisa(p)
  <2>1. /\ fin[p].pc \in {"lee", "evalua", "avisa"}
        /\ UNCHANGED <<hilo, asignados, vector_recursos>>
    BY <1>4 DEF FinLee, FinEvalua, FinAvisa, LeeDisponibles, Evalua, campos
  <2>2. /\ fin'[p].pc \in {"evalua", "avisa", "libre"}
        /\ \A q \in Procesos : q # p => fin'[q] = fin[q]
    BY <1>4, <1>t, <1>e, AlSeguirFin DEF FinLee, FinEvalua, FinAvisa
  <2>3. asignados[p] = SinNada
    BY <1>p, <2>1 DEF Devuelto
  <2>4. \A r \in Recursos : EnPoder(p, r)' = 0 /\ EnPoder(p, r) = 0
    BY <2>1, <2>2, <2>3 DEF EnPoder, SinNada
  <2> QED
    BY <1>o, <2>1, <2>2, <2>4
<1> QED
  BY <1>1, <1>2, <1>3, <1>4 DEF AgregarAExit

LEMMA ConservaPaso ==
  TipoInv /\ TipoInv' /\ Ordenado /\ InstanciasConservadas /\ [Next]_vars => InstanciasConservadas'
<1> SUFFICES ASSUME TipoInv, TipoInv', Ordenado, InstanciasConservadas, [Next]_vars
             PROVE  InstanciasConservadas'
  OBVIOUS
<1>1. CASE UNCHANGED vars
  <2>1. UNCHANGED <<vector_recursos, asignados, fin, hilo>>
    BY <1>1 DEF vars, campos
  <2> QED
    BY <2>1, ConservaHilo
<1>2. CASE Next
  <2>1. Orden
    BY <1>2 DEF Next, Ordenado
  <2>2. ASSUME NEW r \in Recursos, RepartoDespierta(r) PROVE InstanciasConservadas'
    <3>1. /\ UNCHANGED <<vector_recursos, asignados, fin>> /\ hilo["reparto"].pc = "libre"
          /\ hilo'["reparto"].pc = "saca" /\ hilo'["corto"] = hilo["corto"]
      BY <2>2 DEF RepartoDespierta, En, campos, TipoInv, Tipos, TipoHilo, Hilos
    <3> QED
      BY <3>1, ConservaHilo DEF Hilos
  <2>3. CASE SacarDeBlockRecurso("reparto")
    BY <2>1, <2>3, ConservaSacar DEF Hilos
  <2>4. CASE Corto
    BY <2>1, <2>4, ConservaCorto
  <2>5. CASE \E p \in Procesos : AgregarAExit(p) \/ Finalizar(p)
    BY <2>1, <2>5, ConservaSalida
  <2> QED
    BY <1>2, <2>2, <2>3, <2>4, <2>5 DEF Next, Reparto
<1> QED
  BY <1>1, <1>2

\* WAIT, SIGNAL, the hand-over and the exit threads move instances between the semaphores, the
\* threads and the processes: none is created and none is lost, with kills and without.
THEOREM ConservaTeorema == Spec => []InstanciasConservadas
BY ConservaInicial, ConservaPaso, TipoSiempre, OrdenadoSiempre, PTL DEF Spec

-----------------------------------------------------------------------------
(* The detector.  filtrar_sin_recursos is a recursive function of the places of the list: it  *)
(* exists, by the minimal counterexample, and never drops a process that holds something.      *)

\* The step of filtrar_sin_recursos at place k, when f says what it did at the places before.
Filtra(f, k) ==
  k > 0 /\ IF total_pcbs[k] \in block_recurso THEN SinAsignados(total_pcbs[k]) /\ ~f[k - 1]
                                               ELSE f[k - 1]
Sacado(f) == f = [k \in 0 .. Len(total_pcbs) |-> Filtra(f, k)]

LEMMA SacadoExiste == TipoColas => \E f : Sacado(f)
<1> SUFFICES ASSUME TipoColas PROVE \E f : Sacado(f)
  OBVIOUS
<1> DEFINE N == Len(total_pcbs)
           Hasta(f, n) == \A k \in 0 .. n : f[k] = Filtra(f, k)
           T == {n \in Nat : ~ \E f : Hasta(f, n)}
<1>1. N \in Nat
  BY DEF TipoColas
<1>2. \A f, h : Filtra(f, 0) = Filtra(h, 0)
  <2>1. ~(0 > 0)
    OBVIOUS
  <2> QED
    BY <2>1 DEF Filtra
<1>3. \E f : Hasta(f, 0)
  <2> DEFINE f == [k \in {0} |-> Filtra(0, k)]
  <2>1. f[0] = Filtra(0, 0)
    OBVIOUS
  <2> HIDE DEF f
  <2>2. f[0] = Filtra(f, 0)
    BY <1>2, <2>1, Zenon
  <2>3. \A k \in 0 .. 0 : k = 0
    OBVIOUS
  <2> QED
    BY <2>2, <2>3
<1>4. ASSUME NEW n \in Nat, NEW f, Hasta(f, n) PROVE \E h : Hasta(h, n + 1)
  <2> DEFINE h == [k \in 0 .. n + 1 |-> Filtra(f, k)]
  <2>1. \A k \in 0 .. n + 1 : h[k] = Filtra(f, k)
    BY Zenon
  <2> HIDE DEF h
  <2>2. ASSUME NEW k \in 0 .. n + 1 PROVE Filtra(f, k) = Filtra(h, k)
    <3>1. CASE k = 0
      BY <1>2, <3>1, Zenon
    <3>2. CASE k # 0
      <4>1. k - 1 \in 0 .. n /\ k - 1 \in 0 .. n + 1
        BY <3>2
      <4>2. h[k - 1] = f[k - 1]
        BY <1>4, <2>1, <4>1, Zenon
      <4> QED
        BY <4>2, Zenon DEF Filtra
    <3> QED
      BY <3>1, <3>2
  <2>3. Hasta(h, n + 1)
    BY <2>1, <2>2, Zenon
  <2> QED
    BY <2>3
<1> HIDE DEF Hasta
<1>5. T = {}
  <2> SUFFICES ASSUME T # {} PROVE FALSE
    OBVIOUS
  <2>1. PICK n \in T : \A k \in T : n <= k
    BY MinimoNat
  <2>2. n # 0
    BY <1>3
  <2>3. n - 1 \in Nat /\ n - 1 \notin T /\ (n - 1) + 1 = n
    BY <2>1, <2>2
  <2> QED
    BY <1>4, <2>3
<1>6. PICK f : Hasta(f, N)
  BY <1>1, <1>5
<1> DEFINE h == [k \in 0 .. N |-> f[k]]
<1>7. \A k \in 0 .. N : h[k] = f[k]
  BY Zenon
<1>8. h = [k \in 0 .. N |-> h[k]]
  BY Zenon
<1> HIDE DEF h
<1>9. ASSUME NEW k \in 0 .. N PROVE h[k] = Filtra(h, k)
  <2>1. f[k] = Filtra(f, k)
    BY <1>6 DEF Hasta
  <2>2. Filtra(f, k) = Filtra(h, k)
    <3>1. CASE k = 0
      BY <1>2, <3>1, Zenon
    <3>2. CASE k # 0
      <4>1. k - 1 \in 0 .. N
        BY <1>1, <3>2
      <4>2. h[k - 1] = f[k - 1]
        BY <1>7, <4>1, Zenon
      <4> QED
        BY <4>2, Zenon DEF Filtra
    <3> QED
      BY <3>1, <3>2
  <2> QED
    BY <1>7, <2>1, <2>2, Zenon
<1>10. h = [k \in 0 .. N |-> Filtra(h, k)]
  BY <1>8, <1>9, Zenon
<1> QED
  BY <1>10 DEF Sacado

\* A blocked process that holds something is not filtered out, wherever it is in the list.
LEMMA FiltradosTiene ==
  ASSUME TipoColas, NEW p \in block_recurso, Vivo(p), ~SinAsignados(p)
  PROVE  p \in Filtrados
<1> DEFINE f == CHOOSE g : Sacado(g)
<1>1. Sacado(f)
  BY SacadoExiste
<1>2. Filtrados = {total_pcbs[k] : k \in {i \in DOMAIN total_pcbs :
                                            total_pcbs[i] \in block_recurso /\ ~f[i]}}
  BY Zenon DEF Filtrados, Sacado, Filtra
<1> HIDE DEF f
<1>3. PICK k \in DOMAIN total_pcbs : total_pcbs[k] = p
  BY DEF Vivo, ToSet
<1>4. k \in 0 .. Len(total_pcbs)
  BY DEF TipoColas
<1>5. f[k] = Filtra(f, k)
  BY <1>1, <1>4, Zenon DEF Sacado
<1>6. ~Filtra(f, k)
  BY <1>3, Zenon DEF Filtra
<1> QED
  BY <1>2, <1>3, <1>5, <1>6, Zenon

-----------------------------------------------------------------------------
(* Until somebody is killed, no deadlock goes unreported. *)

\* Waiters that hold among them all the instances each of them waits for.
Cerrado(s) ==
  \A p \in s :
    EnCola(p) /\ SumFunction([q \in s |-> asignados[q][requerido[p]]]) = Instancias[requerido[p]]

\* agregar_a_block_recurso writes the fields after the queue.
Marcados ==
  /\ \A p \in Procesos :
       EnCola(p) => \/ p \in block_recurso /\ requerido[p] \in pedidos[p]
                    \/ hilo["corto"].pc = "marca" /\ hilo["corto"].pcb = p
  /\ hilo["corto"].pc = "marca" => requerido[hilo["corto"].pcb] = hilo["corto"].rec

\* Who is marked as blocked is with nobody, and is not ending.
Bloqueados ==
  /\ \A p \in block_recurso : /\ p \notin listos /\ fin[p].pc = "libre"
                              /\ hilo["corto"].pc \in ConPcb => hilo["corto"].pcb # p
  /\ hilo["corto"].pc = "marca" => hilo["corto"].pcb \notin listos

\* What the detector has read is still so when it judges: nothing is free that they wait for.
Vacios ==
  hilo["corto"].pc = "evalua" =>
    \A s \in SUBSET Procesos : Cerrado(s) => \A p \in s : recursos_disponibles[requerido[p]] = 0

\* The planner is past its verdict on whoever is in a queue.
Nombrados ==
  hilo["corto"].pc \notin {"marca", "lee", "evalua"} =>
    \A s \in SUBSET Procesos : Cerrado(s) => \A p \in s : SinAsignados(p) \/ p \in deadlock

Detectado   == Marcados /\ Bloqueados /\ Vacios /\ Nombrados
DetectaInv  == fin_por_consola = {} => Detectado

LEMMA DetectaInicial == Init => DetectaInv
<1> SUFFICES ASSUME Init PROVE Detectado
  BY DEF DetectaInv
<1>1. \A p \in Procesos : ~EnCola(p)
  BY DEF Init, EnCola
<1>2. hilo["corto"].pc = "elige"
  BY DEF Init, Hilos, Reposo
<1>3. block_recurso = {}
  BY DEF Init
<1> QED
  BY <1>1, <1>2, <1>3 DEF Detectado, Marcados, Bloqueados, Vacios, Nombrados, Cerrado

LEMMA DetectaImplica == TipoInv /\ DetectaInv => (fin_por_consola = {} => DeadlockReportado)
<1> SUFFICES ASSUME TipoInv, Nombrados, hilo["corto"].pc \in {"elige", "ejecuta", "espera"},
                    NEW p \in Interbloqueados, ~SinAsignados(p)
             PROVE  p \in deadlock
  BY DEF DetectaInv, Detectado, DeadlockReportado
<1>1. PICK s \in SUBSET {q \in ToSet(total_pcbs) : EnCola(q)} :
        /\ p \in s
        /\ \A q \in s : SumFunction([x \in s |-> asignados[x][requerido[q]]])
                          = Instancias[requerido[q]]
  BY DEF Interbloqueados
<1>2. Cerrado(s)
  BY <1>1 DEF Cerrado
<1>3. s \in SUBSET Procesos
  <2>1. ToSet(total_pcbs) \subseteq Procesos
    BY DEF TipoInv, Tipos, TipoColas, ToSet
  <2> QED
    BY <2>1
<1> QED
  BY <1>1, <1>2, <1>3 DEF Nombrados

\* Who is in a queue has begun nothing else, and is in no other hands.
LEMMA EnColaEs ==
  ASSUME TipoInv, Orden, NEW p \in Procesos, EnCola(p)
  PROVE  /\ requerido[p] \in Recursos /\ p \notin listos /\ Vivo(p) /\ fin[p].pc \in Antes
         /\ fin[p].pc # "libre" => p \in fin_por_consola
         /\ ~Llevado(p) /\ \A h \in Hilos : hilo[h].pc \in ConOtro => hilo[h].otro # p
<1>1. requerido[p] \in Recursos
  BY DEF EnCola, TipoInv, Tipos, TipoPcb
<1>2. Encolado(p)
  BY <1>1 DEF EnCola, Encolado
<1>3. p \notin listos /\ Entero(p)
  BY <1>1 DEF EnCola, Orden, EnColas
<1> QED
  BY <1>1, <1>2, <1>3 DEF Orden, EnCorto, EnOtro, EnMedio, Entero

LEMMA PoderNat ==
  ASSUME TipoInv, Orden, NEW q \in Procesos, NEW r \in Recursos
  PROVE  EnPoder(q, r) \in Nat
<1>1. asignados[q][r] \in Nat /\ fin[q].j \in Nat
  BY DEF TipoInv, Tipos, TipoPcb, TipoFin
<1>2. fin[q].pc = "devuelve" /\ r = fin[q].i => fin[q].j <= asignados[q][r]
  BY DEF Orden, Propios, Propio, Devuelto
<1> QED
  BY <1>1, <1>2 DEF EnPoder

\* The processes of a closed set have all there is of what they wait for: nothing is free and
\* nobody else holds any.
LEMMA CerradoTiene ==
  ASSUME TipoInv, Orden, InstanciasConservadas, NEW s \in SUBSET Procesos, Cerrado(s), NEW p \in s
  PROVE  /\ requerido[p] \in Recursos /\ vector_recursos[requerido[p]] = 0
         /\ \A q \in Procesos \ s : EnPoder(q, requerido[p]) = 0
<1> DEFINE r == requerido[p]
           f == [q \in Procesos |-> EnPoder(q, r)]
           h == [q \in s |-> asignados[q][r]]
<1>1. r \in Recursos
  BY EnColaEs DEF Cerrado
<1>2. \A q \in Procesos : f[q] \in Nat
  BY <1>1, PoderNat
<1>3. \A q \in s : h[q] = f[q]
  <2> SUFFICES ASSUME NEW q \in s PROVE asignados[q][r] = EnPoder(q, r)
    OBVIOUS
  <2>1. fin[q].pc \in {"libre", "mata", "quita"}
    BY EnColaEs DEF Cerrado, Antes
  <2> QED
    BY <2>1 DEF EnPoder
<1>4. IsFiniteSet(Procesos)
  BY ConstantesOK, FS_Interval DEF Procesos
<1>5. vector_recursos[r] + SumFunctionOnSet(f, Procesos) + EnCamino(r) = Instancias[r]
  BY <1>1 DEF InstanciasConservadas, SumFunction
<1>6. SumFunctionOnSet(h, s) = Instancias[r]
  BY DEF Cerrado, SumFunction
<1>7. EnCamino(r) \in Nat
  BY <1>1, CaminoSuma DEF CaminoOK, De
<1>8. vector_recursos[r] \in Nat
  BY <1>1 DEF TipoInv, Tipos, TipoCuentas
<1>9. \A q \in Procesos : f[q] = EnPoder(q, r)
  OBVIOUS
<1> DEFINE a == SumFunctionOnSet(f, Procesos)
           b == SumFunctionOnSet(h, s)
<1> HIDE DEF f, h
<1>10. /\ b \in Int /\ a \in Int /\ b <= a
       /\ \A q \in Procesos \ s : b + f[q] <= a
  BY <1>2, <1>3, <1>4, SumaParte
<1> HIDE DEF a, b
<1>11. vector_recursos[r] + a + EnCamino(r) = b
  BY <1>5, <1>6 DEF a, b
<1>12. vector_recursos[r] = 0 /\ a = b
  BY <1>7, <1>8, <1>10, <1>11
<1>13. ASSUME NEW q \in Procesos \ s PROVE EnPoder(q, r) = 0
  BY <1>2, <1>9, <1>10, <1>12
<1> QED
  BY <1>1, <1>12, <1>13

\* The verdict: nobody in a closed set finds what it waits for among what the others return.
LEMMA Veredicto ==
  ASSUME TipoInv, Orden, InstanciasConservadas, Detectado, hilo["corto"].pc = "evalua",
         NEW s \in SUBSET Procesos, Cerrado(s), NEW p \in s, ~SinAsignados(p)
  PROVE  p \in Resto
<1> DEFINE u == s \cap Filtrados
<1>1. Filtrados \subseteq block_recurso /\ Filtrados \subseteq Procesos
  BY DEF Filtrados, TipoInv, Tipos, TipoColas
<1>2. \A x \in s : x \in block_recurso /\ requerido[x] \in pedidos[x] /\ Vivo(x)
  BY EnColaEs DEF Detectado, Marcados, Cerrado
<1>3. p \in u
  BY <1>2, FiltradosTiene DEF TipoInv, Tipos
<1>4. ASSUME NEW x \in u PROVE ~PuedeFinalizar(x, Filtrados \ u)
  <2> DEFINE r == requerido[x]
             t == Filtrados \ u
             g == [q \in t |-> asignados[q][r]]
  <2>1. r \in Recursos /\ \A q \in Procesos \ s : EnPoder(q, r) = 0
    BY CerradoTiene
  <2>2. recursos_disponibles[r] = 0
    BY DEF Detectado, Vacios
  <2>3. \A q \in t : asignados[q][r] = 0
    <3> SUFFICES ASSUME NEW q \in t PROVE asignados[q][r] = 0
      OBVIOUS
    <3>1. q \in Procesos \ s /\ q \in block_recurso
      BY <1>1
    <3>2. fin[q].pc = "libre"
      BY <3>1 DEF Detectado, Bloqueados
    <3> QED
      BY <2>1, <3>1, <3>2 DEF EnPoder
  <2>4. IsFiniteSet(t)
    <3>1. IsFiniteSet(Procesos)
      BY ConstantesOK, FS_Interval DEF Procesos
    <3> QED
      BY <1>1, <3>1, FS_Subset
  <2>5. SumFunction(g) = SumFunctionOnSet(g, t)
    BY DEF SumFunction
  <2>6. \A q \in t : g[q] = 0
    BY <2>3
  <2> HIDE DEF g
  <2>7. SumFunction(g) = 0
    <3> HIDE DEF t
    <3> QED
      BY <2>4, <2>5, <2>6, SumaTipo
  <2>8. Disponible(r, t) = 0
    BY <2>2, <2>7 DEF Disponible, g
  <2>9. r \in pedidos[x]
    BY <1>2
  <2> QED
    BY <2>8, <2>9 DEF PuedeFinalizar
<1> QED
  BY <1>3, <1>4 DEF Resto

-----------------------------------------------------------------------------
(* Steps that put nobody into a queue *)

Queda(p) ==
  EnCola(p)' =>
    /\ EnCola(p) /\ asignados'[p] = asignados[p] /\ requerido'[p] = requerido[p]
    /\ pedidos[p] \subseteq pedidos'[p] /\ (p \in block_recurso => p \in block_recurso')

LEMMA CerradoQueda ==
  ASSUME \A p \in Procesos : Queda(p), NEW s \in SUBSET Procesos, Cerrado(s)'
  PROVE  /\ Cerrado(s)
         /\ \A p \in s : requerido'[p] = requerido[p] /\ SinAsignados(p)' = SinAsignados(p)
<1>1. \A p \in s : EnCola(p)'
  BY DEF Cerrado
<1>2. \A p \in s : EnCola(p) /\ asignados'[p] = asignados[p] /\ requerido'[p] = requerido[p]
  BY <1>1 DEF Queda
<1>3. ASSUME NEW p \in s
      PROVE  SumFunction([q \in s |-> asignados[q][requerido[p]]]) = Instancias[requerido[p]]
  <2>1. SumFunction([q \in s |-> asignados'[q][requerido'[p]]]) = Instancias[requerido'[p]]
    BY DEF Cerrado
  <2>2. [q \in s |-> asignados'[q][requerido'[p]]] = [q \in s |-> asignados[q][requerido[p]]]
    BY <1>2
  <2> QED
    BY <1>2, <2>1, <2>2
<1>4. \A p \in s : SinAsignados(p)' = SinAsignados(p)
  BY <1>2 DEF SinAsignados
<1> QED
  BY <1>2, <1>3, <1>4 DEF Cerrado

LEMMA MarcadosQueda ==
  ASSUME \A p \in Procesos : Queda(p), Marcados,
         hilo'["corto"].pc = "marca" => hilo["corto"].pc = "marca",
         hilo["corto"].pc = "marca" =>
           /\ hilo'["corto"] = hilo["corto"]
           /\ requerido'[hilo["corto"].pcb] = requerido[hilo["corto"].pcb]
  PROVE  Marcados'
BY DEF Marcados, Queda

LEMMA VaciosQueda ==
  ASSUME \A p \in Procesos : Queda(p), Vacios,
         hilo'["corto"].pc = "evalua" =>
           hilo["corto"].pc = "evalua" /\ UNCHANGED recursos_disponibles
  PROVE  Vacios'
<1> SUFFICES ASSUME hilo'["corto"].pc = "evalua", NEW s \in SUBSET Procesos, Cerrado(s)',
                    NEW p \in s
             PROVE  recursos_disponibles'[requerido'[p]] = 0
  BY DEF Vacios
<1>1. Cerrado(s) /\ requerido'[p] = requerido[p]
  BY CerradoQueda
<1> QED
  BY <1>1 DEF Vacios

LEMMA NombradosQueda ==
  ASSUME \A p \in Procesos : Queda(p), Nombrados,
         hilo'["corto"].pc \notin {"marca", "lee", "evalua"} =>
           hilo["corto"].pc \notin {"marca", "lee", "evalua"} /\ UNCHANGED deadlock
  PROVE  Nombrados'
<1> SUFFICES ASSUME hilo'["corto"].pc \notin {"marca", "lee", "evalua"},
                    NEW s \in SUBSET Procesos, Cerrado(s)', NEW p \in s
             PROVE  SinAsignados(p)' \/ p \in deadlock'
  BY DEF Nombrados
<1>1. Cerrado(s) /\ SinAsignados(p)' = SinAsignados(p)
  BY CerradoQueda
<1> QED
  BY <1>1 DEF Nombrados

\* A step of the planner away from the detector.
LEMMA DetectadoQueda ==
  ASSUME \A p \in Procesos : Queda(p), Detectado, Bloqueados', UNCHANGED detector,
         hilo["corto"].pc \notin {"marca", "lee", "evalua"},
         hilo'["corto"].pc \notin {"marca", "lee", "evalua"}
  PROVE  Detectado'
BY MarcadosQueda, VaciosQueda, NombradosQueda DEF Detectado, detector

\* Steps that leave the queues and the fields alone.
LEMMA QuedaIgual ==
  ASSUME UNCHANGED <<colas_recursos, campos>>
  PROVE  \A p \in Procesos : Queda(p)
BY DEF campos, Queda, EnCola

LEMMA DetectaCorto ==
  ASSUME TipoInv, Orden, InstanciasConservadas, Quietos, Despierto, Detectado, Corto
  PROVE  Detectado'
<1> USE DEF TipoInv, Tipos
<1>h. "corto" \in Hilos /\ "reparto" \in Hilos /\ Hilos = {"corto", "reparto"}
  BY DEF Hilos
<1> DEFINE c == hilo["corto"]
<1>t. \A p \in Procesos : requerido[p] \in Recursos \cup {Ninguno}
  BY DEF TipoPcb
<1>b. Bloqueados /\ Marcados /\ Vacios /\ Nombrados
  BY DEF Detectado
<1>1. ASSUME NEW p \in Procesos, CortoElige(p) PROVE Detectado'
  <2>1. c.pc = "elige" /\ hilo'["corto"].pc = "ejecuta" /\ hilo'["corto"].pcb = p
    BY <1>1, <1>h DEF CortoElige, TipoHilo, En
  <2>2. UNCHANGED <<colas_recursos, campos, detector, fin, block_recurso>>
    BY <1>1 DEF CortoElige, campos
  <2>3. Bloqueados'
    BY <1>1, <1>b, <2>1, <2>2 DEF CortoElige, Bloqueados
  <2> QED
    BY <2>1, <2>2, <2>3, QuedaIgual, DetectadoQueda
<1>2. ASSUME NEW r \in Recursos, CortoWait(r) PROVE Detectado'
  <2>1. /\ c.pc = "ejecuta" /\ hilo'["corto"].pc \in {"toma_wait", "encola"}
        /\ hilo'["corto"].pcb = c.pcb
    BY <1>2, <1>h DEF CortoWait, TipoHilo, En
  <2>2. UNCHANGED <<colas_recursos, campos, detector, fin, block_recurso, listos>>
    BY <1>2 DEF CortoWait, campos
  <2>3. Bloqueados'
    BY <1>b, <2>1, <2>2 DEF Bloqueados, ConPcb
  <2> QED
    BY <2>1, <2>2, <2>3, QuedaIgual, DetectadoQueda
\* WAIT and SIGNAL change what the process they serve holds, which is in no queue.
<1>s. ASSUME c.pc \in {"toma_wait", "ejecuta"},
             \A q \in Procesos : q # c.pcb => asignados'[q] = asignados[q],
             UNCHANGED <<colas_recursos, pedidos, requerido, block_recurso, detector, fin, listos>>,
             hilo'["corto"].pcb = c.pcb,
             hilo'["corto"].pc \in {"toma_wait", "ejecuta", "saca"}
      PROVE  Detectado'
  <2>1. Llevado(c.pcb)
    BY <1>s DEF Llevado, ConPcb
  <2>2. ASSUME NEW p \in Procesos PROVE Queda(p)
    <3>1. EnCola(p)' = EnCola(p)
      BY <1>s DEF EnCola
    <3>2. EnCola(p) => p # c.pcb
      BY <2>1, EnColaEs
    <3> QED
      BY <1>s, <3>1, <3>2 DEF Queda
  <2>3. Bloqueados'
    BY <1>b, <1>s DEF Bloqueados, ConPcb
  <2> QED
    BY <1>s, <2>2, <2>3, DetectadoQueda
<1>3. CASE CortoToma
  <2> DEFINE r == c.rec
  <2>1. r \in Recursos /\ vector_recursos[r] > 0 /\ c.pc = "toma_wait" /\ c.pcb \in Procesos
    BY <1>3, <1>h DEF CortoToma, En, Manos, ConRec, ConPcb, Despierto
  <2>2. Vuelve("corto") /\ asignados' = [asignados EXCEPT ![c.pcb][r] = asignados[c.pcb][r] + 1]
    BY <1>3, <2>1 DEF CortoToma, Rec, Pcb
  <2>3. hilo'["corto"].pc = "ejecuta" /\ hilo'["corto"].pcb = c.pcb
    BY <1>h, <2>2, AlVolver
  <2>4. \A q \in Procesos : q # c.pcb => asignados'[q] = asignados[q]
    BY <2>2 DEF TipoPcb
  <2>5. UNCHANGED <<colas_recursos, pedidos, requerido, block_recurso, detector, fin, listos>>
    BY <1>3 DEF CortoToma
  <2> QED
    BY <1>s, <2>1, <2>3, <2>4, <2>5
<1>4. ASSUME NEW r \in Recursos, CortoSignal(r) PROVE Detectado'
  <2>1. c.pc = "ejecuta" /\ asignados' = [asignados EXCEPT ![c.pcb][r] = asignados[c.pcb][r] - 1]
    BY <1>4 DEF CortoSignal, En, Pcb
  <2>2. hilo'["corto"].pc \in {"ejecuta", "saca"} /\ hilo'["corto"].pcb = c.pcb
    BY <1>4, <1>h, <2>1 DEF CortoSignal, TipoHilo
  <2>3. \A q \in Procesos : q # c.pcb => asignados'[q] = asignados[q]
    BY <2>1 DEF TipoPcb
  <2>4. UNCHANGED <<colas_recursos, pedidos, requerido, block_recurso, detector, fin, listos>>
    BY <1>4 DEF CortoSignal
  <2> QED
    BY <1>s, <2>1, <2>2, <2>3, <2>4
<1>5. CASE CortoEncola
  <2> DEFINE r == c.rec
             p == c.pcb
  <2>1. r \in Recursos /\ p \in Procesos /\ c.pc = "encola"
    BY <1>5, <1>h DEF CortoEncola, En, Manos, ConRec, ConPcb
  <2>2. hilo'["corto"].pc = "marca" /\ hilo'["corto"].pcb = p
    BY <1>5, <1>h, AlSeguir DEF CortoEncola, Etapas
  <2>3. p \notin listos
    BY <2>1 DEF Orden, EnCorto, Llevado, ConPcb
  <2>4. UNCHANGED <<listos, asignados, pedidos, block_recurso, detector, fin>>
    BY <1>5 DEF CortoEncola
  <2>5. /\ colas_recursos' = [colas_recursos EXCEPT ![r] = Append(colas_recursos[r], p)]
        /\ requerido' = [requerido EXCEPT ![p] = r]
    BY <1>5 DEF CortoEncola, Rec, Pcb
  <2>6. Bloqueados'
    BY <1>b, <2>1, <2>2, <2>3, <2>4 DEF Bloqueados, ConPcb
  <2>7. ASSUME NEW q \in Procesos, q # p, EnCola(q)'
        PROVE  q \in block_recurso /\ requerido'[q] \in pedidos[q]
    <3>1. requerido'[q] = requerido[q]
      BY <2>5, <2>7 DEF TipoPcb
    <3>2. requerido[q] \in Recursos /\ q \in ToSet(colas_recursos'[requerido[q]])
      BY <1>t, <2>7, <3>1 DEF EnCola
    <3>3. q \in ToSet(colas_recursos[requerido[q]])
      <4>1. CASE requerido[q] = r
        <5>1. colas_recursos[r] \in Seq(Procesos)
          BY <2>1 DEF TipoColas
        <5>2. colas_recursos'[r] = Append(colas_recursos[r], p)
          BY <2>1, <2>5 DEF TipoColas
        <5>3. ToSet(Append(colas_recursos[r], p)) = ToSet(colas_recursos[r]) \cup {p}
          BY <2>1, <5>1, EnAgregado
        <5> QED
          BY <2>7, <3>2, <4>1, <5>2, <5>3
      <4>2. CASE requerido[q] # r
        BY <2>5, <3>2, <4>2 DEF TipoColas
      <4> QED
        BY <4>1, <4>2
    <3>4. EnCola(q)
      BY <3>2, <3>3, ConstantesOK DEF EnCola, Recursos, Ninguno
    <3> QED
      BY <1>b, <2>1, <3>1, <3>4 DEF Marcados
  <2>8. Marcados'
    <3>1. requerido'[p] = r /\ hilo'["corto"].rec = r
      BY <1>5, <1>h, <2>1, <2>5, AlSeguir DEF CortoEncola, TipoPcb, Etapas
    <3> QED
      BY <2>2, <2>4, <2>7, <3>1 DEF Marcados
  <2> QED
    BY <2>2, <2>6, <2>8 DEF Detectado, Vacios, Nombrados
<1>6. CASE CortoMarca
  <2> DEFINE r == c.rec
             p == c.pcb
  <2>1. r \in Recursos /\ p \in Procesos /\ c.pc = "marca"
    BY <1>6, <1>h DEF CortoMarca, En, Manos, ConRec, ConPcb
  <2>2. hilo'["corto"].pc = "lee"
    BY <1>6, <1>h DEF CortoMarca, TipoHilo, Reposo
  <2>3. /\ pedidos' = [pedidos EXCEPT ![p] = pedidos[p] \cup {r}]
        /\ block_recurso' = block_recurso \cup {p}
        /\ UNCHANGED <<listos, colas_recursos, requerido, fin>>
    BY <1>6 DEF CortoMarca, Rec, Pcb
  <2>4. fin[p].pc = "libre" /\ p \notin listos
    BY <1>b, <2>1 DEF Orden, EnCorto, ConPcb, Bloqueados
  <2>5. Bloqueados'
    BY <1>b, <2>2, <2>3, <2>4 DEF Bloqueados, ConPcb
  <2>6. Marcados'
    <3>1. requerido[p] = r /\ r \in pedidos'[p] /\ p \in block_recurso'
      BY <1>b, <2>1, <2>3 DEF Marcados, TipoPcb
    <3>2. ASSUME NEW q \in Procesos, q # p, EnCola(q)'
          PROVE  q \in block_recurso' /\ requerido'[q] \in pedidos'[q]
      <4>1. EnCola(q)
        BY <2>3, <3>2 DEF EnCola
      <4> QED
        BY <1>b, <2>1, <2>3, <3>2, <4>1 DEF Marcados, TipoPcb
    <3> QED
      BY <2>2, <2>3, <3>1, <3>2 DEF Marcados
  <2> QED
    BY <2>2, <2>5, <2>6 DEF Detectado, Vacios, Nombrados

<1>7. CASE CortoLee
  <2>1. c.pc = "lee" /\ hilo'["corto"].pc = "evalua"
    BY <1>7, <1>h, AlSeguir DEF CortoLee, En, Etapas
  <2>2. /\ UNCHANGED <<colas_recursos, campos, fin, block_recurso, listos>>
        /\ recursos_disponibles' = vector_recursos
    BY <1>7 DEF CortoLee, LeeDisponibles, campos
  <2>3. \A p \in Procesos : Queda(p)
    BY <2>2, QuedaIgual
  <2>4. Bloqueados'
    BY <1>b, <2>1, <2>2 DEF Bloqueados, ConPcb
  <2>5. Vacios'
    <3> SUFFICES ASSUME NEW s \in SUBSET Procesos, Cerrado(s)', NEW p \in s
                 PROVE  recursos_disponibles'[requerido'[p]] = 0
      BY DEF Vacios
    <3>1. Cerrado(s) /\ requerido'[p] = requerido[p]
      BY <2>3, CerradoQueda
    <3>2. vector_recursos[requerido[p]] = 0
      BY <3>1, CerradoTiene
    <3> QED
      BY <2>2, <3>1, <3>2
  <2>6. Marcados'
    BY <1>b, <2>1, <2>3, MarcadosQueda
  <2> QED
    BY <2>1, <2>4, <2>5, <2>6 DEF Detectado, Nombrados
<1>8. CASE CortoEvalua
  <2>1. c.pc = "evalua" /\ hilo'["corto"].pc = "espera"
    BY <1>8, <1>h, AlSeguir DEF CortoEvalua, En, Etapas
  <2>2. UNCHANGED <<colas_recursos, campos, fin, block_recurso, listos>> /\ deadlock' = Resto
    BY <1>8 DEF CortoEvalua, Evalua, campos
  <2>3. \A p \in Procesos : Queda(p)
    BY <2>2, QuedaIgual
  <2>4. Bloqueados'
    BY <1>b, <2>1, <2>2 DEF Bloqueados, ConPcb
  <2>5. Nombrados'
    <3> SUFFICES ASSUME NEW s \in SUBSET Procesos, Cerrado(s)', NEW p \in s, ~SinAsignados(p)'
                 PROVE  p \in deadlock'
      BY DEF Nombrados
    <3>1. Cerrado(s) /\ ~SinAsignados(p)
      BY <2>3, CerradoQueda
    <3>2. p \in Resto
      BY <2>1, <3>1, Veredicto
    <3> QED
      BY <2>2, <3>2
  <2>6. Marcados'
    BY <1>b, <2>1, <2>3, MarcadosQueda
  <2> QED
    BY <2>1, <2>4, <2>5, <2>6 DEF Detectado, Vacios
<1>9. CASE CortoContinua
  <2>1. c.pc = "espera" /\ hilo'["corto"].pc = "elige"
    BY <1>9, AlReposar DEF CortoContinua, En
  <2>2. UNCHANGED <<colas_recursos, campos, detector, fin, block_recurso, listos>>
    BY <1>9 DEF CortoContinua, campos
  <2>3. Bloqueados'
    BY <1>b, <2>1, <2>2 DEF Bloqueados, ConPcb
  <2> QED
    BY <2>1, <2>2, <2>3, QuedaIgual, DetectadoQueda
<1>10. CASE CortoFinaliza
  <2>1. c.pc = "ejecuta" /\ c.pcb \in Procesos /\ hilo'["corto"].pc = "elige"
    BY <1>10, <1>h, AlReposar DEF CortoFinaliza, En, Manos, ConPcb
  <2>2. UNCHANGED <<colas_recursos, campos, detector, block_recurso, listos>>
    BY <1>10 DEF CortoFinaliza, campos
  <2>3. \A q \in Procesos : q # c.pcb => fin'[q] = fin[q]
    BY <1>10, <2>1, AlSeguirFin DEF CortoFinaliza, Pcb, EtapasFin
  <2>4. Bloqueados'
    BY <1>b, <2>1, <2>2, <2>3 DEF Bloqueados, ConPcb, TipoPcb
  <2> QED
    BY <2>1, <2>2, <2>4, QuedaIgual, DetectadoQueda
<1>11. CASE CortoDesaloja
  <2>1. c.pc = "ejecuta" /\ hilo'["corto"].pc = "elige"
    BY <1>11, AlReposar DEF CortoDesaloja, En
  <2>2. /\ UNCHANGED <<colas_recursos, campos, detector, block_recurso, fin>>
        /\ listos' \subseteq listos \cup {c.pcb}
    BY <1>11 DEF CortoDesaloja, campos, Pcb
  <2>3. Bloqueados'
    BY <1>b, <2>1, <2>2 DEF Bloqueados, ConPcb
  <2> QED
    BY <2>1, <2>2, <2>3, QuedaIgual, DetectadoQueda
<1>12. CASE Saca("corto")
  <2> DEFINE r == c.rec
  <2>1. r \in Recursos /\ c.pc = "saca" /\ colas_recursos[r] \in Seq(Procesos)
    BY <1>12, <1>h DEF Saca, En, Manos, ConRec, TipoColas
  <2>2. UNCHANGED <<campos, detector, fin, block_recurso, listos>>
    BY <1>12 DEF Saca, campos
  <2>3. /\ hilo'["corto"].pc \in {"ejecuta", "toma"} /\ hilo'["corto"].pcb = c.pcb
        /\ \A t \in Recursos : ToSet(colas_recursos'[t]) \subseteq ToSet(colas_recursos[t])
    <3>1. CASE colas_recursos[r] = <<>>
      <4>1. Vuelve("corto") /\ UNCHANGED colas_recursos
        BY <1>12, <3>1 DEF Saca, Rec
      <4> QED
        BY <1>h, <4>1, AlVolver
    <3>2. CASE colas_recursos[r] # <<>>
      <4>1. /\ colas_recursos' = [colas_recursos EXCEPT ![r] = Front(colas_recursos[r])]
            /\ hilo'["corto"].pc = "toma" /\ hilo'["corto"].pcb = c.pcb
        BY <1>12, <1>h, <3>2 DEF Saca, Rec, TipoHilo
      <4>2. ToSet(Front(colas_recursos[r])) \subseteq ToSet(colas_recursos[r])
        BY <2>1, <3>2, AlSacarUltimo
      <4> QED
        BY <4>1, <4>2 DEF TipoColas
    <3> QED
      BY <3>1, <3>2
  <2>4. ASSUME NEW p \in Procesos PROVE Queda(p)
    BY <1>t, <2>2, <2>3 DEF Queda, EnCola, campos
  <2>5. Bloqueados'
    BY <1>b, <2>1, <2>2, <2>3 DEF Bloqueados, ConPcb
  <2> QED
    BY <2>1, <2>2, <2>3, <2>4, <2>5, DetectadoQueda
<1>13. CASE TomaInstancia("corto")
  <2>1. c.pc = "toma" /\ c.rec \in Recursos /\ vector_recursos[c.rec] > 0
    BY <1>13, <1>h DEF TomaInstancia, En, Manos, ConRec, ConOtro, Despierto
  <2>2. hilo'["corto"].pc = "entrega" /\ hilo'["corto"].pcb = c.pcb
    BY <1>13, <1>h, <2>1, AlSeguir DEF TomaInstancia, Rec, Etapas
  <2>3. UNCHANGED <<colas_recursos, campos, detector, fin, block_recurso, listos>>
    BY <1>13 DEF TomaInstancia, campos
  <2>4. Bloqueados'
    BY <1>b, <2>1, <2>2, <2>3 DEF Bloqueados, ConPcb
  <2> QED
    BY <2>1, <2>2, <2>3, <2>4, QuedaIgual, DetectadoQueda
<1>14. CASE Entrega("corto")
  <2> DEFINE o == c.otro
  <2>1. c.pc = "entrega" /\ o \in Procesos
    BY <1>14, <1>h DEF Entrega, En, Manos, ConOtro
  <2>2. hilo'["corto"].pc = "ejecuta" /\ hilo'["corto"].pcb = c.pcb
    BY <1>14, <1>h, AlVolver DEF Entrega
  <2>3. /\ asignados' = [asignados EXCEPT ![o][c.rec] = @ + 1]
        /\ block_recurso' = block_recurso \ {o} /\ listos' = listos \cup {o}
        /\ UNCHANGED <<colas_recursos, pedidos, requerido, detector, fin>>
    BY <1>14 DEF Entrega, Rec
  <2>4. ASSUME NEW p \in Procesos PROVE Queda(p)
    <3>1. EnCola(p)' = EnCola(p)
      BY <2>3 DEF EnCola
    <3>2. EnCola(p) => p # o
      BY <1>h, <2>1, EnColaEs DEF ConOtro
    <3> QED
      BY <2>3, <3>1, <3>2 DEF Queda, TipoPcb
  <2>5. Bloqueados'
    BY <1>b, <2>1, <2>2, <2>3 DEF Bloqueados, ConPcb
  <2> QED
    BY <2>1, <2>2, <2>3, <2>4, <2>5, DetectadoQueda
<1> QED
  BY <1>1, <1>2, <1>3, <1>4, <1>5, <1>6, <1>7, <1>8, <1>9, <1>10, <1>11, <1>12, <1>13, <1>14
  DEF Corto, SacarDeBlockRecurso

\* The exit threads, before anybody is killed.
LEMMA DetectaSalida ==
  ASSUME TipoInv, Orden, Quietos, Detectado, fin_por_consola = {}, NEW p \in Procesos,
         AgregarAExit(p)
  PROVE  Detectado'
<1> USE DEF TipoInv, Tipos
<1>b. Bloqueados /\ Marcados /\ Vacios /\ Nombrados
  BY DEF Detectado
\* They take nobody that is in a queue or blocked.
<1>s. ASSUME fin[p].pc # "libre", UNCHANGED <<hilo, detector>>, listos' \subseteq listos,
             \A q \in Procesos : q # p => fin'[q] = fin[q],
             block_recurso' \subseteq block_recurso,
             \A q \in Procesos : q # p =>
               /\ asignados'[q] = asignados[q] /\ requerido'[q] = requerido[q]
               /\ pedidos'[q] = pedidos[q] /\ (q \in block_recurso => q \in block_recurso'),
             ~EnCola(p)',
             \A t \in Recursos : ToSet(colas_recursos'[t]) \subseteq ToSet(colas_recursos[t])
      PROVE  Detectado'
  <2>1. ASSUME NEW q \in Procesos PROVE Queda(q)
    <3>1. q # p /\ EnCola(q)' => requerido[q] \in Recursos /\ EnCola(q)
      BY <1>s DEF EnCola, TipoPcb
    <3> QED
      BY <1>s, <3>1 DEF Queda
  <2>2. Bloqueados'
    BY <1>b, <1>s DEF Bloqueados, TipoPcb
  <2>3. hilo["corto"].pc = "marca" => hilo["corto"].pcb \in Procesos /\ hilo["corto"].pcb # p
    BY <1>s DEF Manos, ConPcb, Orden, EnCorto
  <2>4. Marcados'
    BY <1>b, <1>s, <2>1, <2>3, MarcadosQueda
  <2>5. Vacios' /\ Nombrados'
    BY <1>b, <1>s, <2>1, VaciosQueda, NombradosQueda DEF detector
  <2> QED
    BY <2>2, <2>4, <2>5 DEF Detectado
<1>1. CASE FinMata(p) \/ FinLee(p) \/ FinEvalua(p) \/ FinAvisa(p)
  BY <1>1 DEF Quietos, FinMata, FinLee, FinEvalua, FinAvisa
\* Nobody in a queue ends by itself: there is nothing to take out.
<1>2. CASE FinQuita(p)
  <2>1. fin[p].pc = "quita" /\ SigueFin(p, "devuelve")
    BY <1>2 DEF FinQuita
  <2>2. UNCHANGED <<listos, campos, detector, hilo, block_recurso>>
    BY <1>2 DEF FinQuita, campos
  <2>3. \A q \in Procesos : q # p => fin'[q] = fin[q]
    BY <2>1, AlSeguirFin DEF EtapasFin
  <2>4. \A t \in Recursos : ToSet(colas_recursos'[t]) \subseteq ToSet(colas_recursos[t])
    <3>1. ASSUME NEW t \in Recursos
          PROVE  ToSet(RemoveFirst(colas_recursos[t], p)) \subseteq ToSet(colas_recursos[t])
      BY AlQuitarPrimero DEF TipoColas
    <3>2. \/ UNCHANGED colas_recursos
          \/ /\ requerido[p] \in Recursos
             /\ colas_recursos' = [colas_recursos EXCEPT ![requerido[p]] =
                                     RemoveFirst(colas_recursos[requerido[p]], p)]
      BY <1>2 DEF FinQuita, TipoPcb
    <3> QED
      BY <3>1, <3>2 DEF TipoColas
  <2>5. ~EnCola(p)
    BY <2>1, EnColaEs
  <2>6. ~EnCola(p)'
    BY <2>2, <2>4, <2>5 DEF EnCola, TipoPcb, campos
  <2> QED
    BY <1>s, <2>1, <2>2, <2>3, <2>4, <2>6 DEF campos
<1>3. CASE FinDevuelve(p)
  <2>1. fin[p].pc = "devuelve"
    BY <1>3 DEF FinDevuelve
  <2>2. UNCHANGED <<listos, colas_recursos, campos, detector, hilo, block_recurso>>
    BY <1>3 DEF FinDevuelve, campos
  <2>3. \A q \in Procesos : q # p => fin'[q] = fin[q]
    BY <1>3 DEF FinDevuelve, SigueFin, TipoFin
  <2>4. ~EnCola(p)'
    <3>1. ~EnCola(p)
      BY <2>1, EnColaEs DEF Antes
    <3> QED
      BY <2>2, <3>1 DEF EnCola, campos
  <2> QED
    BY <1>s, <2>1, <2>2, <2>3, <2>4 DEF campos
<1>4. CASE FinBorra(p)
  <2>1. fin[p].pc = "borra"
    BY <1>4 DEF FinBorra
  <2>2. /\ UNCHANGED <<listos, colas_recursos, detector, hilo>>
        /\ asignados' = [asignados EXCEPT ![p] = SinNada]
        /\ pedidos' = [pedidos EXCEPT ![p] = {}]
        /\ requerido' = [requerido EXCEPT ![p] = Ninguno]
        /\ block_recurso' = block_recurso \ {p}
    BY <1>4 DEF FinBorra
  <2>3. \A q \in Procesos : q # p => fin'[q] = fin[q]
    BY <1>4 DEF FinBorra, TipoFin
  <2>4. ~EnCola(p)'
    BY <2>2 DEF EnCola, TipoPcb
  <2>5. \A q \in Procesos : q # p =>
          /\ asignados'[q] = asignados[q] /\ requerido'[q] = requerido[q]
          /\ pedidos'[q] = pedidos[q] /\ (q \in block_recurso => q \in block_recurso')
    BY <2>2 DEF TipoPcb
  <2> QED
    BY <1>s, <2>1, <2>2, <2>3, <2>4, <2>5
<1> QED
  BY <1>1, <1>2, <1>3, <1>4 DEF AgregarAExit

LEMMA DetectaPaso ==
  TipoInv /\ SinMuertes /\ Ordenado /\ InstanciasConservadas /\ DetectaInv /\ [Next]_vars
    => DetectaInv'
<1> SUFFICES ASSUME TipoInv, SinMuertes, Ordenado, InstanciasConservadas, DetectaInv,
                    [Next]_vars, fin_por_consola' = {}
             PROVE  Detectado'
  BY DEF DetectaInv
<1>1. CASE UNCHANGED vars
  <2>1. UNCHANGED <<colas_recursos, campos, detector, hilo, fin, listos, fin_por_consola>>
    BY <1>1 DEF vars
  <2>2. Detectado
    BY <2>1 DEF DetectaInv
  <2>3. \A p \in Procesos : Queda(p)
    BY <2>1, QuedaIgual
  <2>4. Bloqueados'
    BY <2>1, <2>2 DEF Detectado, Bloqueados, campos
  <2>5. Marcados'
    BY <2>1, <2>2, <2>3, MarcadosQueda DEF Detectado, campos
  <2>6. Vacios' /\ Nombrados'
    BY <2>1, <2>2, <2>3, VaciosQueda, NombradosQueda DEF Detectado, detector
  <2> QED
    BY <2>4, <2>5, <2>6 DEF Detectado
<1>2. CASE Next
  <2>1. Orden
    BY <1>2 DEF Next, Ordenado
  <2>2. CASE Corto
    <3>1. UNCHANGED fin_por_consola
      BY <2>2
      DEF Corto, CortoElige, CortoWait, CortoToma, CortoEncola, CortoMarca, CortoLee, CortoEvalua,
          CortoContinua, CortoSignal, CortoFinaliza, CortoDesaloja, SacarDeBlockRecurso, Saca,
          TomaInstancia, Entrega, LeeDisponibles, Evalua
    <3> QED
      BY <2>1, <2>2, <3>1, DetectaCorto DEF SinMuertes, DetectaInv
  <2>3. CASE Reparto
    <3>1. UNCHANGED fin_por_consola
      BY <2>3 DEF Reparto, RepartoDespierta, SacarDeBlockRecurso, Saca, TomaInstancia, Entrega
    <3>2. Quietos
      BY <3>1 DEF SinMuertes
    <3> QED
      BY <2>3, <3>2
      DEF Quietos, Reparto, RepartoDespierta, SacarDeBlockRecurso, Saca, TomaInstancia, Entrega, En
  <2>4. ASSUME NEW p \in Procesos, AgregarAExit(p) PROVE Detectado'
    <3>1. UNCHANGED fin_por_consola
      BY <2>4
      DEF AgregarAExit, FinMata, FinQuita, FinDevuelve, FinBorra, FinLee, FinEvalua, FinAvisa,
          LeeDisponibles, Evalua
    <3> QED
      BY <2>1, <2>4, <3>1, DetectaSalida DEF SinMuertes, DetectaInv
  <2>5. ASSUME NEW p \in Procesos, Finalizar(p) PROVE FALSE
    BY <2>5 DEF Finalizar
  <2> QED
    BY <1>2, <2>2, <2>3, <2>4, <2>5 DEF Next
<1> QED
  BY <1>1, <1>2

\* Until the operator kills somebody, every process that holds something and waits in a real
\* deadlock is in the report the planner goes by, for any number of processes, resources and
\* instances: the detector's one pass, with its filter that skips a place after a removal and a
\* vector read before the verdict, misses none.
THEOREM DeadlockTeorema == Spec => [](fin_por_consola = {} => DeadlockReportado)
<1>1. Spec => []DetectaInv
  BY DetectaInicial, DetectaPaso, SinMuertesSiempre, OrdenadoSiempre, ConservaTeorema, PTL
  DEF Spec
<1> QED
  BY <1>1, DetectaImplica, TipoSiempre, PTL

=============================================================================
