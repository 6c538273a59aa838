--------------------------- MODULE ArchivosPruebas --------------------------
(***************************************************************************)
(* Proofs about the file table and the locks of its entries, for any       *)
(* number of processes, files and F_OPEN instructions.                     *)
(***************************************************************************)
EXTENDS TablaArchivos, Lemas

-----------------------------------------------------------------------------
(* The type invariant: types, and what the planner and the threads that    *)
(* wait have in their hands at each point.                                 *)

Lugares == DOMAIN tabla_archivos_global
Entradas == [archivo : Archivos, lectores : Nat, escritores : Nat, lock : BOOLEAN]
Abiertos == [e : Lugares, modo : Modos \cup {"G"}, libre : BOOLEAN]
Esperas  == [pc : {"nada", "mira", "duerme", "despierta"}, e : Lugares \cup {0}, modo : Modos]
Cortos   == [pc : {"elige", "ejecuta", "abre", "bloquea", "cierra"},
             pcb : Procesos \cup {Nadie}, e : Nat, modo : Modos]

TipoProcesos ==
  listos \subseteq Procesos /\ bloqueados \subseteq Procesos /\ saliendo \subseteq Procesos
TipoTabla    == tabla_archivos_global \in Seq(Entradas) /\ liberadas \subseteq Lugares
TipoAbiertos == abiertos \in [Procesos -> Seq(Abiertos)]
TipoEspera   == espera \in [Procesos -> Esperas]
TipoCorto    == corto \in Cortos
TipoResto    == aperturas \in 0 .. MaxAperturas /\ fallo \in BOOLEAN

\* What the planner has in its hands: a process that is nowhere else; the entry it has just
\* added to the list of that process; the one it is to close.
ConPcb == {"ejecuta", "abre", "cierra"}
Manos ==
  /\ corto.pc \in ConPcb \cup {"bloquea"} => corto.pcb \in Procesos
  /\ corto.pc \in ConPcb => /\ corto.pcb \notin listos \cup saliendo
                            /\ espera[corto.pcb].pc = "nada"
  /\ corto.pc = "abre" =>
       LET s == abiertos[corto.pcb]
       IN  /\ corto.e \in Lugares /\ s # <<>>
           /\ s[Len(s)] = [e |-> corto.e, modo |-> corto.modo, libre |-> FALSE]
  /\ corto.pc = "cierra" =>
       LET s == abiertos[corto.pcb]
       IN  /\ corto.e \in DOMAIN s /\ ~s[corto.e].libre
           /\ s[corto.e].modo = corto.modo

\* A process that waits for a lock is not ready nor ending.
Esperando ==
  /\ listos \cap saliendo = {}
  /\ \A p \in listos \cup saliendo : espera[p].pc = "nada"
  /\ \A p \in Procesos : espera[p].pc # "nada" => espera[p].e \in Lugares

-----------------------------------------------------------------------------
(* Counting *)

\* p has entry k in its list with that mode.
Abierto(p, k, m) ==
  \E i \in DOMAIN abiertos[p] :
    abiertos[p][i].e = k /\ abiertos[p][i].modo = m /\ ~abiertos[p][i].libre

Pendiente(p, k) == corto.pc = "abre" /\ corto.pcb = p /\ corto.e = k

\* Those whom the counters of the lock of k have counted.
Contados(k, m) == {p \in Procesos : Abierto(p, k, m) /\ ~Pendiente(p, k)}

\* Two entries of the list of a process are of different files.
UnaPorArchivo ==
  \A p \in Procesos : \A i, j \in DOMAIN abiertos[p] :
    LET a == abiertos[p][i]
        b == abiertos[p][j]
    IN  /\ a.modo # "G" /\ ~a.libre /\ b.modo # "G" /\ ~b.libre
        /\ Entrada(a.e).archivo = Entrada(b.e).archivo
        => i = j

\* Who waits for a lock has been counted.
EsperaAbierta ==
  \A p \in Procesos : espera[p].pc # "nada" => Abierto(p, espera[p].e, espera[p].modo)

Cuentan ==
  \A k \in Lugares : /\ Cardinality(Contados(k, "R")) <= Entrada(k).lectores
                     /\ Cardinality(Contados(k, "W")) <= Entrada(k).escritores

\* A file has one entry in use.
UnaEnUso ==
  \A j, k \in Lugares : /\ Entrada(j).archivo = Entrada(k).archivo
                        /\ j \notin liberadas /\ k \notin liberadas
                        => j = k

\* Who is in to write excludes the others at the same entry.
Excluye ==
  \A k \in Lugares : \A m \in Modos : \A p, q \in Procesos :
    Dentro(p, k, "W") /\ Dentro(q, k, m) => p = q

Tipos == TipoProcesos /\ TipoTabla /\ TipoAbiertos /\ TipoEspera /\ TipoCorto

Firme == Tipos /\ TipoResto /\ Manos /\ Esperando
Orden == /\ UnaPorArchivo /\ EsperaAbierta /\ Cuentan /\ UnaEnUso /\ Excluye
         /\ EntradaViva /\ LectorDespierto
Inv == Firme /\ Orden

LEMMA InvTipo == Inv => TipoOK
BY DEF Inv, Firme, Tipos, TipoProcesos, TipoTabla, TipoAbiertos, TipoEspera, TipoCorto,
   TipoResto, TipoOK, Lugares, Entradas, Abiertos, Esperas, Cortos

-----------------------------------------------------------------------------
(* Reading the tables *)

LEMMA EnTabla ==
  ASSUME TipoTabla
  PROVE  /\ Lugares = 1 .. Len(tabla_archivos_global) /\ Len(tabla_archivos_global) \in Nat
         /\ \A k \in Lugares : Entrada(k) \in Entradas /\ k \in Nat \ {0}
BY DEF TipoTabla, Lugares, Entrada

LEMMA EnLista ==
  ASSUME TipoAbiertos, NEW p \in Procesos
  PROVE  /\ abiertos[p] \in Seq(Abiertos) /\ DOMAIN abiertos[p] = 1 .. Len(abiertos[p])
         /\ Len(abiertos[p]) \in Nat
         /\ \A i \in DOMAIN abiertos[p] :
              /\ abiertos[p][i] \in Abiertos /\ abiertos[p][i].e \in Lugares
              /\ abiertos[p][i].modo \in Modos \cup {"G"} /\ abiertos[p][i].libre \in BOOLEAN
<1>1. abiertos[p] \in Seq(Abiertos)
  BY DEF TipoAbiertos
<1>2. \A i \in DOMAIN abiertos[p] : abiertos[p][i] \in Abiertos
  BY <1>1
<1> QED
  BY <1>1, <1>2 DEF Abiertos

\* The entry that a search in the global table returns.
LEMMA GlobalEs ==
  ASSUME TipoTabla, NEW f
  PROVE  LET k == BuscarGlobal(f)
         IN  \/ k = 0 /\ \A j \in Lugares : j \in liberadas \/ Entrada(j).archivo # f
             \/ k \in Lugares /\ k \notin liberadas /\ Entrada(k).archivo = f
<1> DEFINE iguales ==
      {k \in DOMAIN tabla_archivos_global : k \notin liberadas /\ Entrada(k).archivo = f}
<1>1. iguales \subseteq Nat
  BY EnTabla DEF Lugares
<1>2. CASE iguales = {}
  <2>1. BuscarGlobal(f) = 0
    BY <1>2 DEF BuscarGlobal
  <2>2. \A j \in Lugares : j \notin iguales
    BY <1>2
  <2>3. \A j \in Lugares : j \in liberadas \/ Entrada(j).archivo # f
    BY <2>2 DEF Lugares
  <2> QED
    BY <2>1, <2>3
<1>3. CASE iguales # {}
  <2>1. Min(iguales) \in iguales
    <3> HIDE DEF iguales
    <3> QED
      BY <1>1, <1>3, MinEs
  <2>2. BuscarGlobal(f) = Min(iguales)
    BY <1>3 DEF BuscarGlobal
  <2> QED
    BY <2>1, <2>2 DEF Lugares
<1> QED
  BY <1>2, <1>3

\* The entry that a search in the list of a process returns.
LEMMA PcbEs ==
  ASSUME TipoAbiertos, NEW p \in Procesos, NEW f
  PROVE  LET i == BuscarPcb(p, f)
         IN  \/ i = 0 /\ \A j \in DOMAIN abiertos[p] :
                  \/ abiertos[p][j].modo = "G" \/ abiertos[p][j].libre
                  \/ Entrada(abiertos[p][j].e).archivo # f
             \/ i \in DOMAIN abiertos[p] /\ abiertos[p][i].modo # "G" /\ ~abiertos[p][i].libre
<1> DEFINE iguales == {i \in DOMAIN abiertos[p] :
                    LET a == abiertos[p][i]
                    IN  a.modo # "G" /\ ~a.libre /\ Entrada(a.e).archivo = f}
<1>1. iguales \subseteq Nat
  BY EnLista
<1>2. CASE iguales = {}
  <2>1. BuscarPcb(p, f) = 0
    BY <1>2 DEF BuscarPcb
  <2>2. \A j \in DOMAIN abiertos[p] : j \notin iguales
    BY <1>2
  <2> QED
    BY <2>1, <2>2
<1>3. CASE iguales # {}
  <2>1. Min(iguales) \in iguales
    <3> HIDE DEF iguales
    <3> QED
      BY <1>1, <1>3, MinEs
  <2>2. BuscarPcb(p, f) = Min(iguales)
    BY <1>3 DEF BuscarPcb
  <2> QED
    BY <2>1, <2>2
<1> QED
  BY <1>2, <1>3

LEMMA ContadosTipo ==
  ASSUME NEW k, NEW m
  PROVE  IsFiniteSet(Contados(k, m)) /\ Cardinality(Contados(k, m)) \in Nat
<1>1. IsFiniteSet(Contados(k, m))
  BY ArchivosOK, FS_Subset DEF Contados
<1> QED
  BY <1>1, FS_CardinalityType

\* Nobody is counted where a counter is zero.
LEMMA NadieContado ==
  ASSUME TipoTabla, Cuentan, NEW k \in Lugares
  PROVE  /\ Entrada(k).lectores = 0 => Contados(k, "R") = {}
         /\ Entrada(k).escritores = 0 => Contados(k, "W") = {}
<1>1. Entrada(k).lectores \in Nat /\ Entrada(k).escritores \in Nat
  BY EnTabla DEF Entradas
<1>2. /\ Cardinality(Contados(k, "R")) <= Entrada(k).lectores
      /\ Cardinality(Contados(k, "W")) <= Entrada(k).escritores
  BY DEF Cuentan
<1>3. /\ Cardinality(Contados(k, "R")) \in Nat /\ IsFiniteSet(Contados(k, "R"))
      /\ Cardinality(Contados(k, "W")) \in Nat /\ IsFiniteSet(Contados(k, "W"))
  BY ContadosTipo
<1>4. /\ Entrada(k).lectores = 0 => Cardinality(Contados(k, "R")) = 0
      /\ Entrada(k).escritores = 0 => Cardinality(Contados(k, "W")) = 0
  BY <1>1, <1>2, <1>3
<1> QED
  BY <1>3, <1>4, FS_EmptySet

\* Who waits for a lock, or has been let in, is counted.
LEMMA EstaContado ==
  ASSUME Manos, EsperaAbierta, NEW p \in Procesos
  PROVE  /\ espera[p].pc # "nada" => p \in Contados(espera[p].e, espera[p].modo)
         /\ \A k, m : Dentro(p, k, m) => p \in Contados(k, m)
BY DEF Manos, ConPcb, EsperaAbierta, Contados, Pendiente, Dentro, Abierto

LEMMA InvInicial == Init => Inv
<1> SUFFICES ASSUME Init PROVE Inv
  OBVIOUS
<1>1. Tipos /\ TipoResto
  <2>1. TipoProcesos
    BY DEF Init, TipoProcesos
  <2>5. TipoResto
    <3>1. MaxAperturas \in Nat
      BY ArchivosOK
    <3>2. aperturas \in 0 .. MaxAperturas
      BY <3>1 DEF Init
    <3>3. fallo \in BOOLEAN
      BY DEF Init
    <3> QED
      BY <3>2, <3>3 DEF TipoResto
  <2>2. TipoTabla
    BY DEF Init, TipoTabla, Lugares
  <2>3. TipoAbiertos
    BY DEF Init, TipoAbiertos
  <2>4. TipoEspera /\ TipoCorto
    BY DEF Init, TipoEspera, TipoCorto, Esperas, Cortos, Quieto, Reposo, Modos
  <2> QED
    BY <2>1, <2>2, <2>3, <2>4, <2>5 DEF Tipos
<1>2. Manos /\ Esperando
  BY DEF Init, Manos, Esperando, Reposo, Quieto, ConPcb
<1>3. Lugares = {}
  BY DEF Init, Lugares
<1>4. UnaPorArchivo /\ EsperaAbierta
  BY DEF Init, UnaPorArchivo, EsperaAbierta, Quieto
<1>5. Cuentan /\ UnaEnUso /\ Excluye /\ LectorDespierto /\ EntradaViva
  BY <1>3 DEF Cuentan, UnaEnUso, Excluye, LectorDespierto, EntradaViva, Lugares, Init
<1> QED
  BY <1>1, <1>2, <1>4, <1>5 DEF Inv, Firme, Orden

-----------------------------------------------------------------------------
(* The steps that leave the tables alone *)

LEMMA IgualTabla ==
  ASSUME TipoTabla, UNCHANGED <<tabla_archivos_global, liberadas>>
  PROVE  TipoTabla' /\ Lugares' = Lugares /\ Abiertos' = Abiertos /\ Esperas' = Esperas
BY DEF TipoTabla, Lugares, Abiertos, Esperas

\* Nobody begins or stops waiting, nobody goes to sleep, and the entry that the planner has
\* opened but not locked yet, if any, is the same.
LEMMA OrdenAjeno ==
  ASSUME Tipos, Orden, corto' = corto \/ (corto.pc # "abre" /\ corto'.pc # "abre"),
         UNCHANGED <<tabla_archivos_global, liberadas, abiertos>>,
         \A q \in Procesos : /\ espera'[q].pc # "nada" <=> espera[q].pc # "nada"
                             /\ espera'[q].pc = "duerme" => espera[q].pc = "duerme"
                             /\ espera'[q].e = espera[q].e /\ espera'[q].modo = espera[q].modo
  PROVE  Orden'
<1>1. \A p, k, m : Abierto(p, k, m)' <=> Abierto(p, k, m)
  BY DEF Abierto
<1>2. \A k, m : Contados(k, m)' = Contados(k, m)
  BY <1>1 DEF Contados, Pendiente
<1>3. \A p \in Procesos : \A k, m : Dentro(p, k, m)' <=> Dentro(p, k, m)
  BY DEF Dentro
<1>4. UnaPorArchivo' /\ UnaEnUso'
  BY DEF Orden, UnaPorArchivo, UnaEnUso, Entrada, Lugares
<1>5. EsperaAbierta'
  BY <1>1 DEF Orden, EsperaAbierta
<1>6. Cuentan'
  BY <1>2 DEF Orden, Cuentan, Entrada, Lugares
<1>7. Excluye'
  BY <1>3 DEF Orden, Excluye, Lugares, Modos
<1>8. EntradaViva'
  BY DEF Orden, EntradaViva, Entregado
<1>9. LectorDespierto'
  <2> SUFFICES ASSUME NEW k \in DOMAIN tabla_archivos_global, Entrada(k).escritores = 0,
                      ~Entregado(k), NEW p \in Procesos, espera'[p].pc # "nada",
                      espera'[p].e = k, espera'[p].modo = "R"
               PROVE  \E q \in Procesos : /\ espera'[q].pc # "nada" /\ espera'[q].e = k
                                          /\ espera'[q].modo = "R" /\ espera'[q].pc # "duerme"
    BY DEF LectorDespierto, Entrada, Entregado
  <2>1. espera[p].pc # "nada" /\ espera[p].e = k /\ espera[p].modo = "R"
    OBVIOUS
  <2>2. PICK q \in Procesos : /\ espera[q].pc # "nada" /\ espera[q].e = k
                              /\ espera[q].modo = "R" /\ espera[q].pc # "duerme"
    BY <2>1 DEF Orden, LectorDespierto
  <2> QED
    BY <2>2
<1> QED
  BY <1>4, <1>5, <1>6, <1>7, <1>8, <1>9 DEF Orden

LEMMA PasoElige ==
  ASSUME Inv, NEW p \in Procesos, CortoElige(p)
  PROVE  Inv'
<1> USE DEF Inv, Firme, Tipos
<1>1. corto' = [corto EXCEPT !.pc = "ejecuta", !.pcb = p] /\ p \in listos
  BY DEF CortoElige
<1>2. TipoCorto' /\ corto'.pc = "ejecuta" /\ corto'.pcb = p
  BY <1>1 DEF TipoCorto, Cortos
<1>3. TipoTabla' /\ Abiertos' = Abiertos /\ Esperas' = Esperas
  BY IgualTabla DEF CortoElige
<1>4. TipoProcesos' /\ TipoAbiertos' /\ TipoEspera' /\ TipoResto'
  BY <1>3 DEF CortoElige, TipoProcesos, TipoAbiertos, TipoEspera, TipoResto
<1>5. Manos' /\ Esperando'
  BY <1>1, <1>2 DEF CortoElige, Manos, Esperando, ConPcb, Lugares
<1>6. Orden'
  BY <1>2, OrdenAjeno DEF CortoElige
<1> QED
  BY <1>2, <1>3, <1>4, <1>5, <1>6

LEMMA PasoBloquea == Inv /\ CortoBloquea => Inv'
<1> SUFFICES ASSUME Inv, CortoBloquea PROVE Inv'
  OBVIOUS
<1> USE DEF Inv, Firme, Tipos
<1>1. corto' = Reposo /\ corto.pc = "bloquea"
  BY DEF CortoBloquea
<1>2. TipoCorto' /\ corto'.pc = "elige"
  BY <1>1 DEF TipoCorto, Cortos, Reposo, Modos
<1>3. TipoTabla' /\ Abiertos' = Abiertos /\ Esperas' = Esperas
  BY IgualTabla DEF CortoBloquea
<1>4. TipoProcesos' /\ TipoAbiertos' /\ TipoEspera' /\ TipoResto'
  BY <1>1, <1>3 DEF CortoBloquea, TipoProcesos, TipoAbiertos, TipoEspera, TipoResto, Manos
<1>5. Manos' /\ Esperando'
  BY <1>1, <1>2 DEF CortoBloquea, Manos, Esperando, ConPcb, Lugares
<1>6. Orden'
  BY <1>1, <1>2, OrdenAjeno DEF CortoBloquea
<1> QED
  BY <1>2, <1>3, <1>4, <1>5, <1>6

LEMMA PasoCierra ==
  ASSUME Inv, NEW f \in Archivos, CortoCierra(f)
  PROVE  Inv'
<1> USE DEF Inv, Firme, Tipos
<1> DEFINE p == corto.pcb
           i == BuscarPcb(p, f)
           m == abiertos[p][i].modo
<1>1. /\ corto.pc = "ejecuta" /\ i # 0
      /\ corto' = [corto EXCEPT !.pc = "cierra", !.e = i, !.modo = m]
      /\ fallo' \in BOOLEAN
  BY DEF CortoCierra, Usa
<1>2. p \in Procesos /\ p \notin listos \cup saliendo /\ espera[p].pc = "nada"
  BY <1>1 DEF Manos, ConPcb
<1>3. i \in DOMAIN abiertos[p] /\ m \in Modos /\ ~abiertos[p][i].libre /\ i \in Nat
  BY <1>1, <1>2, PcbEs, EnLista
<1> HIDE DEF i, m
<1>4. TipoCorto' /\ corto'.pc = "cierra" /\ corto'.pcb = p /\ corto'.e = i /\ corto'.modo = m
  BY <1>1, <1>3 DEF TipoCorto, Cortos
<1>5. TipoTabla' /\ Abiertos' = Abiertos /\ Esperas' = Esperas
  BY IgualTabla DEF CortoCierra
<1>6. TipoProcesos' /\ TipoAbiertos' /\ TipoEspera' /\ TipoResto'
  BY <1>1, <1>5 DEF CortoCierra, TipoProcesos, TipoAbiertos, TipoEspera, TipoResto
<1>7. UNCHANGED <<listos, saliendo, espera, abiertos, Lugares>>
  BY DEF CortoCierra, Lugares
<1>8. Manos'
  BY <1>2, <1>3, <1>4, <1>7 DEF Manos, ConPcb, m
<1>9. Esperando'
  BY <1>7 DEF Esperando
<1>10. Orden'
  BY <1>1, <1>4, OrdenAjeno DEF CortoCierra
<1> QED
  BY <1>4, <1>5, <1>6, <1>8, <1>9, <1>10

LEMMA PasoFinaliza == Inv /\ CortoFinaliza => Inv'
<1> SUFFICES ASSUME Inv, CortoFinaliza PROVE Inv'
  OBVIOUS
<1> USE DEF Inv, Firme, Tipos
<1>1. corto' = Reposo /\ corto.pc = "ejecuta"
  BY DEF CortoFinaliza
<1>2. TipoCorto' /\ corto'.pc = "elige"
  BY <1>1 DEF TipoCorto, Cortos, Reposo, Modos
<1>3. TipoTabla' /\ Abiertos' = Abiertos /\ Esperas' = Esperas
  BY IgualTabla DEF CortoFinaliza
<1>4. TipoProcesos' /\ TipoAbiertos' /\ TipoEspera' /\ TipoResto'
  BY <1>1, <1>3 DEF CortoFinaliza, TipoProcesos, TipoAbiertos, TipoEspera, TipoResto, Manos, ConPcb
<1>5. Manos' /\ Esperando'
  BY <1>1, <1>2 DEF CortoFinaliza, Manos, Esperando, ConPcb, Lugares
<1>6. Orden'
  BY <1>1, <1>2, OrdenAjeno DEF CortoFinaliza
<1> QED
  BY <1>2, <1>3, <1>4, <1>5, <1>6

LEMMA PasoDesaloja == Inv /\ CortoDesaloja => Inv'
<1> SUFFICES ASSUME Inv, CortoDesaloja PROVE Inv'
  OBVIOUS
<1> USE DEF Inv, Firme, Tipos
<1>1. corto' = Reposo /\ corto.pc = "ejecuta"
  BY DEF CortoDesaloja
<1>2. TipoCorto' /\ corto'.pc = "elige"
  BY <1>1 DEF TipoCorto, Cortos, Reposo, Modos
<1>3. TipoTabla' /\ Abiertos' = Abiertos /\ Esperas' = Esperas
  BY IgualTabla DEF CortoDesaloja
<1>4. TipoProcesos' /\ TipoAbiertos' /\ TipoEspera' /\ TipoResto'
  BY <1>1, <1>3 DEF CortoDesaloja, TipoProcesos, TipoAbiertos, TipoEspera, TipoResto, Manos, ConPcb
<1>5. Manos' /\ Esperando'
  BY <1>1, <1>2 DEF CortoDesaloja, Manos, Esperando, ConPcb, Lugares
<1>6. Orden'
  BY <1>1, <1>2, OrdenAjeno DEF CortoDesaloja
<1> QED
  BY <1>2, <1>3, <1>4, <1>5, <1>6

LEMMA PasoEspurio ==
  ASSUME Inv, NEW p \in Procesos, EncolarEspurio(p)
  PROVE  Inv'
<1> USE DEF Inv, Firme, Tipos
<1>1. espera' = [espera EXCEPT ![p].pc = "despierta"] /\ espera[p].pc = "duerme"
  BY DEF EncolarEspurio
<1>2. UNCHANGED <<listos, bloqueados, tabla_archivos_global, liberadas, abiertos, corto,
                  saliendo, aperturas, fallo>>
  BY DEF EncolarEspurio
<1>3. TipoTabla' /\ Abiertos' = Abiertos /\ Esperas' = Esperas /\ Lugares' = Lugares
  BY <1>2, IgualTabla
<1>4. TipoEspera'
  BY <1>1, <1>3 DEF TipoEspera, Esperas
<1>5. \A q \in Procesos : /\ espera'[q].pc # "nada" <=> espera[q].pc # "nada"
                          /\ espera'[q].pc = "duerme" => espera[q].pc = "duerme"
                          /\ espera'[q].e = espera[q].e /\ espera'[q].modo = espera[q].modo
  BY <1>1 DEF TipoEspera, Esperas
<1>6. TipoProcesos' /\ TipoAbiertos' /\ TipoCorto' /\ TipoResto'
  BY <1>2, <1>3 DEF TipoProcesos, TipoAbiertos, TipoCorto, Cortos, TipoResto
<1>7. Manos' /\ Esperando'
  BY <1>2, <1>3, <1>5 DEF Manos, Esperando, ConPcb, TipoProcesos
<1>8. Orden'
  BY <1>2, <1>5, OrdenAjeno
<1> QED
  BY <1>3, <1>4, <1>6, <1>7, <1>8

-----------------------------------------------------------------------------
(* F_OPEN: the entry is new, or the one in use, and the planner has not asked for its lock. *)

LEMMA PasoAbre ==
  ASSUME Inv, NEW f \in Archivos, NEW modo \in Modos, CortoAbre(f, modo)
  PROVE  Inv'
<1> USE DEF Inv, Firme, Tipos
<1>a. PICK p : p = corto.pcb
  OBVIOUS
<1>b. PICK k : k = BuscarGlobal(f)
  OBVIOUS
<1>c. PICK e : e = IF k = 0 THEN Len(tabla_archivos_global) + 1 ELSE k
  OBVIOUS
<1>d. PICK nueva : nueva = [archivo |-> f, lectores |-> 0, escritores |-> 0, lock |-> FALSE]
  OBVIOUS
<1>1. /\ corto.pc = "ejecuta" /\ BuscarPcb(p, f) = 0
      /\ aperturas < MaxAperturas /\ aperturas' = aperturas + 1
      /\ tabla_archivos_global' = IF k # 0 THEN tabla_archivos_global
                                  ELSE Append(tabla_archivos_global, nueva)
      /\ abiertos' = [abiertos EXCEPT
           ![p] = Append(abiertos[p], [e |-> e, modo |-> modo, libre |-> FALSE])]
      /\ corto' = [corto EXCEPT !.pc = "abre", !.e = e, !.modo = modo]
      /\ fallo' \in BOOLEAN
      /\ UNCHANGED <<listos, bloqueados, liberadas, espera, saliendo>>
  <2>1. fallo' \in BOOLEAN
    BY DEF CortoAbre, Usa
  <2> QED
    BY <1>a, <1>b, <1>c, <1>d, <2>1 DEF CortoAbre
<1> DEFINE x == [e |-> e, modo |-> modo, libre |-> FALSE]
<1>2. p \in Procesos /\ p \notin listos \cup saliendo /\ espera[p].pc = "nada"
  BY <1>a, <1>1 DEF Manos, ConPcb
<1>3. \/ k = 0 /\ \A j \in Lugares : j \in liberadas \/ Entrada(j).archivo # f
      \/ k \in Lugares /\ k \notin liberadas /\ Entrada(k).archivo = f
  BY <1>b, GlobalEs
<1>4. \A j \in DOMAIN abiertos[p] : \/ abiertos[p][j].modo = "G" \/ abiertos[p][j].libre
                                    \/ Entrada(abiertos[p][j].e).archivo # f
  <2>1. \A j \in DOMAIN abiertos[p] : j # 0
    BY <1>2, EnLista
  <2> QED
    BY <1>1, <1>2, <2>1, PcbEs
<1>5. /\ Lugares = 1 .. Len(tabla_archivos_global) /\ Len(tabla_archivos_global) \in Nat
      /\ liberadas \subseteq Lugares /\ tabla_archivos_global \in Seq(Entradas) /\ 0 \notin Lugares
      /\ nueva \in Entradas
  BY <1>d, EnTabla DEF TipoTabla, Entradas
\* The table.
<1>6. /\ tabla_archivos_global' \in Seq(Entradas) /\ e \in Nat
      /\ Lugares' = Lugares \cup {e} /\ e \notin liberadas
      /\ \A j \in Lugares : Entrada(j)' = Entrada(j)
      /\ Entrada(e)'.archivo = f
      /\ e \in Lugares \/ (/\ Entrada(e)'.lectores = 0 /\ Entrada(e)'.escritores = 0
                           /\ \A j \in Lugares : j \in liberadas \/ Entrada(j).archivo # f)
  <2>1. CASE k = 0
    <3>1. /\ e = Len(tabla_archivos_global) + 1
          /\ tabla_archivos_global' = Append(tabla_archivos_global, nueva)
      BY <1>1, <1>c, <2>1
    <3>2. /\ tabla_archivos_global' \in Seq(Entradas)
          /\ Len(tabla_archivos_global') = Len(tabla_archivos_global) + 1
          /\ \A j \in 1 .. Len(tabla_archivos_global) :
               tabla_archivos_global'[j] = tabla_archivos_global[j]
          /\ tabla_archivos_global'[e] = nueva
      BY <1>5, <3>1
    <3>3. Lugares' = 1 .. Len(tabla_archivos_global) + 1
      BY <3>2 DEF Lugares
    <3>4. e \in Nat /\ Lugares' = Lugares \cup {e} /\ e \notin liberadas /\ e \notin Lugares
      BY <1>5, <3>1, <3>3
    <3>5. \A j \in Lugares : Entrada(j)' = Entrada(j)
      BY <1>5, <3>2 DEF Entrada
    <3>6. Entrada(e)' = nueva
      BY <3>2 DEF Entrada
    <3>7. \A j \in Lugares : j \in liberadas \/ Entrada(j).archivo # f
      BY <1>3, <1>5, <2>1
    <3> QED
      BY <1>d, <3>2, <3>4, <3>5, <3>6, <3>7
  <2>2. CASE k # 0
    <3>1. e = k /\ tabla_archivos_global' = tabla_archivos_global /\ k \in Lugares
      BY <1>1, <1>3, <1>c, <2>2
    <3>2. Lugares' = Lugares /\ \A j : Entrada(j)' = Entrada(j)
      BY <3>1 DEF Entrada, Lugares
    <3> QED
      BY <1>3, <1>5, <3>1, <3>2
  <2> QED
    BY <2>1, <2>2
<1>7. x \in Abiertos' /\ Abiertos \subseteq Abiertos' /\ Esperas \subseteq Esperas'
  BY <1>6 DEF Abiertos, Esperas
\* The list of the process.
<1>8. /\ abiertos[p] \in Seq(Abiertos) /\ Len(abiertos[p]) \in Nat
      /\ DOMAIN abiertos[p] = 1 .. Len(abiertos[p])
      /\ Len(abiertos[p]) + 1 \notin DOMAIN abiertos[p]
  BY <1>2, EnLista
<1>9. /\ abiertos'[p] = Append(abiertos[p], x)
      /\ \A q \in Procesos : q # p => abiertos'[q] = abiertos[q]
      /\ DOMAIN abiertos' = Procesos
  BY <1>1, <1>2 DEF TipoAbiertos
<1>10. /\ DOMAIN abiertos'[p] = DOMAIN abiertos[p] \cup {Len(abiertos[p]) + 1}
       /\ Len(abiertos'[p]) = Len(abiertos[p]) + 1
       /\ abiertos'[p][Len(abiertos[p]) + 1] = x
       /\ \A i \in DOMAIN abiertos[p] : abiertos'[p][i] = abiertos[p][i]
  <2> HIDE DEF x
  <2>1. Append(abiertos[p], x) \in Seq(Abiertos \cup {x})
    BY <1>8
  <2> QED
    BY <1>8, <1>9
<1>11. \A q \in Procesos : abiertos'[q] \in Seq(Abiertos')
  <2>1. \A q \in Procesos : abiertos[q] \in Seq(Abiertos')
    <3> SUFFICES ASSUME NEW q \in Procesos PROVE abiertos[q] \in Seq(Abiertos')
      OBVIOUS
    <3>1. abiertos[q] \in Seq(Abiertos)
      BY EnLista
    <3> HIDE DEF x
    <3> QED
      BY <1>7, <3>1
  <2>2. Append(abiertos[p], x) \in Seq(Abiertos')
    BY <1>2, <1>7, <2>1
  <2> QED
    BY <1>9, <2>1, <2>2
<1>12. TipoAbiertos'
  BY <1>1, <1>9, <1>11 DEF TipoAbiertos
<1>13. /\ corto' \in Cortos /\ corto'.pc = "abre" /\ corto'.pcb = p /\ corto'.e = e
       /\ corto'.modo = modo
  BY <1>a, <1>1, <1>6 DEF TipoCorto, Cortos
<1>14. TipoProcesos' /\ TipoTabla' /\ TipoCorto'
  BY <1>1, <1>5, <1>6, <1>13 DEF TipoProcesos, TipoTabla, TipoCorto, Cortos
<1>15. TipoEspera'
  BY <1>1, <1>7 DEF TipoEspera
<1>16. TipoResto'
  BY <1>1, ArchivosOK DEF TipoResto
<1>17. Manos'
  <2>1. abiertos'[p] # <<>>
    BY <1>8, <1>10
  <2> QED
    BY <1>1, <1>2, <1>6, <1>10, <1>13, <2>1 DEF Manos, ConPcb
<1>18. Esperando'
  BY <1>1, <1>6 DEF Esperando
\* Who is counted.
<1>19. \A q \in Procesos : \A j, m :
         Abierto(q, j, m)' <=> Abierto(q, j, m) \/ (q = p /\ j = e /\ m = modo)
  <2> SUFFICES ASSUME NEW q \in Procesos, NEW j, NEW m
               PROVE  Abierto(q, j, m)' <=> Abierto(q, j, m) \/ (q = p /\ j = e /\ m = modo)
    OBVIOUS
  <2>1. Abierto(q, j, m)' <=> \E i \in DOMAIN abiertos'[q] :
          abiertos'[q][i].e = j /\ abiertos'[q][i].modo = m /\ ~abiertos'[q][i].libre
    BY DEF Abierto
  <2>2. CASE q # p
    BY <1>9, <2>1, <2>2 DEF Abierto
  <2>3. CASE q = p
    BY <1>10, <2>1, <2>3 DEF Abierto
  <2> QED
    BY <2>2, <2>3
<1>20. \A q, j : Pendiente(q, j)' <=> q = p /\ j = e
  BY <1>13 DEF Pendiente
<1>21. \A j, m : Contados(j, m)' \subseteq Contados(j, m)
  BY <1>1, <1>19, <1>20 DEF Contados, Pendiente
<1>22. \A q \in Procesos : \A j, m : Abierto(q, j, m) => j \in Lugares
  BY EnLista DEF Abierto
<1>23. \A q \in Procesos : \A j, m : Dentro(q, j, m)' => Dentro(q, j, m) /\ j \in Lugares
  <2> SUFFICES ASSUME NEW q \in Procesos, NEW j, NEW m, Dentro(q, j, m)'
               PROVE  Dentro(q, j, m) /\ j \in Lugares
    OBVIOUS
  <2>1. /\ Abierto(q, j, m)' /\ ~Pendiente(q, j)'
        /\ ~(espera[q].pc # "nada" /\ espera[q].e = j)
    BY <1>1 DEF Dentro, Abierto, Pendiente
  <2>2. Abierto(q, j, m) /\ ~Pendiente(q, j)
    BY <1>1, <1>19, <1>20, <2>1 DEF Pendiente
  <2> QED
    BY <1>22, <2>1, <2>2 DEF Dentro, Abierto, Pendiente
<1>24. UnaPorArchivo'
  <2> SUFFICES ASSUME NEW q \in Procesos, NEW i \in DOMAIN abiertos'[q],
                      NEW j \in DOMAIN abiertos'[q],
                      abiertos'[q][i].modo # "G", ~abiertos'[q][i].libre,
                      abiertos'[q][j].modo # "G", ~abiertos'[q][j].libre,
                      NEW a, NEW b, a = abiertos'[q][i].e, b = abiertos'[q][j].e,
                      Entrada(a)'.archivo = Entrada(b)'.archivo
               PROVE  i = j
    BY DEF UnaPorArchivo, Entrada
  <2> HIDE DEF x
  <2>1. CASE q # p
    <3>1. /\ i \in DOMAIN abiertos[q] /\ j \in DOMAIN abiertos[q]
          /\ abiertos'[q][i] = abiertos[q][i] /\ abiertos'[q][j] = abiertos[q][j]
      BY <1>9, <2>1
    <3>2. abiertos[q][i].e \in Lugares /\ abiertos[q][j].e \in Lugares
      BY <3>1, EnLista
    <3> QED
      BY <1>6, <3>1, <3>2 DEF Orden, UnaPorArchivo
  <2>2. CASE q = p
    <3>0. x.e = e
      BY DEF x
    <3>1. \A n \in DOMAIN abiertos'[p] :
            \/ n = Len(abiertos[p]) + 1 /\ abiertos'[p][n].e = e
            \/ /\ n \in DOMAIN abiertos[p] /\ abiertos'[p][n] = abiertos[p][n]
               /\ abiertos[p][n].e \in Lugares
      BY <1>2, <1>10, <3>0, EnLista
    <3>2. \A n \in DOMAIN abiertos[p] : \A c :
            abiertos[p][n].modo # "G" /\ ~abiertos[p][n].libre /\ c = abiertos[p][n].e
            => Entrada(c)' = Entrada(c) /\ Entrada(c).archivo # f
      BY <1>2, <1>4, <1>6, EnLista
    <3>3. CASE i \in DOMAIN abiertos[p] /\ j \in DOMAIN abiertos[p]
      <4>1. Entrada(a).archivo = Entrada(b).archivo
        BY <1>10, <2>2, <3>2, <3>3
      <4> QED
        BY <1>2, <1>10, <2>2, <3>3, <4>1 DEF Orden, UnaPorArchivo
    <3>4. CASE i \in DOMAIN abiertos[p] /\ j \notin DOMAIN abiertos[p]
      BY <1>6, <1>10, <2>2, <3>0, <3>2, <3>4
    <3>5. CASE i \notin DOMAIN abiertos[p] /\ j \in DOMAIN abiertos[p]
      BY <1>6, <1>10, <2>2, <3>0, <3>2, <3>5
    <3> QED
      BY <2>2, <3>1, <3>3, <3>4, <3>5
  <2> QED
    BY <2>1, <2>2
<1>25. EsperaAbierta'
  BY <1>1, <1>19 DEF Orden, EsperaAbierta
<1>26. Cuentan'
  <2> SUFFICES ASSUME NEW j \in Lugares'
               PROVE  /\ Cardinality(Contados(j, "R")') <= Entrada(j)'.lectores
                      /\ Cardinality(Contados(j, "W")') <= Entrada(j)'.escritores
    BY DEF Cuentan
  <2>1. \A m : /\ Cardinality(Contados(j, m)') <= Cardinality(Contados(j, m))
               /\ Cardinality(Contados(j, m)') \in Nat /\ Cardinality(Contados(j, m)) \in Nat
    <3> TAKE m
    <3>1. IsFiniteSet(Contados(j, m)) /\ Cardinality(Contados(j, m)) \in Nat
      BY ContadosTipo
    <3>2. /\ IsFiniteSet(Contados(j, m)')
          /\ Cardinality(Contados(j, m)') <= Cardinality(Contados(j, m))
      BY <1>21, <3>1, FS_Subset
    <3> QED
      BY <3>1, <3>2, FS_CardinalityType
  <2>2. CASE j \in Lugares
    <3>1. /\ Cardinality(Contados(j, "R")) <= Entrada(j).lectores
          /\ Cardinality(Contados(j, "W")) <= Entrada(j).escritores
      BY <2>2 DEF Orden, Cuentan
    <3>2. Entrada(j)' = Entrada(j) /\ Entrada(j).lectores \in Nat /\ Entrada(j).escritores \in Nat
      BY <1>6, <2>2, EnTabla DEF Entradas
    <3> QED
      BY <2>1, <3>1, <3>2
  <2>3. CASE j \notin Lugares
    <3>1. j = e /\ Entrada(j)'.lectores = 0 /\ Entrada(j)'.escritores = 0
      BY <1>6, <2>3
    <3>2. \A m : Contados(j, m) = {}
      BY <1>22, <2>3 DEF Contados
    <3>3. \A m : Contados(j, m)' = {}
      BY <1>21, <3>2
    <3> QED
      BY <3>1, <3>3, FS_EmptySet
  <2> QED
    BY <2>2, <2>3
<1>27. UnaEnUso'
  BY <1>1, <1>6 DEF Orden, UnaEnUso
<1>28. Excluye'
  <2> SUFFICES ASSUME NEW j, NEW m \in Modos, NEW q \in Procesos, NEW r \in Procesos,
                      Dentro(q, j, "W")', Dentro(r, j, m)'
               PROVE  q = r
    BY DEF Excluye, Modos
  <2> QED
    BY <1>23 DEF Orden, Excluye
<1>29. \A j : Entregado(j)' <=> Entregado(j)
  <2>1. \A j : Entregado(j) <=> \E q \in Procesos : \E i \in DOMAIN abiertos[q] :
                                  abiertos[q][i].e = j /\ abiertos[q][i].modo = "G"
    BY DEF Entregado
  <2>2. \A j : Entregado(j)' <=> \E q \in Procesos : \E i \in DOMAIN abiertos'[q] :
                                  abiertos'[q][i].e = j /\ abiertos'[q][i].modo = "G"
    BY DEF Entregado
  <2>3. x.modo # "G"
    BY DEF Modos
  <2> HIDE DEF x
  <2> QED
    BY <1>2, <1>9, <1>10, <2>1, <2>2, <2>3
<1>30. EntradaViva'
  BY <1>1, <1>6, <1>9, <1>10, <1>29 DEF Orden, EntradaViva
<1>31. LectorDespierto'
  BY <1>1, <1>6, <1>29 DEF Orden, LectorDespierto, Esperando, Lugares
<1> QED
  BY <1>12, <1>14, <1>15, <1>16, <1>17, <1>18, <1>24, <1>25, <1>26, <1>27, <1>28, <1>30, <1>31
     DEF Orden

-----------------------------------------------------------------------------
(* The steps at the lock *)

LEMMA CuentaEs ==
  ASSUME NEW x \in Entradas, NEW m \in Modos, NEW n \in Int
  PROVE  Cuenta(x, m, n) = [archivo |-> x.archivo,
           lectores |-> IF m = "R" THEN x.lectores + n ELSE x.lectores,
           escritores |-> IF m = "W" THEN x.escritores + n ELSE x.escritores,
           lock |-> x.lock]
BY DEF Cuenta, Entradas, Modos

\* The table after a step that changes one entry and not its name.
LEMMA TablaCambia ==
  ASSUME TipoTabla, NEW k \in Lugares, NEW y \in Entradas, y.archivo = Entrada(k).archivo,
         tabla_archivos_global' = [tabla_archivos_global EXCEPT ![k] = y]
  PROVE  /\ tabla_archivos_global' \in Seq(Entradas) /\ Lugares' = Lugares
         /\ Abiertos' = Abiertos /\ Esperas' = Esperas
         /\ Entrada(k)' = y /\ \A j \in Lugares : j # k => Entrada(j)' = Entrada(j)
         /\ \A j \in Lugares : Entrada(j)'.archivo = Entrada(j).archivo
<1>1. tabla_archivos_global' \in Seq(Entradas) /\ Lugares' = Lugares
  BY DEF TipoTabla, Lugares
<1>2. Entrada(k)' = y /\ \A j \in Lugares : j # k => Entrada(j)' = Entrada(j)
  BY DEF Entrada, Lugares
<1>3. Abiertos' = Abiertos /\ Esperas' = Esperas
  BY <1>1 DEF Abiertos, Esperas
<1> QED
  BY <1>1, <1>2, <1>3

\* Of the entries of a process, one is of a given place of the table.
LEMMA UnaPorLugar ==
  ASSUME TipoAbiertos, UnaPorArchivo, NEW p \in Procesos,
         NEW i \in DOMAIN abiertos[p], abiertos[p][i].modo # "G", ~abiertos[p][i].libre,
         NEW j \in DOMAIN abiertos[p], abiertos[p][j].modo # "G", ~abiertos[p][j].libre,
         abiertos[p][i].e = abiertos[p][j].e
  PROVE  i = j
BY DEF UnaPorArchivo

\* The planner asks for the lock: it is counted, and lets the process in or makes a thread wait.
LEMMA PasoCreaLock == Inv /\ CortoCreaLock => Inv'
<1> SUFFICES ASSUME Inv, CortoCreaLock PROVE Inv'
  OBVIOUS
<1> USE DEF Inv, Firme, Tipos
<1>a. PICK p : p = corto.pcb
  OBVIOUS
<1>b. PICK k : k = corto.e
  OBVIOUS
<1>c. PICK m0 : m0 = corto.modo
  OBVIOUS
<1>d. PICK oc : oc = Ocupado(k, m0)
  OBVIOUS
<1>1. /\ p = corto.pcb /\ k = corto.e /\ m0 = corto.modo /\ oc = Ocupado(k, m0)
      /\ corto.pc = "abre"
      /\ tabla_archivos_global' = [tabla_archivos_global EXCEPT
           ![k] = [Cuenta(Entrada(k), m0, 1) EXCEPT !.lock = oc]]
      /\ espera' = IF oc THEN [espera EXCEPT ![p] = [pc |-> "mira", e |-> k, modo |-> m0]]
                         ELSE espera
      /\ corto' = [Reposo EXCEPT !.pc = IF oc THEN "bloquea" ELSE "ejecuta", !.pcb = p]
      /\ UNCHANGED <<listos, bloqueados, liberadas, abiertos, saliendo, aperturas>>
  BY <1>a, <1>b, <1>c, <1>d DEF CortoCreaLock, Sigue, Entrada
<1>2. fallo' \in BOOLEAN
  BY DEF CortoCreaLock, Usa
<1>3. p \in Procesos /\ p \notin listos \cup saliendo /\ espera[p].pc = "nada"
  BY <1>1 DEF Manos, ConPcb
<1>4. /\ k \in Lugares /\ m0 \in Modos /\ oc \in BOOLEAN /\ Entrada(k) \in Entradas
      /\ Entrada(k).lectores \in Nat /\ Entrada(k).escritores \in Nat
  <2>1. k \in Lugares /\ m0 \in Modos /\ oc \in BOOLEAN
    BY <1>1 DEF Manos, TipoCorto, Cortos, Ocupado
  <2> QED
    BY <2>1, EnTabla DEF Entradas
<1>5. PICK u \in DOMAIN abiertos[p] :
        abiertos[p][u] = [e |-> k, modo |-> m0, libre |-> FALSE]
  BY <1>1, <1>3, EnLista DEF Manos
<1> DEFINE y == [Cuenta(Entrada(k), m0, 1) EXCEPT !.lock = oc]
<1>6. /\ y \in Entradas /\ y.archivo = Entrada(k).archivo
      /\ y.lectores = IF m0 = "R" THEN Entrada(k).lectores + 1 ELSE Entrada(k).lectores
      /\ y.escritores = IF m0 = "W" THEN Entrada(k).escritores + 1 ELSE Entrada(k).escritores
  BY <1>4, CuentaEs DEF Entradas
<1>7. tabla_archivos_global' = [tabla_archivos_global EXCEPT ![k] = y]
  BY <1>1
<1>8. PICK z : z = y
  OBVIOUS
<1> HIDE DEF y
<1>9. /\ tabla_archivos_global' \in Seq(Entradas) /\ Lugares' = Lugares
      /\ Abiertos' = Abiertos /\ Esperas' = Esperas
      /\ Entrada(k)' = z /\ \A j \in Lugares : j # k => Entrada(j)' = Entrada(j)
      /\ \A j \in Lugares : Entrada(j)'.archivo = Entrada(j).archivo
  BY <1>4, <1>6, <1>7, <1>8, TablaCambia
<1>10. /\ \A q \in Procesos : q # p => espera'[q] = espera[q]
       /\ oc => espera'[p] = [pc |-> "mira", e |-> k, modo |-> m0]
       /\ ~oc => espera'[p] = espera[p]
       /\ TipoEspera'
  BY <1>1, <1>3, <1>4, <1>9 DEF TipoEspera, Esperas
<1>11. /\ corto' \in Cortos /\ corto'.pcb = p /\ corto'.pc = IF oc THEN "bloquea" ELSE "ejecuta"
  BY <1>1, <1>3 DEF Cortos, Reposo, Modos
<1>12. TipoProcesos' /\ TipoTabla' /\ TipoAbiertos' /\ TipoCorto' /\ TipoResto'
  <2>1. TipoResto'
    BY <1>1, <1>2 DEF TipoResto
  <2> QED
    BY <1>1, <1>9, <1>11, <2>1 DEF TipoProcesos, TipoTabla, TipoAbiertos,
       TipoCorto, Cortos, TipoResto
<1>13. Manos' /\ Esperando'
  BY <1>1, <1>3, <1>4, <1>9, <1>10, <1>11 DEF Manos, Esperando, ConPcb
\* Who is counted: p at k, with its mode and no other.
<1>14. \A q, j, m : Abierto(q, j, m)' <=> Abierto(q, j, m)
  BY <1>1 DEF Abierto
<1>15. /\ Abierto(p, k, m0)
       /\ \A m \in Modos : Abierto(p, k, m) => m = m0
  BY <1>3, <1>4, <1>5, UnaPorLugar DEF Abierto, Orden, Modos
<1>16. \A q, j : Pendiente(q, j) <=> q = p /\ j = k
  BY <1>1 DEF Pendiente
<1>17. \A q, j : ~Pendiente(q, j)'
  BY <1>11 DEF Pendiente
<1>18. \A j, m : j # k \/ (m \in Modos /\ m # m0) => Contados(j, m)' = Contados(j, m)
  BY <1>14, <1>15, <1>16, <1>17 DEF Contados
<1>19. Contados(k, m0)' = Contados(k, m0) \cup {p}
  BY <1>3, <1>14, <1>15, <1>16, <1>17 DEF Contados
<1>20. UnaPorArchivo' /\ UnaEnUso'
  <2>1. UnaEnUso'
    BY <1>1, <1>9 DEF Orden, UnaEnUso
  <2>2. UnaPorArchivo'
    <3> SUFFICES ASSUME NEW q \in Procesos, NEW i \in DOMAIN abiertos[q],
                        NEW j \in DOMAIN abiertos[q],
                        abiertos[q][i].modo # "G", ~abiertos[q][i].libre,
                        abiertos[q][j].modo # "G", ~abiertos[q][j].libre,
                        NEW a, NEW b, a = abiertos[q][i].e, b = abiertos[q][j].e,
                        Entrada(a)'.archivo = Entrada(b)'.archivo
                 PROVE  i = j
      BY <1>1 DEF UnaPorArchivo, Entrada
    <3>1. a \in Lugares /\ b \in Lugares
      BY EnLista
    <3> QED
      BY <1>9, <3>1 DEF Orden, UnaPorArchivo
  <2> QED
    BY <2>1, <2>2
<1>21. EsperaAbierta'
  BY <1>10, <1>14, <1>15 DEF Orden, EsperaAbierta
<1>22. Cuentan'
  <2> SUFFICES ASSUME NEW j \in Lugares
               PROVE  /\ Cardinality(Contados(j, "R")') <= Entrada(j)'.lectores
                      /\ Cardinality(Contados(j, "W")') <= Entrada(j)'.escritores
    BY <1>9 DEF Cuentan
  <2>1. /\ Cardinality(Contados(j, "R")) <= Entrada(j).lectores
        /\ Cardinality(Contados(j, "W")) <= Entrada(j).escritores
    BY DEF Orden, Cuentan
  <2>2. CASE j # k
    BY <1>9, <1>18, <2>1, <2>2
  <2>3. CASE j = k
    <3>1. /\ IsFiniteSet(Contados(k, m0)) /\ Cardinality(Contados(k, m0)) \in Nat
      BY ContadosTipo
    <3>2. /\ Cardinality(Contados(k, m0) \cup {p}) \in Nat
          /\ Cardinality(Contados(k, m0) \cup {p}) <= Cardinality(Contados(k, m0)) + 1
      <4>1. Cardinality(Contados(k, m0) \cup {p}) =
              IF p \in Contados(k, m0) THEN Cardinality(Contados(k, m0))
                                       ELSE Cardinality(Contados(k, m0)) + 1
        BY <3>1, FS_AddElement
      <4> QED
        BY <3>1, <4>1
    <3>3. CASE m0 = "R"
      <4>1. /\ Entrada(k)'.lectores = Entrada(k).lectores + 1
            /\ Entrada(k)'.escritores = Entrada(k).escritores
            /\ Contados(k, "W")' = Contados(k, "W")
        BY <1>6, <1>8, <1>9, <1>18, <3>3 DEF Modos
      <4>2. Cardinality(Contados(k, "R") \cup {p}) <= Entrada(k).lectores + 1
        BY <1>4, <2>1, <2>3, <3>1, <3>2, <3>3
      <4> QED
        BY <1>19, <2>1, <2>3, <3>3, <4>1, <4>2
    <3>4. CASE m0 = "W"
      <4>1. /\ Entrada(k)'.escritores = Entrada(k).escritores + 1
            /\ Entrada(k)'.lectores = Entrada(k).lectores
            /\ Contados(k, "R")' = Contados(k, "R")
        BY <1>6, <1>8, <1>9, <1>18, <3>4 DEF Modos
      <4>2. Cardinality(Contados(k, "W") \cup {p}) <= Entrada(k).escritores + 1
        BY <1>4, <2>1, <2>3, <3>1, <3>2, <3>4
      <4> QED
        BY <1>19, <2>1, <2>3, <3>4, <4>1, <4>2
    <3> QED
      BY <1>4, <3>3, <3>4 DEF Modos
  <2> QED
    BY <2>2, <2>3
\* Who is let in finds nobody that its mode excludes.
<1>23. \A q \in Procesos : \A j, m : Dentro(q, j, m)' =>
         Dentro(q, j, m) \/ (q = p /\ j = k /\ ~oc /\ Abierto(p, k, m))
  <2> SUFFICES ASSUME NEW q \in Procesos, NEW j, NEW m, Dentro(q, j, m)'
               PROVE  Dentro(q, j, m) \/ (q = p /\ j = k /\ ~oc /\ Abierto(p, k, m))
    OBVIOUS
  <2>1. Abierto(q, j, m) /\ ~(espera'[q].pc # "nada" /\ espera'[q].e = j)
    BY <1>14 DEF Dentro, Abierto
  <2>2. CASE q # p
    BY <1>1, <1>10, <2>1, <2>2 DEF Dentro, Abierto
  <2>3. CASE q = p /\ j # k
    BY <1>1, <1>3, <2>1, <2>3 DEF Dentro, Abierto
  <2>4. CASE q = p /\ j = k
    BY <1>10, <2>1, <2>4
  <2> QED
    BY <2>2, <2>3, <2>4
<1>24. ~oc => /\ Contados(k, "W") = {} /\ (m0 = "W" => Contados(k, "R") = {})
  <2>1. ~oc => ~(Entrada(k).escritores > 0) /\ (m0 = "W" => ~(Entrada(k).lectores > 0))
    BY <1>1 DEF Ocupado
  <2>2. ~oc => Entrada(k).escritores = 0 /\ (m0 = "W" => Entrada(k).lectores = 0)
    BY <1>4, <2>1
  <2> QED
    BY <1>4, <2>2, NadieContado DEF Orden
<1>25. Excluye'
  <2> SUFFICES ASSUME NEW j, NEW m \in Modos, NEW q \in Procesos, NEW r \in Procesos,
                      Dentro(q, j, "W")', Dentro(r, j, m)', j \in Lugares, q # r
               PROVE  FALSE
    BY <1>9 DEF Excluye, Modos
  <2>1. \A n \in Procesos : \A l : Dentro(n, k, l) => n \in Contados(k, l)
    BY EstaContado DEF Orden
  <2>2. CASE Dentro(q, j, "W") /\ Dentro(r, j, m)
    BY <2>2 DEF Orden, Excluye
  <2>3. CASE q = p /\ j = k /\ ~oc /\ Abierto(p, k, "W") /\ Dentro(r, j, m)
    <3>1. m0 = "W"
      BY <1>15, <2>3 DEF Modos
    <3> QED
      BY <1>24, <2>1, <2>3, <3>1 DEF Modos
  <2>4. CASE r = p /\ j = k /\ ~oc /\ Dentro(q, j, "W")
    BY <1>24, <2>1, <2>4
  <2> QED
    BY <1>23, <2>2, <2>3, <2>4
<1>26. \A j : Entregado(j)' <=> Entregado(j)
  BY <1>1 DEF Entregado
<1>27. EntradaViva'
  <2> SUFFICES ASSUME NEW j \in liberadas, ~Entregado(j), NEW q \in Procesos
               PROVE  /\ ~(espera'[q].pc # "nada" /\ espera'[q].e = j)
                      /\ \A i \in DOMAIN abiertos[q] : abiertos[q][i].e = j => abiertos[q][i].libre
    BY <1>1, <1>26 DEF EntradaViva
  <2>1. \A i \in DOMAIN abiertos[q] : abiertos[q][i].e = j => abiertos[q][i].libre
    BY DEF Orden, EntradaViva
  <2>2. CASE q # p
    BY <1>10, <2>1, <2>2 DEF Orden, EntradaViva
  <2>3. CASE q = p
    <3>1. j # k
      BY <1>5, <2>1, <2>3
    <3> QED
      BY <1>3, <1>10, <2>1, <2>3, <3>1
  <2> QED
    BY <2>2, <2>3
<1>28. LectorDespierto'
  <2> SUFFICES ASSUME NEW j \in Lugares, Entrada(j)'.escritores = 0,
                      ~Entregado(j), NEW q \in Procesos, espera'[q].pc # "nada",
                      espera'[q].e = j, espera'[q].modo = "R"
               PROVE  \E r \in Procesos : /\ espera'[r].pc # "nada" /\ espera'[r].e = j
                                          /\ espera'[r].modo = "R" /\ espera'[r].pc # "duerme"
    BY <1>9, <1>26 DEF LectorDespierto, Lugares
  <2>1. ~oc \/ j # k
    <3> SUFFICES ASSUME oc, j = k PROVE FALSE
      OBVIOUS
    <3>1. CASE m0 = "W"
      <4>1. Entrada(k)'.escritores = Entrada(k).escritores + 1
        BY <1>6, <1>8, <1>9, <3>1
      <4> QED
        BY <1>4, <4>1
    <3>2. CASE m0 = "R"
      <4>1. Entrada(k)'.escritores = Entrada(k).escritores
        BY <1>6, <1>8, <1>9, <3>2
      <4>2. Entrada(k).escritores > 0
        BY <1>1, <3>2 DEF Ocupado
      <4> QED
        BY <1>4, <4>1, <4>2
    <3> QED
      BY <1>4, <3>1, <3>2 DEF Modos
  <2>2. espera[q] = espera'[q]
    BY <1>10, <2>1
  <2>3. Entrada(j).escritores = 0
    <3>1. CASE j # k
      BY <1>9, <3>1
    <3>2. CASE j = k
      <4>1. Entrada(k).escritores = 0 \/ Entrada(k)'.escritores = Entrada(k).escritores + 1
        <5>1. ~(Entrada(k).escritores > 0)
          BY <1>1, <2>1, <3>2 DEF Ocupado
        <5> QED
          BY <1>4, <5>1
      <4>2. z.escritores = 0
        BY <1>9, <3>2
      <4>3. Entrada(k).escritores = 0 \/ Entrada(k).escritores + 1 = 0
        BY <1>6, <1>8, <4>2
      <4> QED
        BY <1>4, <3>2, <4>3
    <3> QED
      BY <3>1, <3>2
  <2>4. PICK r \in Procesos : /\ espera[r].pc # "nada" /\ espera[r].e = j
                              /\ espera[r].modo = "R" /\ espera[r].pc # "duerme"
    BY <2>2, <2>3 DEF Orden, LectorDespierto, Lugares
  <2>5. espera'[r] = espera[r]
    BY <1>3, <1>10, <2>4
  <2> QED
    BY <2>4, <2>5
<1> QED
  BY <1>10, <1>12, <1>13, <1>20, <1>21, <1>22, <1>25, <1>27, <1>28 DEF Orden

\* An entry of a list that is freed keeps its place and its mode.
LEMMA AlLiberar ==
  ASSUME NEW b \in Abiertos
  PROVE  LET c == [b EXCEPT !.libre = TRUE]
         IN  c \in Abiertos /\ c.e = b.e /\ c.modo = b.modo /\ c.libre
BY DEF Abiertos

\* The planner gives the lock back: it is discounted, and so is the entry in use if nobody is
\* counted any more.
LEMMA PasoEliminaLock == Inv /\ CortoEliminaLock => Inv'
<1> SUFFICES ASSUME Inv, CortoEliminaLock PROVE Inv'
  OBVIOUS
<1> USE DEF Inv, Firme, Tipos
<1>a. PICK p : p = corto.pcb
  OBVIOUS
<1>b. PICK u : u = corto.e
  OBVIOUS
<1>c. PICK m0 : m0 = corto.modo
  OBVIOUS
<1>d. PICK k : k = abiertos[p][u].e
  OBVIOUS
<1>e. PICK x : x = Cuenta(Entrada(k), m0, -1)
  OBVIOUS
<1>1. /\ corto.pc = "cierra"
      /\ tabla_archivos_global' = [tabla_archivos_global EXCEPT ![k] = x]
      /\ abiertos' = [abiertos EXCEPT ![p][u].libre = TRUE]
      /\ liberadas' = IF Cerrada(x) THEN liberadas \cup {k} ELSE liberadas
      /\ corto' = [Reposo EXCEPT !.pc = "ejecuta", !.pcb = p]
      /\ UNCHANGED <<listos, bloqueados, saliendo, aperturas>>
  BY <1>a, <1>b, <1>c, <1>d, <1>e DEF CortoEliminaLock, Sigue, Entrada
<1>2. fallo' \in BOOLEAN
  BY DEF CortoEliminaLock, Usa
<1>3. PICK s \in AvisosAlSoltar(k, m0) :
        espera' = [q \in Procesos |-> IF q \in s THEN [espera[q] EXCEPT !.pc = "despierta"]
                                                 ELSE espera[q]]
  BY <1>a, <1>b, <1>c, <1>d DEF CortoEliminaLock
<1>4. /\ p \in Procesos /\ p \notin listos \cup saliendo /\ espera[p].pc = "nada"
      /\ u \in DOMAIN abiertos[p] /\ ~abiertos[p][u].libre /\ abiertos[p][u].modo = m0
      /\ m0 \in Modos
  BY <1>a, <1>b, <1>c, <1>1 DEF Manos, ConPcb, TipoCorto, Cortos
<1>5. /\ k \in Lugares /\ Entrada(k) \in Entradas /\ abiertos[p] \in Seq(Abiertos)
      /\ Entrada(k).lectores \in Nat /\ Entrada(k).escritores \in Nat
  <2>1. k \in Lugares /\ abiertos[p] \in Seq(Abiertos)
    BY <1>d, <1>4, EnLista
  <2> QED
    BY <2>1, EnTabla DEF Entradas
\* Who is counted: p at k, with its mode, until now.
<1>6. /\ DOMAIN abiertos' = Procesos
      /\ \A q \in Procesos : q # p => abiertos'[q] = abiertos[q]
      /\ abiertos'[p] = [abiertos[p] EXCEPT ![u] = [abiertos[p][u] EXCEPT !.libre = TRUE]]
  BY <1>1, <1>4 DEF TipoAbiertos
<1>f. PICK w : w = [abiertos[p][u] EXCEPT !.libre = TRUE]
  OBVIOUS
<1>7. w \in Abiertos /\ w.e = k /\ w.modo = m0 /\ w.libre
  BY <1>d, <1>f, <1>4, EnLista, AlLiberar
<1>8. /\ DOMAIN abiertos'[p] = DOMAIN abiertos[p]
      /\ \A i \in DOMAIN abiertos[p] : i # u => abiertos'[p][i] = abiertos[p][i]
      /\ abiertos'[p][u] = w
  BY <1>f, <1>4, <1>5, <1>6
<1>9. \A q \in Procesos : /\ DOMAIN abiertos'[q] = DOMAIN abiertos[q]
                          /\ \A i \in DOMAIN abiertos[q] :
                               /\ abiertos'[q][i].e = abiertos[q][i].e
                               /\ abiertos'[q][i].modo = abiertos[q][i].modo
                               /\ abiertos[q][i].libre => abiertos'[q][i].libre
  BY <1>d, <1>4, <1>6, <1>7, <1>8
<1>10. \A q \in Procesos : \A j, m : Abierto(q, j, m)' => Abierto(q, j, m)
  <2> SUFFICES ASSUME NEW q \in Procesos, NEW j, NEW m, Abierto(q, j, m)'
               PROVE  Abierto(q, j, m)
    OBVIOUS
  <2>1. PICK i \in DOMAIN abiertos'[q] :
          abiertos'[q][i].e = j /\ abiertos'[q][i].modo = m /\ ~abiertos'[q][i].libre
    BY DEF Abierto
  <2> QED
    BY <1>9, <2>1 DEF Abierto
<1>11. ~Abierto(p, k, m0)'
  <2> SUFFICES ASSUME NEW i \in DOMAIN abiertos'[p], abiertos'[p][i].e = k,
                      abiertos'[p][i].modo = m0, ~abiertos'[p][i].libre
               PROVE  FALSE
    BY DEF Abierto
  <2>1. i \in DOMAIN abiertos[p] /\ i # u /\ abiertos'[p][i] = abiertos[p][i]
    BY <1>7, <1>8
  <2> QED
    BY <1>d, <1>4, <2>1, UnaPorLugar DEF Orden, Modos
<1>12. \A q, j : ~Pendiente(q, j) /\ ~Pendiente(q, j)'
  BY <1>1 DEF Pendiente, Reposo
<1>13. \A j, m : Contados(j, m)' \subseteq Contados(j, m)
  BY <1>10, <1>12 DEF Contados
<1>14. Contados(k, m0)' \subseteq Contados(k, m0) \ {p} /\ p \in Contados(k, m0)
  BY <1>d, <1>4, <1>11, <1>12, <1>13 DEF Contados, Abierto
\* The counters.
<1>15. /\ Cardinality(Contados(k, "R")) <= Entrada(k).lectores
       /\ Cardinality(Contados(k, "W")) <= Entrada(k).escritores
  BY <1>5 DEF Orden, Cuentan
<1>16. /\ \A j, m : /\ Cardinality(Contados(j, m)') \in Nat /\ Cardinality(Contados(j, m)) \in Nat
                    /\ Cardinality(Contados(j, m)') <= Cardinality(Contados(j, m))
                    /\ IsFiniteSet(Contados(j, m)')
       /\ Cardinality(Contados(k, m0)') + 1 <= Cardinality(Contados(k, m0))
  <2>1. \A j, m : IsFiniteSet(Contados(j, m)) /\ Cardinality(Contados(j, m)) \in Nat
    BY ContadosTipo
  <2>2. \A j, m : IsFiniteSet(Contados(j, m)')
                  /\ Cardinality(Contados(j, m)') <= Cardinality(Contados(j, m))
    BY <1>13, <2>1, FS_Subset
  <2>3. \A j, m : Cardinality(Contados(j, m)') \in Nat
    BY <2>2, FS_CardinalityType
  <2>4. /\ IsFiniteSet(Contados(k, m0) \ {p})
        /\ Cardinality(Contados(k, m0) \ {p}) = Cardinality(Contados(k, m0)) - 1
    BY <1>14, <2>1, FS_RemoveElement
  <2>5. Cardinality(Contados(k, m0)') <= Cardinality(Contados(k, m0) \ {p})
    BY <1>14, <2>4, FS_Subset
  <2> QED
    BY <2>1, <2>2, <2>3, <2>4, <2>5
<1>17. /\ x \in Entradas /\ x.archivo = Entrada(k).archivo
       /\ Cardinality(Contados(k, "R")') <= x.lectores
       /\ Cardinality(Contados(k, "W")') <= x.escritores
       /\ m0 = "R" => x.escritores = Entrada(k).escritores
  <2>1. x = [archivo |-> Entrada(k).archivo,
             lectores |-> IF m0 = "R" THEN Entrada(k).lectores - 1 ELSE Entrada(k).lectores,
             escritores |-> IF m0 = "W" THEN Entrada(k).escritores - 1 ELSE Entrada(k).escritores,
             lock |-> Entrada(k).lock]
    <3>1. -1 \in Int
      OBVIOUS
    <3>2. Entrada(k).lectores + (-1) = Entrada(k).lectores - 1
          /\ Entrada(k).escritores + (-1) = Entrada(k).escritores - 1
      BY <1>5
    <3> QED
      BY <1>e, <1>4, <1>5, <3>1, <3>2, CuentaEs
  <2>2. CASE m0 = "R"
    <3>1. x.lectores = Entrada(k).lectores - 1 /\ x.escritores = Entrada(k).escritores
      BY <2>1, <2>2
    <3>2. Cardinality(Contados(k, "R")') + 1 <= Entrada(k).lectores
      BY <1>5, <1>15, <1>16, <2>2
    <3>3. /\ Entrada(k).lectores - 1 \in Nat
          /\ Cardinality(Contados(k, "R")') <= Entrada(k).lectores - 1
      BY <1>5, <1>16, <3>2
    <3>4. Cardinality(Contados(k, "W")') <= Entrada(k).escritores
      BY <1>5, <1>15, <1>16
    <3> QED
      BY <1>5, <2>1, <3>1, <3>3, <3>4 DEF Entradas
  <2>3. CASE m0 = "W"
    <3>1. x.escritores = Entrada(k).escritores - 1 /\ x.lectores = Entrada(k).lectores
      BY <2>1, <2>3
    <3>2. Cardinality(Contados(k, "W")') + 1 <= Entrada(k).escritores
      BY <1>5, <1>15, <1>16, <2>3
    <3>3. /\ Entrada(k).escritores - 1 \in Nat
          /\ Cardinality(Contados(k, "W")') <= Entrada(k).escritores - 1
      BY <1>5, <1>16, <3>2
    <3>4. Cardinality(Contados(k, "R")') <= Entrada(k).lectores
      BY <1>5, <1>15, <1>16
    <3> QED
      BY <1>5, <2>1, <2>3, <3>1, <3>3, <3>4 DEF Entradas
  <2> QED
    BY <1>4, <2>2, <2>3 DEF Modos
<1>18. /\ tabla_archivos_global' \in Seq(Entradas) /\ Lugares' = Lugares
       /\ Abiertos' = Abiertos /\ Esperas' = Esperas
       /\ Entrada(k)' = x /\ \A j \in Lugares : j # k => Entrada(j)' = Entrada(j)
       /\ \A j \in Lugares : Entrada(j)'.archivo = Entrada(j).archivo
  BY <1>1, <1>5, <1>17, TablaCambia
\* Who is signalled was asleep.
<1>19. \A r \in s : r \in Procesos /\ espera[r].pc = "duerme"
  BY <1>3 DEF AvisosAlSoltar, Avisados, Durmiendo
<1>20. /\ TipoEspera'
       /\ \A q \in Procesos : /\ espera'[q].pc # "nada" <=> espera[q].pc # "nada"
                              /\ espera'[q].pc = "duerme" => espera[q].pc = "duerme"
                              /\ espera'[q].e = espera[q].e /\ espera'[q].modo = espera[q].modo
                              /\ q \in s => espera'[q].pc = "despierta"
  BY <1>3, <1>18, <1>19 DEF TipoEspera, Esperas
<1>21. corto' \in Cortos /\ corto'.pcb = p /\ corto'.pc = "ejecuta"
  BY <1>1, <1>4 DEF Cortos, Reposo, Modos
<1>22. TipoProcesos' /\ TipoTabla' /\ TipoCorto' /\ TipoResto'
  <2>1. TipoResto'
    BY <1>1, <1>2 DEF TipoResto
  <2>2. TipoTabla'
    BY <1>1, <1>5, <1>18 DEF TipoTabla
  <2> QED
    BY <1>1, <1>21, <2>1, <2>2 DEF TipoProcesos, TipoCorto, Cortos
<1>23. TipoAbiertos'
  <2>2. abiertos'[p] \in Seq(Abiertos)
    BY <1>f, <1>4, <1>5, <1>6, <1>7
  <2>3. \A q \in Procesos : abiertos'[q] \in Seq(Abiertos)
    BY <1>6, <2>2, EnLista
  <2>4. abiertos' = [q \in Procesos |-> abiertos'[q]]
    BY <1>1 DEF TipoAbiertos
  <2> QED
    BY <1>18, <2>3, <2>4 DEF TipoAbiertos
<1>24. Manos' /\ Esperando'
  <2>1. Manos'
    BY <1>1, <1>4, <1>20, <1>21 DEF Manos, ConPcb
  <2>2. \A q \in listos \cup saliendo : q \in Procesos
    BY DEF TipoProcesos
  <2>3. Esperando'
    BY <1>1, <1>18, <1>20, <2>2 DEF Esperando
  <2> QED
    BY <2>1, <2>3
<1>25. UnaPorArchivo'
  <2> SUFFICES ASSUME NEW q \in Procesos, NEW i \in DOMAIN abiertos'[q],
                      NEW j \in DOMAIN abiertos'[q],
                      abiertos'[q][i].modo # "G", ~abiertos'[q][i].libre,
                      abiertos'[q][j].modo # "G", ~abiertos'[q][j].libre,
                      NEW a, NEW b, a = abiertos'[q][i].e, b = abiertos'[q][j].e,
                      Entrada(a)'.archivo = Entrada(b)'.archivo
               PROVE  i = j
    BY DEF UnaPorArchivo, Entrada
  <2>1. /\ i \in DOMAIN abiertos[q] /\ abiertos[q][i].modo # "G" /\ ~abiertos[q][i].libre
        /\ j \in DOMAIN abiertos[q] /\ abiertos[q][j].modo # "G" /\ ~abiertos[q][j].libre
        /\ a = abiertos[q][i].e /\ b = abiertos[q][j].e
    BY <1>9
  <2>2. a \in Lugares /\ b \in Lugares
    BY <2>1, EnLista
  <2> QED
    BY <1>18, <2>1, <2>2 DEF Orden, UnaPorArchivo
<1>26. UnaEnUso'
  BY <1>1, <1>18 DEF Orden, UnaEnUso
<1>27. EsperaAbierta'
  <2> SUFFICES ASSUME NEW q \in Procesos, NEW j, NEW m, espera'[q].pc # "nada",
                      j = espera'[q].e, m = espera'[q].modo
               PROVE  Abierto(q, j, m)'
    BY DEF EsperaAbierta, Abierto
  <2>1. q # p /\ Abierto(q, j, m)
    BY <1>4, <1>20 DEF Orden, EsperaAbierta
  <2> QED
    BY <1>6, <2>1 DEF Abierto
<1>28. Cuentan'
  <2> SUFFICES ASSUME NEW j \in Lugares
               PROVE  /\ Cardinality(Contados(j, "R")') <= Entrada(j)'.lectores
                      /\ Cardinality(Contados(j, "W")') <= Entrada(j)'.escritores
    BY <1>18 DEF Cuentan
  <2>1. CASE j = k
    BY <1>17, <1>18, <2>1
  <2>2. CASE j # k
    <3>1. /\ Cardinality(Contados(j, "R")) <= Entrada(j).lectores
          /\ Cardinality(Contados(j, "W")) <= Entrada(j).escritores
          /\ Entrada(j)' = Entrada(j)
          /\ Entrada(j).lectores \in Nat /\ Entrada(j).escritores \in Nat
      BY <1>18, <2>2, EnTabla DEF Orden, Cuentan, Entradas
    <3> QED
      BY <1>16, <3>1
  <2> QED
    BY <2>1, <2>2
<1>29. Excluye'
  <2> SUFFICES ASSUME NEW j \in Lugares, NEW m \in Modos, NEW q \in Procesos, NEW r \in Procesos,
                      Dentro(q, j, "W")', Dentro(r, j, m)'
               PROVE  q = r
    BY <1>18 DEF Excluye, Modos
  <2>1. \A n \in Procesos : \A l : Dentro(n, j, l)' => Dentro(n, j, l)
    <3> SUFFICES ASSUME NEW n \in Procesos, NEW l, Dentro(n, j, l)'
                 PROVE  Dentro(n, j, l)
      OBVIOUS
    <3>1. Abierto(n, j, l)' /\ ~(espera'[n].pc # "nada" /\ espera'[n].e = j)
      BY DEF Dentro, Abierto
    <3> QED
      BY <1>1, <1>10, <1>20, <3>1 DEF Dentro, Abierto
  <2> QED
    BY <2>1 DEF Orden, Excluye
<1>30. \A j : Entregado(j)' <=> Entregado(j)
  <2> TAKE j
  <2>1. Entregado(j)' <=> \E q \in Procesos : \E i \in DOMAIN abiertos'[q] :
                            abiertos'[q][i].e = j /\ abiertos'[q][i].modo = "G"
    BY DEF Entregado
  <2> QED
    BY <1>9, <2>1 DEF Entregado
\* An entry is freed when nobody is counted.
<1>31. EntradaViva'
  <2> SUFFICES ASSUME NEW j \in liberadas', ~Entregado(j), NEW q \in Procesos
               PROVE  /\ ~(espera'[q].pc # "nada" /\ espera'[q].e = j)
                      /\ \A i \in DOMAIN abiertos'[q] :
                           abiertos'[q][i].e = j => abiertos'[q][i].libre
    BY <1>30 DEF EntradaViva
  <2>1. CASE j \in liberadas
    <3>1. /\ ~(espera[q].pc # "nada" /\ espera[q].e = j)
          /\ \A i \in DOMAIN abiertos[q] : abiertos[q][i].e = j => abiertos[q][i].libre
      BY <2>1 DEF Orden, EntradaViva
    <3> QED
      BY <1>9, <1>20, <3>1
  <2>2. CASE j \notin liberadas
    <3>1. j = k /\ x.lectores = 0 /\ x.escritores = 0
      BY <1>1, <2>2 DEF Cerrada
    <3>2. Cardinality(Contados(k, "R")') = 0 /\ Cardinality(Contados(k, "W")') = 0
      BY <1>16, <1>17, <3>1
    <3>3. \A m \in Modos : Contados(k, m)' = {}
      BY <1>16, <3>2, FS_EmptySet DEF Modos
    <3>4. \A m \in Modos : ~Abierto(q, k, m)'
      BY <1>12, <3>3 DEF Contados
    <3>5. ~(espera'[q].pc # "nada" /\ espera'[q].e = j)
      <4> SUFFICES ASSUME espera'[q].pc # "nada", espera'[q].e = j PROVE FALSE
        OBVIOUS
      <4>1. PICK m : m = espera'[q].modo
        OBVIOUS
      <4>2. m \in Modos
        BY <1>20, <4>1 DEF TipoEspera, Esperas
      <4>3. Abierto(q, k, m)'
        BY <1>27, <3>1, <4>1 DEF EsperaAbierta, Abierto
      <4> QED
        BY <3>4, <4>2, <4>3
    <3>6. ASSUME NEW i \in DOMAIN abiertos'[q], abiertos'[q][i].e = j PROVE abiertos'[q][i].libre
      <4>1. PICK m : m = abiertos'[q][i].modo
        OBVIOUS
      <4>2. i \in DOMAIN abiertos[q] /\ abiertos[q][i].e = j /\ abiertos[q][i].modo = m
        BY <1>9, <3>6, <4>1
      <4>3. m # "G" /\ m \in Modos
        BY <4>2, EnLista DEF Entregado
      <4> QED
        BY <3>1, <3>4, <3>6, <4>1, <4>3 DEF Abierto
    <3> QED
      BY <3>5, <3>6
  <2> QED
    BY <2>1, <2>2
\* A writer that leaves wakes up one of the readers, if all of them are asleep.
<1>32. LectorDespierto'
  <2> SUFFICES ASSUME NEW j \in Lugares, Entrada(j)'.escritores = 0,
                      ~Entregado(j), NEW q \in Procesos, espera'[q].pc # "nada",
                      espera'[q].e = j, espera'[q].modo = "R"
               PROVE  \E r \in Procesos : /\ espera'[r].pc # "nada" /\ espera'[r].e = j
                                          /\ espera'[r].modo = "R" /\ espera'[r].pc # "duerme"
    BY <1>18, <1>30 DEF LectorDespierto, Lugares
  <2>1. espera[q].pc # "nada" /\ espera[q].e = j /\ espera[q].modo = "R"
    BY <1>20
  <2>2. CASE j # k \/ m0 = "R"
    <3>1. Entrada(j).escritores = 0
      BY <1>17, <1>18, <2>2
    <3>2. PICK r \in Procesos : /\ espera[r].pc # "nada" /\ espera[r].e = j
                                /\ espera[r].modo = "R" /\ espera[r].pc # "duerme"
      BY <2>1, <3>1 DEF Orden, LectorDespierto, Lugares
    <3> QED
      BY <1>20, <3>2
  <2>3. CASE j = k /\ m0 = "W"
    <3>1. CASE Durmiendo(k, "R") = {}
      <4>1. espera[q].pc # "duerme"
        BY <2>1, <2>3, <3>1 DEF Durmiendo
      <4> QED
        BY <1>20, <2>1, <4>1
    <3>2. CASE Durmiendo(k, "R") # {}
      <4>1. PICK r \in Durmiendo(k, "R") : r \in s
        BY <1>3, <2>3, <3>2 DEF AvisosAlSoltar, Avisados
      <4>2. r \in Procesos /\ espera[r].pc = "duerme" /\ espera[r].e = k /\ espera[r].modo = "R"
        BY DEF Durmiendo
      <4>3. /\ espera'[r].pc = "despierta" /\ espera'[r].e = k /\ espera'[r].modo = "R"
        BY <1>20, <4>1, <4>2
      <4> QED
        BY <2>3, <4>2, <4>3
    <3> QED
      BY <3>1, <3>2
  <2> QED
    BY <1>4, <2>2, <2>3 DEF Modos
<1> QED
  BY <1>20, <1>22, <1>23, <1>24, <1>25, <1>26, <1>27, <1>28, <1>29, <1>31, <1>32 DEF Orden

\* A thread tries the lock.  Whoever waits has been counted, so a writer is never let in; a
\* reader is, when no writer is left.
LEMMA PasoEncola ==
  ASSUME Inv, NEW p \in Procesos, EncolarLock(p)
  PROVE  Inv'
<1> USE DEF Inv, Firme, Tipos
<1>a. PICK k : k = espera[p].e
  OBVIOUS
<1>b. PICK m0 : m0 = espera[p].modo
  OBVIOUS
<1>c. PICK oc : oc = Ocupado(k, m0)
  OBVIOUS
<1>d. PICK x : x = [Entrada(k) EXCEPT !.lock = ~oc]
  OBVIOUS
<1>1. /\ espera[p].pc \in {"mira", "despierta"}
      /\ tabla_archivos_global' = [tabla_archivos_global EXCEPT ![k].lock = ~oc]
      /\ UNCHANGED <<liberadas, corto, saliendo, aperturas>>
  BY <1>a, <1>b, <1>c DEF EncolarLock
<1>2. \/ /\ oc
         /\ espera' = [espera EXCEPT ![p].pc = "duerme"]
         /\ UNCHANGED <<listos, bloqueados, abiertos>>
      \/ /\ ~oc
         /\ espera' = [espera EXCEPT ![p] = Quieto]
         /\ abiertos' = [abiertos EXCEPT
              ![p] = Append(abiertos[p], [e |-> k, modo |-> "G", libre |-> FALSE])]
         /\ bloqueados' = bloqueados \ {p}
         /\ listos' = listos \cup {p}
  BY <1>a, <1>b, <1>c DEF EncolarLock
<1>3. fallo' \in BOOLEAN
  BY DEF EncolarLock, Usa
<1>4. /\ espera[p].pc # "nada" /\ p \notin listos \cup saliendo
      /\ k \in Lugares /\ m0 \in Modos /\ oc \in BOOLEAN
      /\ corto.pc \in ConPcb => corto.pcb # p
  BY <1>a, <1>b, <1>c, <1>1 DEF Esperando, Manos, TipoEspera, Esperas, Ocupado
<1>5. Entrada(k) \in Entradas /\ Entrada(k).lectores \in Nat /\ Entrada(k).escritores \in Nat
  BY <1>4, EnTabla DEF Entradas
<1>6. /\ x \in Entradas /\ x.archivo = Entrada(k).archivo
      /\ x.lectores = Entrada(k).lectores /\ x.escritores = Entrada(k).escritores
  BY <1>d, <1>4, <1>5 DEF Entradas
<1>7. tabla_archivos_global' = [tabla_archivos_global EXCEPT ![k] = x]
  BY <1>d, <1>1 DEF Entrada
<1>8. /\ tabla_archivos_global' \in Seq(Entradas) /\ Lugares' = Lugares
      /\ Abiertos' = Abiertos /\ Esperas' = Esperas
      /\ \A j \in Lugares : /\ Entrada(j)'.archivo = Entrada(j).archivo
                            /\ Entrada(j)'.lectores = Entrada(j).lectores
                            /\ Entrada(j)'.escritores = Entrada(j).escritores
  BY <1>4, <1>6, <1>7, TablaCambia
\* The lock is free only to a reader, and no writer is in.
<1>9. p \in Contados(k, m0)
  BY <1>a, <1>b, <1>4, EstaContado DEF Orden
<1>10. ~oc => m0 = "R" /\ Contados(k, "W") = {}
  <2>1. ~oc => ~(Entrada(k).escritores > 0)
    BY <1>c DEF Ocupado
  <2>2. ~oc => Entrada(k).escritores = 0
    BY <1>5, <2>1
  <2>3. ~oc => Contados(k, "W") = {}
    BY <1>4, <2>2, NadieContado DEF Orden
  <2> QED
    BY <1>4, <1>9, <2>3 DEF Modos
<1>11. /\ \A q \in Procesos : q # p => espera'[q] = espera[q]
       /\ oc => /\ espera'[p].pc = "duerme" /\ espera'[p].e = k /\ espera'[p].modo = m0
       /\ ~oc => espera'[p].pc = "nada"
       /\ TipoEspera'
  BY <1>a, <1>b, <1>2, <1>8 DEF TipoEspera, Esperas, Quieto, Modos
<1>12. PICK g : g = [e |-> k, modo |-> "G", libre |-> FALSE]
  OBVIOUS
<1>13. g \in Abiertos /\ g.e = k /\ g.modo = "G"
  BY <1>4, <1>12 DEF Abiertos
<1>14. /\ DOMAIN abiertos' = Procesos
       /\ \A q \in Procesos : q # p \/ oc => abiertos'[q] = abiertos[q]
       /\ ~oc => abiertos'[p] = Append(abiertos[p], g)
  BY <1>2, <1>12 DEF TipoAbiertos
<1>15. /\ \A q \in Procesos : /\ DOMAIN abiertos[q] \subseteq DOMAIN abiertos'[q]
                              /\ \A i \in DOMAIN abiertos[q] : abiertos'[q][i] = abiertos[q][i]
                              /\ \A i \in DOMAIN abiertos'[q] \ DOMAIN abiertos[q] :
                                   q = p /\ ~oc /\ abiertos'[q][i] = g
       /\ ~oc => \E i \in DOMAIN abiertos'[p] : abiertos'[p][i] = g
       /\ \A q \in Procesos : abiertos'[q] \in Seq(Abiertos)
  <2> SUFFICES ASSUME NEW q \in Procesos
               PROVE  /\ DOMAIN abiertos[q] \subseteq DOMAIN abiertos'[q]
                      /\ \A i \in DOMAIN abiertos[q] : abiertos'[q][i] = abiertos[q][i]
                      /\ \A i \in DOMAIN abiertos'[q] \ DOMAIN abiertos[q] :
                           q = p /\ ~oc /\ abiertos'[q][i] = g
                      /\ abiertos'[q] \in Seq(Abiertos)
                      /\ ~oc /\ q = p => \E i \in DOMAIN abiertos'[q] : abiertos'[q][i] = g
    OBVIOUS
  <2>1. /\ abiertos[q] \in Seq(Abiertos) /\ Len(abiertos[q]) \in Nat
        /\ DOMAIN abiertos[q] = 1 .. Len(abiertos[q])
    BY EnLista
  <2>2. CASE q # p \/ oc
    BY <1>14, <2>1, <2>2
  <2>3. CASE q = p /\ ~oc
    <3>1. /\ abiertos'[p] \in Seq(Abiertos) /\ Len(abiertos'[p]) = Len(abiertos[p]) + 1
          /\ DOMAIN abiertos'[p] = 1 .. Len(abiertos[p]) + 1
          /\ \A i \in 1 .. Len(abiertos[p]) : abiertos'[p][i] = abiertos[p][i]
          /\ abiertos'[p][Len(abiertos[p]) + 1] = g
      BY <1>13, <1>14, <2>1, <2>3
    <3> QED
      BY <2>1, <2>3, <3>1
  <2> QED
    BY <2>2, <2>3
<1>16. TipoAbiertos'
  <2>1. abiertos' = [q \in Procesos |-> abiertos'[q]]
    BY <1>2 DEF TipoAbiertos
  <2> QED
    BY <1>8, <1>15, <2>1 DEF TipoAbiertos
<1>17. TipoProcesos' /\ TipoTabla' /\ TipoCorto' /\ TipoResto'
  <2>1. TipoResto'
    BY <1>1, <1>3 DEF TipoResto
  <2>2. TipoTabla'
    BY <1>1, <1>8 DEF TipoTabla
  <2>3. TipoProcesos'
    BY <1>1, <1>2 DEF TipoProcesos
  <2> QED
    BY <1>1, <2>1, <2>2, <2>3 DEF TipoCorto, Cortos
<1>18. \A q \in Procesos : q # p => (q \in listos' <=> q \in listos)
  BY <1>2
<1>19. Manos'
  <2>1. corto.pc \in ConPcb => /\ corto.pcb \in Procesos /\ corto.pcb # p
                               /\ corto.pcb \notin listos' \cup saliendo
                               /\ espera'[corto.pcb] = espera[corto.pcb]
                               /\ abiertos'[corto.pcb] = abiertos[corto.pcb]
    BY <1>4, <1>11, <1>14, <1>18 DEF Manos
  <2> QED
    BY <1>1, <1>8, <2>1 DEF Manos, ConPcb
<1>20. Esperando'
  <2>1. oc => listos' = listos
    BY <1>2
  <2>2. ~oc => listos' = listos \cup {p}
    BY <1>2
  <2>3. listos' \cap saliendo' = {}
    BY <1>1, <1>4, <2>1, <2>2 DEF Esperando
  <2>4. \A q \in listos' \cup saliendo' : espera'[q].pc = "nada"
    BY <1>1, <1>4, <1>11, <2>1, <2>2 DEF Esperando, TipoProcesos
  <2>5. \A q \in Procesos : espera'[q].pc # "nada" => espera'[q].e \in Lugares'
    BY <1>4, <1>8, <1>11 DEF Esperando
  <2> QED
    BY <2>3, <2>4, <2>5 DEF Esperando
\* Who is counted does not change.
<1>21. \A q \in Procesos : \A j : \A m \in Modos : Abierto(q, j, m)' <=> Abierto(q, j, m)
  <2> SUFFICES ASSUME NEW q \in Procesos, NEW j, NEW m \in Modos
               PROVE  Abierto(q, j, m)' <=> Abierto(q, j, m)
    OBVIOUS
  <2>1. Abierto(q, j, m)' <=> \E i \in DOMAIN abiertos'[q] :
          abiertos'[q][i].e = j /\ abiertos'[q][i].modo = m /\ ~abiertos'[q][i].libre
    BY DEF Abierto
  <2> QED
    BY <1>13, <1>15, <2>1 DEF Abierto, Modos
<1>22. \A q, j : Pendiente(q, j)' <=> Pendiente(q, j)
  BY <1>1 DEF Pendiente
<1>23. \A j : \A m \in Modos : Contados(j, m)' = Contados(j, m)
  BY <1>21, <1>22 DEF Contados
<1>24. UnaPorArchivo'
  <2> SUFFICES ASSUME NEW q \in Procesos, NEW i \in DOMAIN abiertos'[q],
                      NEW j \in DOMAIN abiertos'[q],
                      abiertos'[q][i].modo # "G", ~abiertos'[q][i].libre,
                      abiertos'[q][j].modo # "G", ~abiertos'[q][j].libre,
                      NEW a, NEW b, a = abiertos'[q][i].e, b = abiertos'[q][j].e,
                      Entrada(a)'.archivo = Entrada(b)'.archivo
               PROVE  i = j
    BY DEF UnaPorArchivo, Entrada
  <2>1. /\ i \in DOMAIN abiertos[q] /\ abiertos[q][i].modo # "G" /\ ~abiertos[q][i].libre
        /\ j \in DOMAIN abiertos[q] /\ abiertos[q][j].modo # "G" /\ ~abiertos[q][j].libre
        /\ a = abiertos[q][i].e /\ b = abiertos[q][j].e
    BY <1>13, <1>15
  <2>2. a \in Lugares /\ b \in Lugares
    BY <2>1, EnLista
  <2> QED
    BY <1>8, <2>1, <2>2 DEF Orden, UnaPorArchivo
<1>25. UnaEnUso'
  BY <1>1, <1>8 DEF Orden, UnaEnUso
<1>26. EsperaAbierta'
  <2> SUFFICES ASSUME NEW q \in Procesos, NEW j, NEW m, espera'[q].pc # "nada",
                      j = espera'[q].e, m = espera'[q].modo
               PROVE  Abierto(q, j, m)'
    BY DEF EsperaAbierta, Abierto
  <2>1. j = espera[q].e /\ m = espera[q].modo /\ espera[q].pc # "nada"
    BY <1>a, <1>b, <1>4, <1>11
  <2>2. m \in Modos
    BY <2>1 DEF TipoEspera, Esperas
  <2> QED
    BY <1>21, <2>1, <2>2 DEF Orden, EsperaAbierta
<1>27. Cuentan'
  <2> SUFFICES ASSUME NEW j \in Lugares
               PROVE  /\ Cardinality(Contados(j, "R")') <= Entrada(j)'.lectores
                      /\ Cardinality(Contados(j, "W")') <= Entrada(j)'.escritores
    BY <1>8 DEF Cuentan
  <2> QED
    BY <1>8, <1>23 DEF Orden, Cuentan, Modos
<1>28. \A q \in Procesos : \A j : \A m \in Modos :
         Dentro(q, j, m)' => Dentro(q, j, m) \/ (q = p /\ j = k /\ ~oc /\ Abierto(p, k, m))
  <2> SUFFICES ASSUME NEW q \in Procesos, NEW j, NEW m \in Modos, Dentro(q, j, m)'
               PROVE  Dentro(q, j, m) \/ (q = p /\ j = k /\ ~oc /\ Abierto(p, k, m))
    OBVIOUS
  <2>1. /\ Abierto(q, j, m)' /\ ~(espera'[q].pc # "nada" /\ espera'[q].e = j)
        /\ ~(corto.pc = "abre" /\ corto.pcb = q /\ corto.e = j)
    BY <1>1 DEF Dentro, Abierto
  <2>2. Abierto(q, j, m)
    BY <1>21, <2>1
  <2>3. CASE q # p \/ j # k
    <3>1. ~(espera[q].pc # "nada" /\ espera[q].e = j)
      BY <1>a, <1>11, <2>1, <2>3
    <3> QED
      BY <2>1, <2>2, <3>1 DEF Dentro, Abierto
  <2>4. CASE q = p /\ j = k
    BY <1>11, <2>1, <2>2, <2>4
  <2> QED
    BY <2>3, <2>4
<1>29. Excluye'
  <2> SUFFICES ASSUME NEW j \in Lugares, NEW m \in Modos, NEW q \in Procesos, NEW r \in Procesos,
                      Dentro(q, j, "W")', Dentro(r, j, m)', q # r
               PROVE  FALSE
    BY <1>8 DEF Excluye, Modos
  <2>0. "W" \in Modos
    BY DEF Modos
  <2>1. \A n \in Procesos : Dentro(n, k, "W") => n \in Contados(k, "W")
    BY EstaContado DEF Orden
  <2>2. CASE Dentro(q, j, "W") /\ Dentro(r, j, m)
    BY <2>2 DEF Orden, Excluye
  <2>3. CASE q = p /\ j = k /\ ~oc /\ Abierto(p, k, "W")
    <3>1. ~Pendiente(p, k)
      BY <1>4 DEF Pendiente, ConPcb
    <3>2. p \in Contados(k, "W")
      BY <2>3, <3>1 DEF Contados
    <3> QED
      BY <1>10, <2>3, <3>2
  <2>4. CASE r = p /\ j = k /\ ~oc /\ Dentro(q, j, "W")
    BY <1>10, <2>1, <2>4
  <2> QED
    BY <1>28, <2>0, <2>2, <2>3, <2>4
\* The entry of the thread that goes on is handed over.
<1>30. \A j : Entregado(j)' <=> Entregado(j) \/ (j = k /\ ~oc)
  <2> TAKE j
  <2>1. Entregado(j)' <=> \E q \in Procesos : \E i \in DOMAIN abiertos'[q] :
                            abiertos'[q][i].e = j /\ abiertos'[q][i].modo = "G"
    BY DEF Entregado
  <2> QED
    BY <1>13, <1>15, <2>1 DEF Entregado
<1>31. EntradaViva'
  <2> SUFFICES ASSUME NEW j \in liberadas, ~Entregado(j), ~(j = k /\ ~oc), NEW q \in Procesos
               PROVE  /\ ~(espera'[q].pc # "nada" /\ espera'[q].e = j)
                      /\ \A i \in DOMAIN abiertos'[q] :
                           abiertos'[q][i].e = j => abiertos'[q][i].libre
    BY <1>1, <1>30 DEF EntradaViva
  <2>1. /\ ~(espera[q].pc # "nada" /\ espera[q].e = j)
        /\ \A i \in DOMAIN abiertos[q] : abiertos[q][i].e = j => abiertos[q][i].libre
    BY DEF Orden, EntradaViva
  <2>2. ~(espera'[q].pc # "nada" /\ espera'[q].e = j)
    BY <1>a, <1>4, <1>11, <2>1
  <2> QED
    BY <1>13, <1>15, <2>1, <2>2
<1>32. LectorDespierto'
  <2> SUFFICES ASSUME NEW j \in Lugares, Entrada(j)'.escritores = 0,
                      ~Entregado(j), ~(j = k /\ ~oc), NEW q \in Procesos, espera'[q].pc # "nada",
                      espera'[q].e = j, espera'[q].modo = "R"
               PROVE  \E r \in Procesos : /\ espera'[r].pc # "nada" /\ espera'[r].e = j
                                          /\ espera'[r].modo = "R" /\ espera'[r].pc # "duerme"
    BY <1>8, <1>30 DEF LectorDespierto, Lugares
  <2>1. Entrada(j).escritores = 0
    BY <1>8
  <2>2. espera[q].pc # "nada" /\ espera[q].e = j /\ espera[q].modo = "R"
    BY <1>a, <1>b, <1>4, <1>11
  <2>3. PICK r \in Procesos : /\ espera[r].pc # "nada" /\ espera[r].e = j
                              /\ espera[r].modo = "R" /\ espera[r].pc # "duerme"
    BY <2>1, <2>2 DEF Orden, LectorDespierto, Lugares
  <2>4. r # p
    <3> SUFFICES ASSUME r = p PROVE FALSE
      OBVIOUS
    <3>1. j = k /\ m0 = "R" /\ oc
      BY <1>a, <1>b, <1>4, <2>3
    <3>2. Entrada(k).escritores > 0
      BY <1>c, <3>1 DEF Ocupado
    <3> QED
      BY <1>5, <2>1, <3>1, <3>2
  <2> QED
    BY <1>11, <2>3, <2>4
<1> QED
  BY <1>11, <1>16, <1>17, <1>19, <1>20, <1>24, <1>25, <1>26, <1>27, <1>29, <1>31, <1>32 DEF Orden

\* The table of a process that ends: its entries go, and the ones it waited for with them.
LEMMA PasoBorra ==
  ASSUME Inv, NEW p \in Procesos, BorrarTabla(p)
  PROVE  Inv'
<1> USE DEF Inv, Firme, Tipos
<1> DEFINE globales == {x.e : x \in {y \in ToSet(abiertos[p]) : y.modo = "G"}}
<1>1. /\ p \in saliendo /\ saliendo' = saliendo \ {p}
      /\ liberadas' = liberadas \cup globales
      /\ abiertos' = [abiertos EXCEPT ![p] =
           [i \in DOMAIN abiertos[p] |-> [abiertos[p][i] EXCEPT !.libre = TRUE]]]
      /\ UNCHANGED <<listos, bloqueados, tabla_archivos_global, espera, corto, aperturas>>
  BY DEF BorrarTabla
<1>2. fallo' \in BOOLEAN
  BY DEF BorrarTabla, Usa
<1>3. espera[p].pc = "nada" /\ (corto.pc \in ConPcb => corto.pcb # p)
  BY <1>1 DEF Esperando, Manos
<1>4. /\ DOMAIN abiertos' = Procesos
      /\ \A q \in Procesos : q # p => abiertos'[q] = abiertos[q]
      /\ abiertos'[p] = [i \in DOMAIN abiertos[p] |-> [abiertos[p][i] EXCEPT !.libre = TRUE]]
  BY <1>1 DEF TipoAbiertos
<1>5. \A i \in DOMAIN abiertos[p] :
        /\ abiertos'[p][i] \in Abiertos /\ abiertos'[p][i].e = abiertos[p][i].e
        /\ abiertos'[p][i].modo = abiertos[p][i].modo /\ abiertos'[p][i].libre
  <2> SUFFICES ASSUME NEW i \in DOMAIN abiertos[p]
               PROVE  /\ abiertos'[p][i] \in Abiertos /\ abiertos'[p][i].e = abiertos[p][i].e
                      /\ abiertos'[p][i].modo = abiertos[p][i].modo /\ abiertos'[p][i].libre
    OBVIOUS
  <2>1. PICK b \in Abiertos : b = abiertos[p][i]
    BY EnLista
  <2>2. abiertos'[p][i] = [b EXCEPT !.libre = TRUE]
    BY <1>4, <2>1
  <2> QED
    BY <2>1, <2>2, AlLiberar
<1>6. \A q \in Procesos : /\ DOMAIN abiertos'[q] = DOMAIN abiertos[q]
                          /\ \A i \in DOMAIN abiertos[q] :
                               /\ abiertos'[q][i].e = abiertos[q][i].e
                               /\ abiertos'[q][i].modo = abiertos[q][i].modo
                               /\ abiertos[q][i].libre => abiertos'[q][i].libre
                               /\ q = p => abiertos'[q][i].libre
  BY <1>4, <1>5
<1>7. \A q \in Procesos : \A j, m : Abierto(q, j, m)' => Abierto(q, j, m)
  <2> SUFFICES ASSUME NEW q \in Procesos, NEW j, NEW m, Abierto(q, j, m)'
               PROVE  Abierto(q, j, m)
    OBVIOUS
  <2>1. PICK i \in DOMAIN abiertos'[q] :
          abiertos'[q][i].e = j /\ abiertos'[q][i].modo = m /\ ~abiertos'[q][i].libre
    BY DEF Abierto
  <2> QED
    BY <1>6, <2>1 DEF Abierto
<1>8. \A j : Entregado(j)' <=> Entregado(j)
  <2> TAKE j
  <2>1. Entregado(j)' <=> \E q \in Procesos : \E i \in DOMAIN abiertos'[q] :
                            abiertos'[q][i].e = j /\ abiertos'[q][i].modo = "G"
    BY DEF Entregado
  <2> QED
    BY <1>6, <2>1 DEF Entregado
\* What it frees was handed over to it.
<1>9. globales \subseteq Lugares /\ \A j \in globales : Entregado(j)
  <2> SUFFICES ASSUME NEW j \in globales PROVE j \in Lugares /\ Entregado(j)
    OBVIOUS
  <2>1. PICK i \in DOMAIN abiertos[p] : abiertos[p][i].modo = "G" /\ abiertos[p][i].e = j
    BY DEF ToSet
  <2> QED
    BY <2>1, EnLista DEF Entregado
<1> HIDE DEF globales
<1>10. Lugares' = Lugares /\ Abiertos' = Abiertos /\ Esperas' = Esperas
  BY <1>1 DEF Lugares, Abiertos, Esperas
<1>11. TipoAbiertos'
  <2>2. abiertos'[p] \in Seq(Abiertos)
    <3>1. DOMAIN abiertos[p] = 1 .. Len(abiertos[p]) /\ Len(abiertos[p]) \in Nat
      BY EnLista
    <3>2. abiertos'[p] \in [1 .. Len(abiertos[p]) -> Abiertos]
      BY <1>4, <1>5, <3>1
    <3> QED
      BY <3>1, <3>2
  <2>3. \A q \in Procesos : abiertos'[q] \in Seq(Abiertos)
    BY <1>4, <2>2, EnLista
  <2>4. abiertos' = [q \in Procesos |-> abiertos'[q]]
    BY <1>1 DEF TipoAbiertos
  <2> QED
    BY <1>10, <2>3, <2>4 DEF TipoAbiertos
<1>12. TipoProcesos' /\ TipoTabla' /\ TipoEspera' /\ TipoCorto' /\ TipoResto'
  <2>1. TipoResto'
    BY <1>1, <1>2 DEF TipoResto
  <2>2. TipoTabla'
    BY <1>1, <1>9, <1>10 DEF TipoTabla
  <2>3. TipoProcesos' /\ TipoEspera'
    BY <1>1, <1>10 DEF TipoProcesos, TipoEspera
  <2> QED
    BY <1>1, <2>1, <2>2, <2>3 DEF TipoCorto, Cortos
<1>13. Manos'
  <2>1. corto.pc \in ConPcb => abiertos'[corto.pcb] = abiertos[corto.pcb]
    BY <1>3, <1>4 DEF Manos
  <2> QED
    BY <1>1, <1>10, <2>1 DEF Manos, ConPcb
<1>14. Esperando'
  BY <1>1, <1>10 DEF Esperando
<1>15. UnaPorArchivo'
  <2> SUFFICES ASSUME NEW q \in Procesos, NEW i \in DOMAIN abiertos'[q],
                      NEW j \in DOMAIN abiertos'[q],
                      abiertos'[q][i].modo # "G", ~abiertos'[q][i].libre,
                      abiertos'[q][j].modo # "G", ~abiertos'[q][j].libre,
                      NEW a, NEW b, a = abiertos'[q][i].e, b = abiertos'[q][j].e,
                      Entrada(a)'.archivo = Entrada(b)'.archivo
               PROVE  i = j
    BY DEF UnaPorArchivo, Entrada
  <2>1. /\ i \in DOMAIN abiertos[q] /\ abiertos[q][i].modo # "G" /\ ~abiertos[q][i].libre
        /\ j \in DOMAIN abiertos[q] /\ abiertos[q][j].modo # "G" /\ ~abiertos[q][j].libre
        /\ a = abiertos[q][i].e /\ b = abiertos[q][j].e
    BY <1>6
  <2>2. Entrada(a).archivo = Entrada(b).archivo
    BY <1>1 DEF Entrada
  <2> QED
    BY <2>1, <2>2 DEF Orden, UnaPorArchivo
<1>16. UnaEnUso'
  BY <1>1, <1>10 DEF Orden, UnaEnUso, Entrada
<1>17. EsperaAbierta'
  <2> SUFFICES ASSUME NEW q \in Procesos, espera[q].pc # "nada"
               PROVE  Abierto(q, espera[q].e, espera[q].modo)'
    BY <1>1 DEF EsperaAbierta, Abierto
  <2>1. q # p /\ Abierto(q, espera[q].e, espera[q].modo)
    BY <1>3 DEF Orden, EsperaAbierta
  <2> QED
    BY <1>1, <1>4, <2>1 DEF Abierto
<1>18. \A j, m : Contados(j, m)' \subseteq Contados(j, m)
  BY <1>1, <1>7 DEF Contados, Pendiente
<1>19. Cuentan'
  <2> SUFFICES ASSUME NEW j \in Lugares
               PROVE  /\ Cardinality(Contados(j, "R")') <= Entrada(j).lectores
                      /\ Cardinality(Contados(j, "W")') <= Entrada(j).escritores
    BY <1>1, <1>10 DEF Cuentan, Entrada
  <2>1. \A m : /\ Cardinality(Contados(j, m)') \in Nat /\ Cardinality(Contados(j, m)) \in Nat
               /\ Cardinality(Contados(j, m)') <= Cardinality(Contados(j, m))
    <3> TAKE m
    <3>1. IsFiniteSet(Contados(j, m)) /\ Cardinality(Contados(j, m)) \in Nat
      BY ContadosTipo
    <3>2. /\ IsFiniteSet(Contados(j, m)')
          /\ Cardinality(Contados(j, m)') <= Cardinality(Contados(j, m))
      BY <1>18, <3>1, FS_Subset
    <3> QED
      BY <3>1, <3>2, FS_CardinalityType
  <2>2. /\ Cardinality(Contados(j, "R")) <= Entrada(j).lectores
        /\ Cardinality(Contados(j, "W")) <= Entrada(j).escritores
        /\ Entrada(j).lectores \in Nat /\ Entrada(j).escritores \in Nat
    BY EnTabla DEF Orden, Cuentan, Entradas
  <2> QED
    BY <2>1, <2>2
<1>20. Excluye'
  <2> SUFFICES ASSUME NEW j \in Lugares, NEW m \in Modos, NEW q \in Procesos, NEW r \in Procesos,
                      Dentro(q, j, "W")', Dentro(r, j, m)'
               PROVE  q = r
    BY <1>10 DEF Excluye, Modos
  <2>1. \A n \in Procesos : \A l : Dentro(n, j, l)' => Dentro(n, j, l)
    BY <1>1, <1>7 DEF Dentro, Abierto
  <2> QED
    BY <2>1 DEF Orden, Excluye
<1>21. EntradaViva'
  <2> SUFFICES ASSUME NEW j \in liberadas', ~Entregado(j), NEW q \in Procesos
               PROVE  /\ ~(espera[q].pc # "nada" /\ espera[q].e = j)
                      /\ \A i \in DOMAIN abiertos'[q] :
                           abiertos'[q][i].e = j => abiertos'[q][i].libre
    BY <1>1, <1>8 DEF EntradaViva
  <2>1. j \in liberadas
    BY <1>1, <1>9
  <2>2. /\ ~(espera[q].pc # "nada" /\ espera[q].e = j)
        /\ \A i \in DOMAIN abiertos[q] : abiertos[q][i].e = j => abiertos[q][i].libre
    BY <2>1 DEF Orden, EntradaViva
  <2> QED
    BY <1>6, <2>2
<1>22. LectorDespierto'
  BY <1>1, <1>8 DEF Orden, LectorDespierto, Entrada
<1> QED
  BY <1>11, <1>12, <1>13, <1>14, <1>15, <1>16, <1>17, <1>19, <1>20, <1>21, <1>22 DEF Orden

-----------------------------------------------------------------------------
(* The theorems *)

LEMMA InvInductivo == Inv /\ [Next]_vars => Inv'
<1> SUFFICES ASSUME Inv, [Next]_vars PROVE Inv'
  OBVIOUS
<1>1. CASE UNCHANGED vars
  <2> USE DEF Inv, Firme, Tipos
  <2>1. TipoTabla' /\ Lugares' = Lugares /\ Abiertos' = Abiertos /\ Esperas' = Esperas
    BY <1>1, IgualTabla DEF vars
  <2>2. TipoProcesos' /\ TipoAbiertos' /\ TipoEspera' /\ TipoCorto' /\ TipoResto'
    BY <1>1, <2>1 DEF vars, TipoProcesos, TipoAbiertos, TipoEspera, TipoCorto, Cortos, TipoResto
  <2>3. Manos' /\ Esperando'
    BY <1>1, <2>1 DEF vars, Manos, Esperando
  <2>4. Orden'
    BY <1>1, OrdenAjeno DEF vars
  <2> QED
    BY <2>1, <2>2, <2>3, <2>4
<1>2. CASE \E p \in Procesos : CortoElige(p)
  BY <1>2, PasoElige
<1>3. CASE \E f \in Archivos, modo \in Modos : CortoAbre(f, modo)
  BY <1>3, PasoAbre
<1>4. CASE \E f \in Archivos : CortoCierra(f)
  BY <1>4, PasoCierra
<1>5. CASE CortoCreaLock \/ CortoBloquea \/ CortoEliminaLock \/ CortoFinaliza \/ CortoDesaloja
  BY <1>5, PasoCreaLock, PasoBloquea, PasoEliminaLock, PasoFinaliza, PasoDesaloja
<1>6. CASE \E p \in Procesos : EncolarLock(p) \/ EncolarEspurio(p) \/ BorrarTabla(p)
  BY <1>6, PasoEncola, PasoEspurio, PasoBorra
<1> QED
  BY <1>1, <1>2, <1>3, <1>4, <1>5, <1>6 DEF Next, Corto

LEMMA InvSiempre == Spec => []Inv
<1>1. Init => Inv
  BY InvInicial
<1>2. Inv /\ [Next]_vars => Inv'
  BY InvInductivo
<1> QED
  BY <1>1, <1>2, PTL DEF Spec

\* The variables of the file tables always have their types, for any number of processes,
\* files and F_OPEN instructions.
THEOREM TipoTeorema == Spec => []TipoOK
BY InvSiempre, InvTipo, PTL

\* Two processes never have the same file open for writing at once, nor one for writing and
\* the other for reading (crear_lock_*, eliminar_lock_*, encolar_lock_*), until an entry is
\* handed to a waiter.  Who is in is counted in the lock, and a file has one entry in use.
THEOREM ExclusivaTeorema == Spec => []EscrituraExclusiva
<1>1. Inv => EscrituraExclusiva
  <2> SUFFICES ASSUME Inv, NEW p \in Procesos, NEW q \in Procesos,
                      NEW j \in Lugares, NEW k \in Lugares,
                      NEW m \in Modos, Dentro(p, j, "W"), Dentro(q, k, m),
                      Entrada(j).archivo = Entrada(k).archivo,
                      j = k \/ ~(Entregado(j) \/ Entregado(k))
               PROVE  p = q
    BY DEF EscrituraExclusiva, Lugares
  <2>1. CASE j = k
    BY <2>1 DEF Inv, Orden, Excluye
  <2>2. CASE j # k
    <3>1. j \notin liberadas
      BY <2>2 DEF Inv, Orden, EntradaViva, Dentro
    <3>2. k \notin liberadas
      BY <2>2 DEF Inv, Orden, EntradaViva, Dentro
    <3> QED
      BY <2>2, <3>1, <3>2 DEF Inv, Orden, UnaEnUso
  <2> QED
    BY <2>1, <2>2
<1> QED
  BY <1>1, InvSiempre, PTL

\* eliminar_lock_* frees an entry only when nobody has the file open nor waits for it, until
\* the entry is handed to a waiter.
THEOREM EntradaTeorema == Spec => []EntradaViva
<1>1. Inv => EntradaViva
  BY DEF Inv, Orden
<1> QED
  BY <1>1, InvSiempre, PTL

\* The signals of eliminar_lock_* lose no wake-up of encolar_lock_lectura: with no writer left,
\* one at least of the readers who wait is awake, until the first of them is let in.
THEOREM LectorTeorema == Spec => []LectorDespierto
<1>1. Inv => LectorDespierto
  BY DEF Inv, Orden
<1> QED
  BY <1>1, InvSiempre, PTL
=============================================================================
