--------------------------- MODULE MemoriaPruebas ---------------------------
(***************************************************************************)
(* Proofs about the frames and the page tables, for any number of          *)
(* processes, pages and frames and both algorithms.                        *)
(***************************************************************************)
EXTENDS Memoria, Lemas

-----------------------------------------------------------------------------
(* The type invariant: types, and what each thread has in its hands at     *)
(* each point, whatever the searches have found.                           *)

EtapasNucleo == {"libre", "busca1", "lee", "busca2", "trae", "elige", "escribe", "fin", "libera",
                 "quita"}
Nucleos == [pc : EtapasNucleo, p : Pid \cup {Nulo}, n : Nat, origen : Pid \cup {Nulo},
            q : Pid \cup {Nulo}, m : Marcos \cup {-1}]
Cpus == [pc : {"libre", "busca", "responde", "traducida", "marca", "copia"},
         op : {"INSTRUCCION", "SOLICITAR_VALOR", "READ", "WRITE"},
         p : Pid \cup {Nulo}, n : Nat, q : Pid \cup {Nulo}, m : Marcos \cup {-1}]

TipoTp ==
  /\ tp = [p \in Pid |-> tp[p]]
  /\ \A p \in Pid : tp[p] = <<>> \/ tp[p] \in [NroPag(p) -> Entradas]
TipoListas   == procesos \in Seq(Pid) /\ proximas_victimas \in Seq(Paginas)
TipoCuentas  == id \in 0 .. MaxProcesos /\ creados \in 0 .. MaxProcesos /\ reloj \in Nat
                /\ traducciones \in 0 .. MaxTraducciones
TipoCerrojos == mutex_procesos \in Nat /\ mutex_memoria = IF nucleo.pc = "escribe" THEN 0 ELSE 1
TipoHilos    == nucleo \in Nucleos /\ cpu \in Cpus
TipoExterno  == estado \in [Pid -> {"listo", "falta", "fin"}] /\ pagina_pf \in [Pid -> Nat]
TipoDatos    == copia \in [Paginas -> SUBSET {"marco", "swap"}] /\ cruzadas \subseteq Paginas
TipoResto    == algoritmo \in Algoritmos /\ marcos_libres \subseteq Marcos
                /\ pid_comparador \in Pid \cup {Nulo}
TipoLogico   == confundido \in BOOLEAN /\ fallo \in BOOLEAN

\* A process that has not been created has no table.
SinCrear == id <= creados /\ \A p \in Pid : p >= id => tp[p] = <<>>

\* The thread of the kernel: whose page it brings or whom it ends, in which table and frame.
Trayendo == {"busca1", "lee", "busca2", "trae", "elige", "escribe"}
EnNucleo ==
  /\ nucleo.pc # "libre" => nucleo.p \in Pid
  /\ nucleo.pc \in Trayendo => estado[nucleo.p] = "falta" /\ nucleo.n = pagina_pf[nucleo.p]
  /\ nucleo.pc \in {"fin", "libera", "quita"} => estado[nucleo.p] = "listo" /\ nucleo.n = 0
  /\ nucleo.pc \in {"trae", "elige", "escribe", "libera"} =>
       nucleo.q \in Pid /\ nucleo.n \in DOMAIN tp[nucleo.q]
  /\ nucleo.pc = "escribe" => /\ nucleo.m \in Marcos
                              /\ tp[nucleo.q][nucleo.n].marco = nucleo.m

\* The thread of the CPU serves a process with which the other has nothing to do.
CpuAparte ==
  cpu.pc # "libre" =>
    /\ cpu.p \in Pid /\ cpu.n \in NroPag(cpu.p) /\ cpu.p < creados
    /\ estado[cpu.p] = "listo" /\ nucleo.p # cpu.p

\* A page in memory has a frame.
Presencia == \A g \in Vivas : Entrada(g).presente => Entrada(g).marco # -1

-----------------------------------------------------------------------------
(* While no search has found the wrong process                             *)

Acertado ==
  /\ nucleo.pc \in {"trae", "elige", "escribe", "libera", "quita"} => nucleo.q = nucleo.p
  /\ cpu.pc = "responde" => cpu.q = cpu.p

\* The page that a process waits for has no frame until its load chooses one.
FaltaAfuera ==
  \A p \in Pid : estado[p] = "falta" /\ ~(nucleo.pc = "escribe" /\ nucleo.p = p) =>
    pagina_pf[p] \in DOMAIN tp[p] /\ tp[p][pagina_pf[p]].marco = -1

EnUso == marcos_libres \cup (IF nucleo.pc = "escribe" THEN {nucleo.m} ELSE {})
Usados  == {Entrada(g).marco : g \in ConMarco} = EnUso
UnoCada == \A g, h \in ConMarco : Entrada(g).marco = Entrada(h).marco => g = h
Cargadas == \A g \in Vivas : Entrada(g).presente
                              <=> g \in ConMarco /\ ~(nucleo.pc = "escribe" /\ g = Nueva)

\* The last candidate of FIFO, when there may be need of it.
UltimaViva ==
  algoritmo = "FIFO" /\ (marcos_libres = Marcos \/ nucleo.pc = "escribe") =>
    proximas_victimas # <<>> /\ Last(proximas_victimas) \in ConMarco

\* Where the contents of a page are; a page that has not been modified is in swap as well.
Contenido ==
  /\ \A g \in Vivas \ cruzadas :
       /\ Entrada(g).presente => "marco" \in copia[g]
       /\ ~Entrada(g).presente \/ ~Entrada(g).modificado => "swap" \in copia[g]
  /\ \A g \in Paginas : g[1] >= id => copia[g] = {"swap"}

\* What the thread of the CPU is to write has been marked.
Marcada ==
  cpu.pc = "copia" /\ cpu.q = cpu.p =>
    /\ cpu.n \in DOMAIN tp[cpu.p]
    /\ cpu.op = "WRITE" => tp[cpu.p][cpu.n].modificado

Tipos == /\ TipoTp /\ TipoListas /\ TipoCuentas /\ TipoCerrojos /\ TipoHilos /\ TipoExterno
         /\ TipoDatos /\ TipoResto /\ TipoLogico
Firme == Tipos /\ SinCrear /\ EnNucleo /\ CpuAparte /\ Presencia
Orden == /\ Acertado /\ FaltaAfuera /\ Usados /\ UnoCada /\ Cargadas /\ UltimaViva /\ Contenido
         /\ Marcada
Inv   == Firme /\ (~confundido => Orden)

LEMMA InvTipo == Inv => TipoOK
<1> SUFFICES ASSUME Inv PROVE TipoOK
  OBVIOUS
<1>1. mutex_memoria \in {0, 1}
  BY DEF Inv, Firme, Tipos, TipoCerrojos
<1> QED
  BY <1>1 DEF Inv, Firme, Tipos, TipoTp, TipoListas, TipoCuentas, TipoCerrojos, TipoHilos,
     TipoExterno, TipoDatos, TipoResto, TipoLogico, TipoOK, Nucleos, Cpus, EtapasNucleo

-----------------------------------------------------------------------------
(* Pages and tables *)

LEMMA Numeros ==
  /\ Pid \subseteq Nat /\ Nulo \notin Pid /\ -1 \notin Marcos /\ Marcos \subseteq Nat
  /\ \A p \in Pid : CantPaginas[p] \in Nat \ {0} /\ 0 \in NroPag(p) /\ NroPag(p) \subseteq Nat
BY MemoriaOK DEF Pid, Nulo, Marcos, NroPag

LEMMA PaginaEs ==
  /\ \A g \in Paginas : g[1] \in Pid /\ g[2] \in NroPag(g[1]) /\ g = <<g[1], g[2]>>
  /\ \A p \in Pid : \A n \in NroPag(p) : <<p, n>> \in Paginas
BY DEF Paginas

LEMMA TablaEs ==
  ASSUME TipoTp, NEW p \in Pid
  PROVE  /\ \/ tp[p] = <<>> /\ DOMAIN tp[p] = {}
            \/ tp[p] # <<>> /\ DOMAIN tp[p] = NroPag(p) /\ 0 \in DOMAIN tp[p]
         /\ \A n \in DOMAIN tp[p] : /\ tp[p][n] \in Entradas /\ n \in NroPag(p) /\ n \in Nat
                                    /\ <<p, n>> \in Vivas /\ Entrada(<<p, n>>) = tp[p][n]
<1>1. CASE tp[p] = <<>>
  BY <1>1
<1>2. CASE tp[p] # <<>>
  <2>1. tp[p] \in [NroPag(p) -> Entradas]
    BY <1>2 DEF TipoTp
  <2>2. DOMAIN tp[p] = NroPag(p) /\ \A n \in NroPag(p) : tp[p][n] \in Entradas /\ n \in Nat
    BY <2>1, Numeros
  <2>3. \A n \in NroPag(p) : <<p, n>> \in Vivas /\ Entrada(<<p, n>>) = tp[p][n]
    BY <1>2, PaginaEs DEF Vivas, Entrada
  <2> QED
    BY <1>2, <2>2, <2>3, Numeros
<1> QED
  BY <1>1, <1>2

LEMMA VivaEs ==
  ASSUME TipoTp, NEW g \in Vivas
  PROVE  /\ g \in Paginas /\ g[1] \in Pid /\ g[2] \in DOMAIN tp[g[1]] /\ g[2] \in NroPag(g[1])
         /\ g = <<g[1], g[2]>> /\ Entrada(g) \in Entradas /\ Entrada(g) = tp[g[1]][g[2]]
         /\ Entrada(g).marco \in Marcos \cup {-1} /\ Entrada(g).ultimo_acceso \in Nat
<1>1. g \in Paginas /\ tp[g[1]] # <<>>
  BY DEF Vivas
<1>2. g[1] \in Pid /\ g[2] \in NroPag(g[1]) /\ g = <<g[1], g[2]>>
  BY <1>1, PaginaEs
<1>3. g[2] \in DOMAIN tp[g[1]] /\ tp[g[1]][g[2]] \in Entradas
  BY <1>1, <1>2, TablaEs
<1> QED
  BY <1>1, <1>2, <1>3 DEF Entrada, Entradas

\* A step that changes one entry.
LEMMA TablaCambia ==
  ASSUME TipoTp, NEW r \in Pid, NEW n \in DOMAIN tp[r], NEW x \in Entradas,
         tp' = [tp EXCEPT ![r][n] = x]
  PROVE  /\ TipoTp' /\ Vivas' = Vivas /\ \A p \in Pid : DOMAIN tp'[p] = DOMAIN tp[p]
         /\ \A p \in Pid : tp'[p] = <<>> <=> tp[p] = <<>>
         /\ tp'[r][n] = x /\ Entrada(<<r, n>>)' = x
         /\ \A p \in Pid : \A k \in DOMAIN tp[p] : p # r \/ k # n => tp'[p][k] = tp[p][k]
         /\ \A g \in Vivas \ {<<r, n>>} : Entrada(g)' = Entrada(g)
<1>1. DOMAIN tp = Pid
  BY DEF TipoTp
<1>2. tp' = [tp EXCEPT ![r] = [tp[r] EXCEPT ![n] = x]]
  OBVIOUS
<1>3. /\ tp'[r] = [tp[r] EXCEPT ![n] = x] /\ \A p \in Pid : p # r => tp'[p] = tp[p]
      /\ DOMAIN tp' = Pid
  BY <1>1, <1>2
<1>4. tp[r] \in [NroPag(r) -> Entradas] /\ tp[r] # <<>> /\ DOMAIN tp[r] = NroPag(r)
  BY TablaEs DEF TipoTp
<1>5. /\ tp'[r] \in [NroPag(r) -> Entradas] /\ DOMAIN tp'[r] = NroPag(r) /\ tp'[r][n] = x
      /\ \A k \in DOMAIN tp[r] : k # n => tp'[r][k] = tp[r][k]
  BY <1>3, <1>4
<1>6. tp'[r] # <<>>
  BY <1>5
<1>7. TipoTp'
  <2>1. tp' = [p \in Pid |-> tp'[p]]
    BY <1>1, <1>2
  <2>2. \A p \in Pid : tp'[p] = <<>> \/ tp'[p] \in [NroPag(p) -> Entradas]
    BY <1>3, <1>5 DEF TipoTp
  <2> QED
    BY <2>1, <2>2 DEF TipoTp, Entradas
<1>8. \A p \in Pid : tp'[p] = <<>> <=> tp[p] = <<>>
  BY <1>3, <1>4, <1>6
<1>9. Vivas' = Vivas
  BY <1>8, PaginaEs DEF Vivas
<1>10. \A p \in Pid : \A k \in DOMAIN tp[p] : p # r \/ k # n => tp'[p][k] = tp[p][k]
  BY <1>3, <1>5
<1>11. \A g \in Vivas \ {<<r, n>>} : Entrada(g)' = Entrada(g)
  <2> SUFFICES ASSUME NEW g \in Vivas, g # <<r, n>> PROVE Entrada(g)' = Entrada(g)
    OBVIOUS
  <2>1. g[1] \in Pid /\ g[2] \in DOMAIN tp[g[1]] /\ g = <<g[1], g[2]>>
    BY VivaEs
  <2>2. g[1] # r \/ g[2] # n
    BY <2>1
  <2> QED
    BY <1>10, <2>1, <2>2 DEF Entrada
<1>12. Entrada(<<r, n>>)' = x
  BY <1>5 DEF Entrada
<1> QED
  BY <1>3, <1>4, <1>5, <1>7, <1>8, <1>9, <1>10, <1>11, <1>12

\* A step that leaves the tables alone.
LEMMA TablaIgual ==
  ASSUME UNCHANGED tp
  PROVE  /\ TipoTp => TipoTp'
         /\ Vivas' = Vivas /\ ConMarco' = ConMarco /\ \A g : Entrada(g)' = Entrada(g)
<1>1. \A g : Entrada(g)' = Entrada(g)
  BY DEF Entrada
<1>2. Vivas' = Vivas
  BY DEF Vivas
<1> QED
  BY <1>1, <1>2 DEF TipoTp, ConMarco, Entradas

\* The searches find a process that exists, or none.
LEMMA HalladoEs ==
  ASSUME TipoListas, TipoResto, NEW p \in Pid, NEW r \in Hallados(p)
  PROVE  r \in Pid \cup {Nulo}
<1>1. ToSet(procesos) \subseteq Pid
  BY DEF TipoListas, ToSet
<1> QED
  BY <1>1 DEF Hallados

LEMMA InvInicial == Init => Inv
<1> SUFFICES ASSUME Init PROVE Inv
  OBVIOUS
<1>1. \A p \in Pid : tp[p] = <<>>
  BY DEF Init
<1>2. Vivas = {} /\ ConMarco = {}
  BY <1>1, PaginaEs DEF Vivas, ConMarco
<1>3. Tipos
  <2>1. TipoTp
    BY DEF Init, TipoTp
  <2>2. TipoListas /\ TipoCerrojos
    BY DEF Init, TipoListas, TipoCerrojos, Ocioso
  <2>3. TipoCuentas
    BY MemoriaOK DEF Init, TipoCuentas
  <2>4. TipoHilos
    BY DEF Init, TipoHilos, Ocioso, Libre, Nucleos, EtapasNucleo, Cpus
  <2>5. TipoExterno /\ TipoDatos
    BY DEF Init, TipoExterno, TipoDatos
  <2>6. TipoResto
    BY DEF Init, TipoResto
  <2>7. TipoLogico
    BY DEF Init, TipoLogico
  <2> QED
    BY <2>1, <2>2, <2>3, <2>4, <2>5, <2>6, <2>7 DEF Tipos
<1>4. SinCrear /\ EnNucleo /\ CpuAparte /\ Presencia
  BY <1>1, <1>2 DEF Init, SinCrear, EnNucleo, CpuAparte, Presencia, Ocioso, Libre, Trayendo
<1>5. Acertado /\ FaltaAfuera /\ Marcada
  BY DEF Init, Acertado, FaltaAfuera, Marcada, Ocioso, Libre
<1>6. Usados /\ UnoCada /\ Cargadas
  BY <1>2 DEF Init, Usados, EnUso, UnoCada, Cargadas, Ocioso
<1>7. UltimaViva
  <2>1. 0 \in Marcos
    BY MemoriaOK DEF Marcos
  <2> QED
    BY <2>1 DEF Init, UltimaViva, Ocioso
<1>8. Contenido
  BY <1>2 DEF Init, Contenido
<1> QED
  BY <1>3, <1>4, <1>5, <1>6, <1>7, <1>8 DEF Inv, Firme, Orden

-----------------------------------------------------------------------------
(* The steps that leave the tables alone *)

LEMMA OrdenQuieto ==
  ASSUME Orden,
         UNCHANGED <<algoritmo, id, tp, marcos_libres, proximas_victimas, copia, cruzadas>>,
         nucleo' = nucleo \/ (nucleo.pc # "escribe" /\ nucleo'.pc # "escribe")
  PROVE  Usados' /\ UnoCada' /\ Cargadas' /\ UltimaViva' /\ Contenido'
<1>1. Vivas' = Vivas /\ ConMarco' = ConMarco /\ \A g : Entrada(g)' = Entrada(g)
  BY TablaIgual
<1>2. EnUso' = EnUso
  BY DEF EnUso
<1>3. Usados' /\ UnoCada'
  BY <1>1, <1>2 DEF Orden, Usados, UnoCada
<1>4. Cargadas'
  BY <1>1 DEF Orden, Cargadas, Nueva
<1>5. UltimaViva'
  BY <1>1 DEF Orden, UltimaViva
<1>6. Contenido'
  BY <1>1 DEF Orden, Contenido
<1> QED
  BY <1>3, <1>4, <1>5, <1>6

LEMMA PasoCae == Inv /\ Cae => Inv'
<1> SUFFICES ASSUME Inv, Cae PROVE Inv'
  OBVIOUS
<1>1. /\ UNCHANGED <<algoritmo, id, procesos, tp, marcos_libres, proximas_victimas>>
      /\ UNCHANGED <<pid_comparador, mutex_procesos, mutex_memoria, reloj, nucleo, cpu>>
      /\ UNCHANGED <<creados, estado, pagina_pf, traducciones, copia, cruzadas, confundido>>
      /\ fallo' = TRUE
  BY DEF Cae, tablas, cerrojos, externo, datos
<1>2. /\ TipoTp => TipoTp'
      /\ Vivas' = Vivas /\ ConMarco' = ConMarco /\ \A g : Entrada(g)' = Entrada(g)
  BY <1>1, TablaIgual
<1>3. Tipos'
  BY <1>1, <1>2 DEF Inv, Firme, Tipos, TipoListas, TipoCuentas, TipoCerrojos, TipoHilos,
     TipoExterno, TipoDatos, TipoResto, TipoLogico, Nucleos, Cpus, EtapasNucleo
<1>4. SinCrear' /\ EnNucleo' /\ CpuAparte' /\ Presencia'
  BY <1>1, <1>2 DEF Inv, Firme, SinCrear, EnNucleo, CpuAparte, Presencia, Trayendo
<1>5. Orden => Orden'
  <2> SUFFICES ASSUME Orden PROVE Orden'
    OBVIOUS
  <2>1. Acertado' /\ FaltaAfuera' /\ Marcada'
    BY <1>1 DEF Orden, Acertado, FaltaAfuera, Marcada
  <2> QED
    BY <1>1, <2>1, OrdenQuieto DEF Orden
<1> QED
  BY <1>1, <1>3, <1>4, <1>5 DEF Inv, Firme

\* sem_wait(&mutex_procesos) and the process to look for.
LEMMA AlBuscar ==
  ASSUME Tipos, NEW p \in Pid, Busca(p)
  PROVE  mutex_procesos' \in Nat /\ pid_comparador' \in Pid \cup {Nulo}
BY DEF Busca, Tipos, TipoCerrojos

LEMMA PasoPide ==
  ASSUME Inv, NEW op \in {"INSTRUCCION", "SOLICITAR_VALOR"}, NEW p \in Pid, NEW n \in NroPag(p),
         CpuPide(op, p, n)
  PROVE  Inv'
<1>1. /\ UNCHANGED <<algoritmo, id, procesos, tp, marcos_libres, proximas_victimas>>
      /\ UNCHANGED <<mutex_memoria, reloj, nucleo, creados, estado, pagina_pf>>
      /\ UNCHANGED <<copia, cruzadas, confundido, fallo>>
      /\ cpu' = [Libre EXCEPT !.pc = "busca", !.op = op, !.p = p, !.n = n]
      /\ p < creados /\ estado[p] = "listo" /\ nucleo.p # p
      /\ traducciones' = IF op = "INSTRUCCION" THEN traducciones ELSE traducciones + 1
      /\ op = "INSTRUCCION" \/ traducciones < MaxTraducciones
      /\ Busca(p)
  BY DEF CpuPide, tablas, datos
<1>2. /\ TipoTp => TipoTp'
      /\ Vivas' = Vivas /\ ConMarco' = ConMarco /\ \A g : Entrada(g)' = Entrada(g)
  BY <1>1, TablaIgual
<1>3. mutex_procesos' \in Nat /\ pid_comparador' \in Pid \cup {Nulo}
  BY <1>1, AlBuscar DEF Inv, Firme
<1>4. /\ cpu' \in Cpus /\ cpu'.pc = "busca" /\ cpu'.p = p /\ cpu'.n = n
  BY <1>1, Numeros DEF Cpus, Libre
<1>5. traducciones' \in 0 .. MaxTraducciones
  BY <1>1, MemoriaOK DEF Inv, Firme, Tipos, TipoCuentas
<1>6. Tipos'
  BY <1>1, <1>2, <1>3, <1>4, <1>5 DEF Inv, Firme, Tipos, TipoListas, TipoCuentas, TipoCerrojos,
     TipoHilos, TipoExterno, TipoDatos, TipoResto, TipoLogico, Nucleos, Cpus, EtapasNucleo
<1>7. SinCrear' /\ EnNucleo' /\ CpuAparte' /\ Presencia'
  BY <1>1, <1>2, <1>4 DEF Inv, Firme, SinCrear, EnNucleo, CpuAparte, Presencia, Trayendo
<1>8. Orden => Orden'
  <2> SUFFICES ASSUME Orden PROVE Orden'
    OBVIOUS
  <2>1. Acertado' /\ FaltaAfuera' /\ Marcada'
    BY <1>1, <1>4 DEF Orden, Acertado, FaltaAfuera, Marcada
  <2> QED
    BY <1>1, <2>1, OrdenQuieto DEF Orden
<1> QED
  BY <1>1, <1>6, <1>7, <1>8 DEF Inv, Firme

\* The process faults on the page that the CPU asked for, which is in no frame.
LEMMA AlFaltar ==
  ASSUME Firme, cpu.pc # "libre", FallaPagina
  PROVE  /\ cpu' = Libre /\ cpu' \in Cpus /\ TipoExterno'
         /\ estado'[cpu.p] = "falta" /\ pagina_pf'[cpu.p] = cpu.n /\ nucleo.p # cpu.p
         /\ \A p \in Pid : p # cpu.p => estado'[p] = estado[p] /\ pagina_pf'[p] = pagina_pf[p]
<1>1. cpu.p \in Pid /\ cpu.n \in Nat /\ nucleo.p # cpu.p
  BY DEF Firme, CpuAparte, Tipos, TipoHilos, Cpus
<1>2. Libre \in Cpus
  BY DEF Libre, Cpus
<1> QED
  BY <1>1, <1>2 DEF FallaPagina, Firme, Tipos, TipoExterno

LEMMA PasoEncuentra == Inv /\ CpuEncuentra => Inv'
<1> SUFFICES ASSUME Inv, CpuEncuentra PROVE Inv'
  OBVIOUS
<1>1. PICK r \in Hallados(cpu.p) :
        \/ ~TieneTabla(r, cpu.n) /\ Cae
        \/ /\ TieneTabla(r, cpu.n)
           /\ mutex_procesos' = mutex_procesos + 1
           /\ \/ /\ cpu.op = "INSTRUCCION" /\ cpu' = Libre
                 /\ UNCHANGED <<estado, pagina_pf, confundido>>
              \/ /\ cpu.op = "SOLICITAR_VALOR" /\ ~tp[r][cpu.n].presente /\ FallaPagina
                 /\ Confunde(cpu.p, r)
              \/ /\ cpu.op = "SOLICITAR_VALOR" /\ tp[r][cpu.n].presente
                 /\ cpu' = [cpu EXCEPT !.pc = "responde", !.q = r]
                 /\ Confunde(cpu.p, r)
                 /\ UNCHANGED <<estado, pagina_pf>>
           /\ UNCHANGED <<algoritmo, tablas, pid_comparador, mutex_memoria, reloj, nucleo,
                          creados, traducciones, datos, fallo>>
  BY DEF CpuEncuentra
<1>2. CASE Cae
  BY <1>2, PasoCae
<1>3. CASE ~Cae
  <2>1. /\ UNCHANGED <<algoritmo, id, procesos, tp, marcos_libres, proximas_victimas>>
        /\ UNCHANGED <<pid_comparador, mutex_memoria, reloj, nucleo, creados, traducciones>>
        /\ UNCHANGED <<copia, cruzadas, fallo>>
        /\ TieneTabla(r, cpu.n) /\ mutex_procesos' = mutex_procesos + 1
    BY <1>1, <1>3 DEF tablas, datos
  <2>2. /\ cpu.pc = "busca" /\ cpu.p \in Pid /\ cpu.n \in NroPag(cpu.p) /\ cpu \in Cpus
        /\ nucleo.p # cpu.p /\ estado[cpu.p] = "listo"
    BY DEF CpuEncuentra, Inv, Firme, CpuAparte, Tipos, TipoHilos
  <2>3. r \in Pid /\ cpu.n \in DOMAIN tp[r]
    BY <2>1, <2>2, HalladoEs DEF TieneTabla, Inv, Firme, Tipos
  <2>4. /\ TipoTp => TipoTp'
        /\ Vivas' = Vivas /\ ConMarco' = ConMarco /\ \A g : Entrada(g)' = Entrada(g)
    BY <2>1, TablaIgual
  <2>5. \/ /\ cpu' = Libre /\ UNCHANGED <<estado, pagina_pf, confundido>>
        \/ /\ FallaPagina /\ ~tp[r][cpu.n].presente /\ confundido' = (confundido \/ cpu.p # r)
        \/ /\ cpu' = [cpu EXCEPT !.pc = "responde", !.q = r] /\ UNCHANGED <<estado, pagina_pf>>
           /\ confundido' = (confundido \/ cpu.p # r)
    BY <1>1, <1>3 DEF Confunde
  <2>6. confundido' \in BOOLEAN /\ (~confundido' => ~confundido)
    BY <2>5 DEF Inv, Firme, Tipos, TipoLogico
  <2>7. FallaPagina =>
        /\ cpu' = Libre /\ cpu' \in Cpus /\ TipoExterno'
        /\ estado'[cpu.p] = "falta" /\ pagina_pf'[cpu.p] = cpu.n
        /\ \A p \in Pid : p # cpu.p => estado'[p] = estado[p] /\ pagina_pf'[p] = pagina_pf[p]
    BY <2>2, AlFaltar DEF Inv
  <2>8. /\ cpu' \in Cpus /\ TipoExterno'
        /\ \/ cpu'.pc = "libre"
           \/ /\ cpu'.pc = "responde" /\ cpu'.p = cpu.p /\ cpu'.n = cpu.n /\ cpu'.q = r
              /\ UNCHANGED <<estado, pagina_pf>>
        /\ \A p \in Pid : p # cpu.p => estado'[p] = estado[p] /\ pagina_pf'[p] = pagina_pf[p]
    <3>1. CASE cpu' = Libre /\ UNCHANGED <<estado, pagina_pf>>
      BY <3>1 DEF Libre, Cpus, Inv, Firme, Tipos, TipoExterno
    <3>2. CASE FallaPagina
      BY <2>7, <3>2 DEF Libre
    <3>3. CASE cpu' = [cpu EXCEPT !.pc = "responde", !.q = r] /\ UNCHANGED <<estado, pagina_pf>>
      BY <2>2, <2>3, <3>3 DEF Cpus, Inv, Firme, Tipos, TipoExterno
    <3> QED
      BY <2>5, <3>1, <3>2, <3>3
  <2>9. Tipos'
    <3>1. mutex_procesos' \in Nat
      BY <2>1 DEF Inv, Firme, Tipos, TipoCerrojos
    <3> QED
      BY <2>1, <2>4, <2>6, <2>8, <3>1 DEF Inv, Firme, Tipos, TipoListas, TipoCuentas,
         TipoCerrojos, TipoHilos, TipoDatos, TipoResto, TipoLogico, Nucleos, EtapasNucleo
  <2>10. SinCrear' /\ EnNucleo' /\ CpuAparte' /\ Presencia'
    <3>1. SinCrear' /\ Presencia'
      BY <2>1, <2>4 DEF Inv, Firme, SinCrear, Presencia
    <3>2. EnNucleo'
      BY <2>1, <2>2, <2>8 DEF Inv, Firme, EnNucleo, Trayendo
    <3>3. CpuAparte'
      BY <2>1, <2>2, <2>8 DEF Inv, Firme, CpuAparte
    <3> QED
      BY <3>1, <3>2, <3>3
  <2>11. Orden /\ ~confundido' => Orden'
    <3> SUFFICES ASSUME Orden, ~confundido' PROVE Orden'
      OBVIOUS
    <3>1. Acertado'
      <4>1. cpu'.pc = "responde" => cpu'.q = cpu'.p
        <5>1. cpu'.pc = "responde" => cpu' # Libre
          BY DEF Libre
        <5>2. cpu'.pc = "responde" => cpu.p = r
          BY <2>5, <2>7, <5>1
        <5> QED
          BY <2>8, <5>2
      <4> QED
        BY <2>1, <4>1 DEF Orden, Acertado
    <3>2. Marcada'
      BY <2>8 DEF Marcada
    <3>3. FaltaAfuera'
      <4> SUFFICES ASSUME NEW p \in Pid, estado'[p] = "falta",
                          ~(nucleo.pc = "escribe" /\ nucleo.p = p)
                   PROVE  pagina_pf'[p] \in DOMAIN tp[p] /\ tp[p][pagina_pf'[p]].marco = -1
        BY <2>1 DEF FaltaAfuera
      <4>1. CASE p # cpu.p
        BY <2>8, <4>1 DEF Orden, FaltaAfuera
      <4>2. CASE p = cpu.p
        <5>1. FallaPagina /\ r = p /\ ~tp[p][cpu.n].presente /\ pagina_pf'[p] = cpu.n
          BY <2>2, <2>5, <2>7, <4>2
        <5> DEFINE g == <<p, cpu.n>>
        <5>2. g \in Vivas /\ Entrada(g) = tp[p][cpu.n]
          BY <2>3, <5>1, TablaEs DEF Inv, Firme, Tipos
        <5>3. nucleo.pc = "escribe" => g # Nueva
          BY <2>2, <4>2 DEF Orden, Acertado, Nueva
        <5>4. g \notin ConMarco
          BY <5>1, <5>2, <5>3 DEF Orden, Cargadas
        <5> QED
          BY <2>3, <5>1, <5>2, <5>4 DEF ConMarco
      <4> QED
        BY <4>1, <4>2
    <3> QED
      BY <2>1, <3>1, <3>2, <3>3, OrdenQuieto DEF Orden
  <2> QED
    BY <2>6, <2>9, <2>10, <2>11 DEF Inv, Firme
<1> QED
  BY <1>2, <1>3

LEMMA PasoResponde == Inv /\ CpuResponde => Inv'
<1> SUFFICES ASSUME Inv, CpuResponde PROVE Inv'
  OBVIOUS
<1>1. CASE Cae
  BY <1>1, PasoCae
<1>2. CASE ~Cae
  <2>a. PICK m : m = tp[cpu.q][cpu.n].marco
    OBVIOUS
  <2>1. /\ UNCHANGED <<algoritmo, id, procesos, tp, marcos_libres, proximas_victimas>>
        /\ UNCHANGED <<pid_comparador, mutex_procesos, mutex_memoria, reloj, nucleo, creados>>
        /\ UNCHANGED <<traducciones, copia, cruzadas, confundido, fallo>>
        /\ cpu.pc = "responde" /\ TieneTabla(cpu.q, cpu.n)
        /\ \/ m = -1 /\ FallaPagina
           \/ /\ m # -1 /\ cpu' = [cpu EXCEPT !.pc = "traducida", !.m = m]
              /\ UNCHANGED <<estado, pagina_pf>>
    BY <1>2, <2>a DEF CpuResponde, tablas, cerrojos, datos
  <2>2. /\ cpu.p \in Pid /\ cpu.n \in NroPag(cpu.p) /\ cpu \in Cpus
        /\ nucleo.p # cpu.p /\ estado[cpu.p] = "listo"
    BY <2>1 DEF Inv, Firme, CpuAparte, Tipos, TipoHilos
  <2>3. cpu.q \in Pid /\ cpu.n \in DOMAIN tp[cpu.q]
    BY <2>1, <2>2 DEF TieneTabla, Cpus
  <2>4. m \in Marcos \cup {-1}
    BY <2>a, <2>3, TablaEs DEF Entradas, Inv, Firme, Tipos
  <2>5. /\ TipoTp => TipoTp'
        /\ Vivas' = Vivas /\ ConMarco' = ConMarco /\ \A g : Entrada(g)' = Entrada(g)
    BY <2>1, TablaIgual
  <2>6. FallaPagina =>
        /\ cpu' = Libre /\ cpu' \in Cpus /\ TipoExterno'
        /\ estado'[cpu.p] = "falta" /\ pagina_pf'[cpu.p] = cpu.n
        /\ \A p \in Pid : p # cpu.p => estado'[p] = estado[p] /\ pagina_pf'[p] = pagina_pf[p]
    BY <2>1, AlFaltar DEF Inv
  <2>7. /\ cpu' \in Cpus /\ TipoExterno'
        /\ \/ cpu'.pc = "libre"
           \/ /\ cpu'.pc = "traducida" /\ cpu'.p = cpu.p /\ cpu'.n = cpu.n
              /\ UNCHANGED <<estado, pagina_pf>>
        /\ \A p \in Pid : p # cpu.p => estado'[p] = estado[p] /\ pagina_pf'[p] = pagina_pf[p]
    <3>1. CASE FallaPagina
      BY <2>6, <3>1 DEF Libre
    <3>2. CASE cpu' = [cpu EXCEPT !.pc = "traducida", !.m = m] /\ UNCHANGED <<estado, pagina_pf>>
      BY <2>2, <2>4, <3>2 DEF Cpus, Inv, Firme, Tipos, TipoExterno
    <3> QED
      BY <2>1, <3>1, <3>2
  <2>8. Tipos'
    BY <2>1, <2>5, <2>7 DEF Inv, Firme, Tipos, TipoListas, TipoCuentas,
       TipoCerrojos, TipoHilos, TipoDatos, TipoResto, TipoLogico, Nucleos, EtapasNucleo
  <2>9. SinCrear' /\ EnNucleo' /\ CpuAparte' /\ Presencia'
    <3>1. SinCrear' /\ Presencia'
      BY <2>1, <2>5 DEF Inv, Firme, SinCrear, Presencia
    <3>2. EnNucleo'
      BY <2>1, <2>2, <2>7 DEF Inv, Firme, EnNucleo, Trayendo
    <3>3. CpuAparte'
      BY <2>1, <2>2, <2>7 DEF Inv, Firme, CpuAparte
    <3> QED
      BY <3>1, <3>2, <3>3
  <2>10. Orden => Orden'
    <3> SUFFICES ASSUME Orden PROVE Orden'
      OBVIOUS
    <3>1. Acertado' /\ Marcada'
      BY <2>1, <2>7 DEF Orden, Acertado, Marcada
    <3>2. FaltaAfuera'
      <4> SUFFICES ASSUME NEW p \in Pid, estado'[p] = "falta",
                          ~(nucleo.pc = "escribe" /\ nucleo.p = p)
                   PROVE  pagina_pf'[p] \in DOMAIN tp[p] /\ tp[p][pagina_pf'[p]].marco = -1
        BY <2>1 DEF FaltaAfuera
      <4>1. CASE p # cpu.p
        BY <2>7, <4>1 DEF Orden, FaltaAfuera
      <4>2. CASE p = cpu.p
        <5>1. m = -1 /\ pagina_pf'[p] = cpu.n /\ cpu.q = p
          BY <2>1, <2>2, <2>6, <4>2 DEF Orden, Acertado
        <5> QED
          BY <2>a, <2>3, <5>1
      <4> QED
        BY <4>1, <4>2
    <3> QED
      BY <2>1, <3>1, <3>2, OrdenQuieto DEF Orden
  <2> QED
    BY <2>1, <2>8, <2>9, <2>10 DEF Inv, Firme
<1> QED
  BY <1>1, <1>2

LEMMA PasoAccede ==
  ASSUME Inv, NEW op \in {"READ", "WRITE"}, CpuAccede(op)
  PROVE  Inv'
<1>1. /\ UNCHANGED <<algoritmo, id, procesos, tp, marcos_libres, proximas_victimas>>
      /\ UNCHANGED <<mutex_memoria, reloj, nucleo, creados, estado, pagina_pf, traducciones>>
      /\ UNCHANGED <<copia, cruzadas, confundido, fallo>>
      /\ cpu.pc = "traducida" /\ cpu' = [cpu EXCEPT !.pc = "marca", !.op = op]
      /\ Busca(cpu.p)
  BY DEF CpuAccede, tablas, externo, datos
<1>2. /\ TipoTp => TipoTp'
      /\ Vivas' = Vivas /\ ConMarco' = ConMarco /\ \A g : Entrada(g)' = Entrada(g)
  BY <1>1, TablaIgual
<1>3. cpu.p \in Pid /\ cpu \in Cpus
  BY <1>1 DEF Inv, Firme, CpuAparte, Tipos, TipoHilos
<1>4. mutex_procesos' \in Nat /\ pid_comparador' \in Pid \cup {Nulo}
  BY <1>1, <1>3, AlBuscar DEF Inv, Firme
<1>5. /\ cpu' \in Cpus /\ cpu'.pc = "marca" /\ cpu'.p = cpu.p /\ cpu'.n = cpu.n
  BY <1>1, <1>3 DEF Cpus
<1>6. Tipos'
  BY <1>1, <1>2, <1>4, <1>5 DEF Inv, Firme, Tipos, TipoListas, TipoCuentas, TipoCerrojos,
     TipoHilos, TipoExterno, TipoDatos, TipoResto, TipoLogico, Nucleos, EtapasNucleo
<1>7. SinCrear' /\ EnNucleo' /\ CpuAparte' /\ Presencia'
  BY <1>1, <1>2, <1>5 DEF Inv, Firme, SinCrear, EnNucleo, CpuAparte, Presencia, Trayendo
<1>8. Orden => Orden'
  <2> SUFFICES ASSUME Orden PROVE Orden'
    OBVIOUS
  <2>1. Acertado' /\ FaltaAfuera' /\ Marcada'
    BY <1>1, <1>5 DEF Orden, Acertado, FaltaAfuera, Marcada
  <2> QED
    BY <1>1, <2>1, OrdenQuieto DEF Orden
<1> QED
  BY <1>1, <1>6, <1>7, <1>8 DEF Inv, Firme

\* memcpy: what it writes in a page that is its own was marked as modified; anything else is
\* among the pages that got mixed up.
LEMMA PasoCopia == Inv /\ CpuCopia => Inv'
<1> SUFFICES ASSUME Inv, CpuCopia PROVE Inv'
  OBVIOUS
<1>a. PICK g : g = <<cpu.p, cpu.n>>
  OBVIOUS
<1>b. PICK pisadas : pisadas = {h \in ConMarco : Entrada(h).marco = cpu.m} \cup {g}
  OBVIOUS
<1>c. PICK propia :
        propia = (pisadas = {g} /\ g \in ConMarco /\ Entrada(g).marco = cpu.m /\ cpu.q = cpu.p)
  OBVIOUS
<1>1. /\ UNCHANGED <<algoritmo, id, procesos, tp, marcos_libres, proximas_victimas>>
      /\ UNCHANGED <<pid_comparador, mutex_procesos, mutex_memoria, reloj, nucleo>>
      /\ UNCHANGED <<creados, estado, pagina_pf, traducciones, confundido, fallo>>
      /\ cpu.pc = "copia" /\ mutex_memoria > 0 /\ cpu' = Libre
  BY DEF CpuCopia, tablas, cerrojos, externo
<1>2. /\ copia' = IF cpu.op = "WRITE" /\ propia THEN [copia EXCEPT ![g] = {"marco"}] ELSE copia
      /\ cruzadas' = IF cpu.op = "WRITE" /\ ~propia THEN cruzadas \cup pisadas ELSE cruzadas
  BY <1>a, <1>b, <1>c DEF CpuCopia
<1>3. cpu.p \in Pid /\ cpu.n \in NroPag(cpu.p) /\ g \in Paginas /\ g[1] = cpu.p
  BY <1>a, <1>1, PaginaEs DEF Inv, Firme, CpuAparte
<1>4. pisadas \subseteq Paginas
  BY <1>b, <1>3 DEF ConMarco, Vivas
<1>5. nucleo.pc # "escribe"
  BY <1>1 DEF Inv, Firme, Tipos, TipoCerrojos
<1>6. /\ TipoTp => TipoTp'
      /\ Vivas' = Vivas /\ ConMarco' = ConMarco /\ \A h : Entrada(h)' = Entrada(h)
  BY <1>1, TablaIgual
<1>7. /\ copia' \in [Paginas -> SUBSET {"marco", "swap"}] /\ cruzadas' \subseteq Paginas
      /\ cruzadas \subseteq cruzadas'
      /\ \A h \in Paginas : copia'[h] = copia[h] \/ (h = g /\ propia /\ cpu.op = "WRITE")
      /\ propia /\ cpu.op = "WRITE" => copia'[g] = {"marco"}
  BY <1>2, <1>3, <1>4 DEF Inv, Firme, Tipos, TipoDatos
<1>8. cpu' \in Cpus /\ cpu'.pc = "libre"
  BY <1>1 DEF Cpus, Libre
<1>9. Tipos'
  BY <1>1, <1>6, <1>7, <1>8 DEF Inv, Firme, Tipos, TipoListas, TipoCuentas, TipoCerrojos,
     TipoHilos, TipoExterno, TipoDatos, TipoResto, TipoLogico, Nucleos, EtapasNucleo
<1>10. SinCrear' /\ EnNucleo' /\ CpuAparte' /\ Presencia'
  BY <1>1, <1>6, <1>8 DEF Inv, Firme, SinCrear, EnNucleo, CpuAparte, Presencia, Trayendo
<1>11. Orden => Orden'
  <2> SUFFICES ASSUME Orden PROVE Orden'
    OBVIOUS
  <2>1. Acertado' /\ FaltaAfuera' /\ Marcada'
    BY <1>1, <1>8 DEF Orden, Acertado, FaltaAfuera, Marcada
  <2>2. Usados' /\ UnoCada'
    BY <1>1, <1>6 DEF Orden, Usados, UnoCada, EnUso
  <2>3. Cargadas'
    BY <1>1, <1>6 DEF Orden, Cargadas, Nueva
  <2>4. UltimaViva'
    BY <1>1, <1>6 DEF Orden, UltimaViva
  \* If the page is written, it is in memory and modified.
  <2>5. propia /\ cpu.op = "WRITE" => /\ g \in Vivas /\ Entrada(g).presente
                                       /\ Entrada(g).modificado /\ ~(g[1] >= id)
    <3> SUFFICES ASSUME propia, cpu.op = "WRITE"
                 PROVE  /\ g \in Vivas /\ Entrada(g).presente
                        /\ Entrada(g).modificado /\ ~(g[1] >= id)
      OBVIOUS
    <3>1. g \in ConMarco /\ cpu.q = cpu.p /\ g \in Vivas
      BY <1>c DEF ConMarco
    <3>2. Entrada(g).presente
      BY <1>5, <3>1 DEF Orden, Cargadas
    <3>3. Entrada(g).modificado
      BY <1>a, <1>1, <3>1 DEF Orden, Marcada, Entrada
    <3>4. ~(g[1] >= id)
      BY <1>3, <3>1 DEF Inv, Firme, SinCrear, Vivas
    <3> QED
      BY <3>1, <3>2, <3>3, <3>4
  <2>6. Contenido'
    <3>1. ASSUME NEW h \in Vivas, h \notin cruzadas'
          PROVE  /\ Entrada(h).presente => "marco" \in copia'[h]
                 /\ ~Entrada(h).presente \/ ~Entrada(h).modificado => "swap" \in copia'[h]
      <4>1. h \in Paginas /\ h \notin cruzadas
        BY <1>7, <3>1 DEF Vivas
      <4>2. CASE copia'[h] = copia[h]
        BY <4>1, <4>2 DEF Orden, Contenido
      <4>3. CASE h = g /\ propia /\ cpu.op = "WRITE"
        BY <1>7, <2>5, <4>3
      <4> QED
        BY <1>7, <4>1, <4>2, <4>3
    <3>2. ASSUME NEW h \in Paginas, h[1] >= id PROVE copia'[h] = {"swap"}
      BY <1>7, <2>5, <3>2 DEF Orden, Contenido
    <3> QED
      BY <1>1, <1>6, <3>1, <3>2 DEF Contenido
  <2> QED
    BY <2>1, <2>2, <2>3, <2>4, <2>6 DEF Orden
<1> QED
  BY <1>1, <1>9, <1>10, <1>11 DEF Inv, Firme

LEMMA PasoInicia == Inv /\ IniciarProceso => Inv'
<1> SUFFICES ASSUME Inv, IniciarProceso PROVE Inv'
  OBVIOUS
<1>1. /\ UNCHANGED <<algoritmo, id, procesos, tp, marcos_libres, proximas_victimas>>
      /\ UNCHANGED <<pid_comparador, mutex_procesos, mutex_memoria, reloj, nucleo, cpu>>
      /\ UNCHANGED <<estado, pagina_pf, traducciones, copia, cruzadas, confundido, fallo>>
      /\ creados < MaxProcesos /\ creados' = creados + 1
  BY DEF IniciarProceso, tablas, cerrojos, datos
<1>2. /\ TipoTp => TipoTp'
      /\ Vivas' = Vivas /\ ConMarco' = ConMarco /\ \A g : Entrada(g)' = Entrada(g)
  BY <1>1, TablaIgual
<1>3. creados' \in 0 .. MaxProcesos /\ id <= creados' /\ \A p \in Pid : p < creados => p < creados'
  <2>1. MaxProcesos \in Nat /\ id \in Nat /\ creados \in Nat /\ id <= creados
    BY MemoriaOK DEF Inv, Firme, SinCrear, Tipos, TipoCuentas
  <2>2. Pid \subseteq Nat
    BY Numeros
  <2> QED
    BY <1>1, <2>1, <2>2
<1>4. Tipos'
  BY <1>1, <1>2, <1>3 DEF Inv, Firme, Tipos, TipoListas, TipoCuentas, TipoCerrojos,
     TipoHilos, TipoExterno, TipoDatos, TipoResto, TipoLogico, Nucleos, Cpus, EtapasNucleo
<1>5. SinCrear' /\ EnNucleo' /\ CpuAparte' /\ Presencia'
  BY <1>1, <1>2, <1>3 DEF Inv, Firme, SinCrear, EnNucleo, CpuAparte, Presencia, Trayendo
<1>6. Orden => Orden'
  <2> SUFFICES ASSUME Orden PROVE Orden'
    OBVIOUS
  <2>1. Acertado' /\ FaltaAfuera' /\ Marcada'
    BY <1>1 DEF Orden, Acertado, FaltaAfuera, Marcada
  <2> QED
    BY <1>1, <2>1, OrdenQuieto DEF Orden
<1> QED
  BY <1>1, <1>4, <1>5, <1>6 DEF Inv, Firme

LEMMA PasoBusca ==
  ASSUME Inv, NEW p \in Pid, NucleoBusca(p)
  PROVE  Inv'
<1>1. /\ UNCHANGED <<algoritmo, id, procesos, tp, marcos_libres, proximas_victimas>>
      /\ UNCHANGED <<mutex_memoria, reloj, cpu, creados, estado, pagina_pf, traducciones>>
      /\ UNCHANGED <<copia, cruzadas, confundido, fallo>>
      /\ \/ /\ nucleo.pc = "libre" /\ estado[p] = "falta"
            /\ nucleo' = [Ocioso EXCEPT !.pc = "busca1", !.p = p, !.n = pagina_pf[p]]
         \/ /\ nucleo.pc = "lee" /\ p = nucleo.p
            /\ nucleo' = [nucleo EXCEPT !.pc = "busca2"]
         \/ /\ nucleo.pc = "libre" /\ p < id /\ estado[p] = "listo" /\ ~EnCpu(p)
            /\ nucleo' = [Ocioso EXCEPT !.pc = "fin", !.p = p]
      /\ Busca(p)
  BY DEF NucleoBusca, tablas, externo, datos
<1>2. /\ TipoTp => TipoTp'
      /\ Vivas' = Vivas /\ ConMarco' = ConMarco /\ \A g : Entrada(g)' = Entrada(g)
  BY <1>1, TablaIgual
<1>3. mutex_procesos' \in Nat /\ pid_comparador' \in Pid \cup {Nulo}
  BY <1>1, AlBuscar DEF Inv, Firme
<1>4. nucleo \in Nucleos /\ pagina_pf[p] \in Nat
  BY DEF Inv, Firme, Tipos, TipoHilos, TipoExterno
<1>5. /\ nucleo' \in Nucleos /\ nucleo'.p = p
      /\ nucleo.pc # "escribe" /\ nucleo'.pc \in {"busca1", "busca2", "fin"}
      /\ nucleo'.pc \in {"busca1", "busca2"} => estado[p] = "falta" /\ nucleo'.n = pagina_pf[p]
      /\ nucleo'.pc = "fin" => estado[p] = "listo" /\ nucleo'.n = 0
      /\ cpu.pc # "libre" => cpu.p # p
  <2>1. CASE /\ nucleo.pc = "libre"
             /\ nucleo' = [Ocioso EXCEPT !.pc = "busca1", !.p = p, !.n = pagina_pf[p]]
    BY <1>1, <1>4, <2>1 DEF Nucleos, EtapasNucleo, Ocioso, Inv, Firme, CpuAparte
  <2>2. CASE nucleo.pc = "lee" /\ nucleo' = [nucleo EXCEPT !.pc = "busca2"]
    BY <1>1, <1>4, <2>2 DEF Nucleos, EtapasNucleo, Inv, Firme, EnNucleo, CpuAparte, Trayendo
  <2>3. CASE nucleo.pc = "libre" /\ nucleo' = [Ocioso EXCEPT !.pc = "fin", !.p = p]
    BY <1>1, <1>4, <2>3 DEF Nucleos, EtapasNucleo, Ocioso, EnCpu
  <2> QED
    BY <1>1, <2>1, <2>2, <2>3
<1>6. Tipos'
  BY <1>1, <1>2, <1>3, <1>5 DEF Inv, Firme, Tipos, TipoListas, TipoCuentas, TipoCerrojos,
     TipoHilos, TipoExterno, TipoDatos, TipoResto, TipoLogico, Cpus
<1>7. SinCrear' /\ EnNucleo' /\ CpuAparte' /\ Presencia'
  BY <1>1, <1>2, <1>5 DEF Inv, Firme, SinCrear, EnNucleo, CpuAparte, Presencia, Trayendo
<1>8. Orden => Orden'
  <2> SUFFICES ASSUME Orden PROVE Orden'
    OBVIOUS
  <2>1. Acertado' /\ FaltaAfuera' /\ Marcada'
    BY <1>1, <1>5 DEF Orden, Acertado, FaltaAfuera, Marcada
  <2> QED
    BY <1>1, <1>5, <2>1, OrdenQuieto DEF Orden
<1> QED
  BY <1>1, <1>6, <1>7, <1>8 DEF Inv, Firme

LEMMA PasoHalla == Inv /\ NucleoHalla => Inv'
<1> SUFFICES ASSUME Inv, NucleoHalla PROVE Inv'
  OBVIOUS
<1>1. PICK r \in Hallados(nucleo.p) :
        \/ ~TieneTabla(r, nucleo.n) /\ Cae
        \/ /\ TieneTabla(r, nucleo.n)
           /\ \/ /\ nucleo.pc = "busca1"
                 /\ nucleo' = [nucleo EXCEPT !.pc = "lee", !.origen = r]
                 /\ UNCHANGED confundido
              \/ /\ nucleo.pc # "busca1"
                 /\ nucleo' = [nucleo EXCEPT !.pc = IF nucleo.pc = "fin" THEN "libera" ELSE "trae",
                                            !.q = r]
                 /\ Confunde(nucleo.p, r)
           /\ mutex_procesos' = mutex_procesos + 1
           /\ UNCHANGED <<algoritmo, tablas, pid_comparador, mutex_memoria, reloj, cpu, externo,
                          datos, fallo>>
  BY DEF NucleoHalla
<1>2. CASE Cae
  BY <1>2, PasoCae
<1>3. CASE ~Cae
  <2>1. /\ UNCHANGED <<algoritmo, id, procesos, tp, marcos_libres, proximas_victimas>>
        /\ UNCHANGED <<pid_comparador, mutex_memoria, reloj, cpu, creados, estado, pagina_pf>>
        /\ UNCHANGED <<traducciones, copia, cruzadas, fallo>>
        /\ TieneTabla(r, nucleo.n) /\ mutex_procesos' = mutex_procesos + 1
        /\ \/ /\ nucleo.pc = "busca1" /\ UNCHANGED confundido
              /\ nucleo' = [nucleo EXCEPT !.pc = "lee", !.origen = r]
           \/ /\ nucleo.pc # "busca1" /\ confundido' = (confundido \/ nucleo.p # r)
              /\ nucleo' = [nucleo EXCEPT !.pc = IF nucleo.pc = "fin" THEN "libera" ELSE "trae",
                                         !.q = r]
    BY <1>1, <1>3 DEF tablas, externo, datos, Confunde
  <2>2. /\ nucleo.pc \in {"busca1", "busca2", "fin"} /\ nucleo.p \in Pid /\ nucleo \in Nucleos
    BY DEF NucleoHalla, Inv, Firme, EnNucleo, Tipos, TipoHilos
  <2>3. r \in Pid /\ nucleo.n \in DOMAIN tp[r]
    BY <2>1, <2>2, HalladoEs DEF TieneTabla, Inv, Firme, Tipos
  <2>4. /\ TipoTp => TipoTp'
        /\ Vivas' = Vivas /\ ConMarco' = ConMarco /\ \A g : Entrada(g)' = Entrada(g)
    BY <2>1, TablaIgual
  <2>5. /\ nucleo' \in Nucleos /\ nucleo'.p = nucleo.p /\ nucleo'.n = nucleo.n
        /\ nucleo.pc = "busca1" => nucleo'.pc = "lee"
        /\ nucleo.pc = "busca2" => nucleo'.pc = "trae" /\ nucleo'.q = r
        /\ nucleo.pc = "fin" => nucleo'.pc = "libera" /\ nucleo'.q = r
    BY <2>1, <2>2, <2>3 DEF Nucleos, EtapasNucleo
  <2>6. /\ confundido' \in BOOLEAN /\ (~confundido' => ~confundido)
        /\ nucleo.pc # "busca1" /\ ~confundido' => nucleo.p = r
    <3>1. confundido \in BOOLEAN
      BY DEF Inv, Firme, Tipos, TipoLogico
    <3>2. CASE UNCHANGED confundido /\ nucleo.pc = "busca1"
      BY <3>1, <3>2
    <3>3. CASE confundido' = (confundido \/ nucleo.p # r)
      BY <3>1, <3>3, ZenonT(30)
    <3> QED
      BY <2>1, <3>2, <3>3
  <2>7. Tipos'
    <3>1. mutex_procesos' \in Nat
      BY <2>1 DEF Inv, Firme, Tipos, TipoCerrojos
    <3> QED
      BY <2>1, <2>2, <2>4, <2>5, <2>6, <3>1 DEF Inv, Firme, Tipos, TipoListas, TipoCuentas,
         TipoCerrojos, TipoHilos, TipoExterno, TipoDatos, TipoResto, TipoLogico, Cpus
  <2>8. SinCrear' /\ EnNucleo' /\ CpuAparte' /\ Presencia'
    <3>1. SinCrear' /\ CpuAparte' /\ Presencia'
      BY <2>1, <2>4, <2>5 DEF Inv, Firme, SinCrear, CpuAparte, Presencia
    <3>2. EnNucleo'
      BY <2>1, <2>2, <2>3, <2>5 DEF Inv, Firme, EnNucleo, Trayendo
    <3> QED
      BY <3>1, <3>2
  <2>9. Orden /\ ~confundido' => Orden'
    <3> SUFFICES ASSUME Orden, ~confundido' PROVE Orden'
      OBVIOUS
    <3>1. Acertado'
      BY <2>1, <2>2, <2>5, <2>6 DEF Orden, Acertado
    <3>2. FaltaAfuera' /\ Marcada'
      BY <2>1, <2>2, <2>5 DEF Orden, FaltaAfuera, Marcada
    <3>3. nucleo.pc # "escribe" /\ nucleo'.pc # "escribe"
      BY <2>2, <2>5
    <3> QED
      BY <2>1, <3>1, <3>2, <3>3, OrdenQuieto DEF Orden
  <2> QED
    BY <2>6, <2>7, <2>8, <2>9 DEF Inv, Firme
<1> QED
  BY <1>2, <1>3

LEMMA PasoToma == Inv /\ TraerToma => Inv'
<1> SUFFICES ASSUME Inv, TraerToma PROVE Inv'
  OBVIOUS
<1>1. /\ UNCHANGED <<algoritmo, id, procesos, tp, marcos_libres, proximas_victimas>>
      /\ UNCHANGED <<pid_comparador, mutex_memoria, reloj, cpu, creados, estado, pagina_pf>>
      /\ UNCHANGED <<traducciones, copia, cruzadas, confundido, fallo>>
      /\ nucleo.pc = "trae" /\ nucleo' = [nucleo EXCEPT !.pc = "elige"]
      /\ mutex_procesos > 0 /\ mutex_procesos' = mutex_procesos - 1
  BY DEF TraerToma, tablas, externo, datos
<1>2. /\ TipoTp => TipoTp'
      /\ Vivas' = Vivas /\ ConMarco' = ConMarco /\ \A g : Entrada(g)' = Entrada(g)
  BY <1>1, TablaIgual
<1>3. /\ nucleo' \in Nucleos /\ nucleo'.pc = "elige" /\ nucleo'.p = nucleo.p
      /\ nucleo'.n = nucleo.n /\ nucleo'.q = nucleo.q
  BY <1>1 DEF Nucleos, EtapasNucleo, Inv, Firme, Tipos, TipoHilos
<1>4. Tipos'
  <2>1. mutex_procesos' \in Nat
    BY <1>1 DEF Inv, Firme, Tipos, TipoCerrojos
  <2> QED
    BY <1>1, <1>2, <1>3, <2>1 DEF Inv, Firme, Tipos, TipoListas, TipoCuentas, TipoCerrojos,
       TipoHilos, TipoExterno, TipoDatos, TipoResto, TipoLogico, Cpus
<1>5. SinCrear' /\ EnNucleo' /\ CpuAparte' /\ Presencia'
  BY <1>1, <1>2, <1>3 DEF Inv, Firme, SinCrear, EnNucleo, CpuAparte, Presencia, Trayendo
<1>6. Orden => Orden'
  <2> SUFFICES ASSUME Orden PROVE Orden'
    OBVIOUS
  <2>1. Acertado' /\ FaltaAfuera' /\ Marcada'
    BY <1>1, <1>3 DEF Orden, Acertado, FaltaAfuera, Marcada
  <2> QED
    BY <1>1, <1>3, <2>1, OrdenQuieto DEF Orden
<1> QED
  BY <1>1, <1>4, <1>5, <1>6 DEF Inv, Firme

LEMMA PasoQuita == Inv /\ FinQuita => Inv'
<1> SUFFICES ASSUME Inv, FinQuita PROVE Inv'
  OBVIOUS
<1>1. /\ UNCHANGED <<algoritmo, id, tp, marcos_libres, proximas_victimas>>
      /\ UNCHANGED <<pid_comparador, mutex_procesos, mutex_memoria, reloj, cpu, creados>>
      /\ UNCHANGED <<pagina_pf, traducciones, copia, cruzadas, confundido>>
      /\ nucleo.pc = "quita" /\ nucleo' = Ocioso
      /\ procesos' = RemoveFirst(procesos, nucleo.q)
      /\ estado' = [estado EXCEPT ![nucleo.p] = "fin"]
  BY DEF FinQuita, cerrojos, datos
<1>2. fallo' \in BOOLEAN
  BY DEF FinQuita
<1>3. /\ TipoTp => TipoTp'
      /\ Vivas' = Vivas /\ ConMarco' = ConMarco /\ \A g : Entrada(g)' = Entrada(g)
  BY <1>1, TablaIgual
<1>4. nucleo' \in Nucleos /\ nucleo'.pc = "libre" /\ nucleo'.p = Nulo
  BY <1>1 DEF Nucleos, EtapasNucleo, Ocioso
<1>5. /\ nucleo.p \in Pid /\ estado'[nucleo.p] = "fin"
      /\ \A p \in Pid : p # nucleo.p => estado'[p] = estado[p]
      /\ estado' \in [Pid -> {"listo", "falta", "fin"}]
  BY <1>1 DEF Inv, Firme, EnNucleo, Tipos, TipoExterno
<1>6. procesos' \in Seq(Pid)
  BY <1>1, AlQuitarPrimero DEF Inv, Firme, Tipos, TipoListas
<1>7. Tipos'
  BY <1>1, <1>2, <1>3, <1>4, <1>5, <1>6 DEF Inv, Firme, Tipos, TipoListas, TipoCuentas,
     TipoCerrojos, TipoHilos, TipoExterno, TipoDatos, TipoResto, TipoLogico, Cpus
<1>8. SinCrear' /\ EnNucleo' /\ CpuAparte' /\ Presencia'
  BY <1>1, <1>3, <1>4, <1>5, Numeros
     DEF Inv, Firme, SinCrear, EnNucleo, CpuAparte, Presencia, Trayendo
<1>9. Orden => Orden'
  <2> SUFFICES ASSUME Orden PROVE Orden'
    OBVIOUS
  <2>1. Acertado' /\ FaltaAfuera' /\ Marcada'
    BY <1>1, <1>4, <1>5 DEF Orden, Acertado, FaltaAfuera, Marcada
  <2> QED
    BY <1>1, <1>4, <2>1, OrdenQuieto DEF Orden
<1> QED
  BY <1>1, <1>7, <1>8, <1>9 DEF Inv, Firme

-----------------------------------------------------------------------------
(* The steps that change the tables *)

\* A step that changes no frame of the entries nor which are in memory.
LEMMA MarcosIguales ==
  ASSUME Vivas' = Vivas,
         \A g \in Vivas : Entrada(g)'.marco = Entrada(g).marco
                          /\ Entrada(g)'.presente = Entrada(g).presente
  PROVE  /\ ConMarco' = ConMarco
         /\ {Entrada(g).marco : g \in ConMarco}' = {Entrada(g).marco : g \in ConMarco}
<1>1. ConMarco' = ConMarco
  BY DEF ConMarco
<1>2. \A g \in ConMarco : Entrada(g)'.marco = Entrada(g).marco
  BY DEF ConMarco
<1> QED
  BY <1>1, <1>2

LEMMA PasoMarca == Inv /\ CpuMarca => Inv'
<1> SUFFICES ASSUME Inv, CpuMarca PROVE Inv'
  OBVIOUS
<1>1. CASE Cae
  BY <1>1, PasoCae
<1>2. CASE ~Cae
  <2>1. PICK r \in Hallados(cpu.p), t \in Instantes :
          /\ TieneTabla(r, cpu.n) /\ reloj' = t
          /\ tp' = [tp EXCEPT ![r][cpu.n] = [@ EXCEPT
                      !.modificado = tp[r][cpu.n].modificado \/ cpu.op = "WRITE",
                      !.ultimo_acceso = t]]
          /\ cpu' = [cpu EXCEPT !.pc = "copia", !.q = r]
          /\ mutex_procesos' = mutex_procesos + 1
    BY <1>2 DEF CpuMarca
  <2>2. /\ UNCHANGED <<algoritmo, id, procesos, marcos_libres, proximas_victimas>>
        /\ UNCHANGED <<pid_comparador, mutex_memoria, nucleo, creados, estado, pagina_pf>>
        /\ UNCHANGED <<traducciones, copia, cruzadas, confundido, fallo>>
        /\ cpu.pc = "marca"
    BY <1>2 DEF CpuMarca, externo, datos
  <2>3. /\ cpu.p \in Pid /\ cpu.n \in NroPag(cpu.p) /\ cpu \in Cpus
    BY <2>2 DEF Inv, Firme, CpuAparte, Tipos, TipoHilos
  <2>4. r \in Pid /\ cpu.n \in DOMAIN tp[r]
    BY <2>1, <2>3, HalladoEs DEF TieneTabla, Inv, Firme, Tipos
  <2>5. t \in Nat
    BY DEF Instantes, Inv, Firme, Tipos, TipoCuentas
  <2>a. PICK n : n = cpu.n
    OBVIOUS
  <2>b. PICK y : y = tp[r][n]
    OBVIOUS
  <2>c. PICK w \in BOOLEAN : w = (cpu.op = "WRITE")
    OBVIOUS
  <2>d. PICK x : x = [y EXCEPT !.modificado = y.modificado \/ w, !.ultimo_acceso = t]
    OBVIOUS
  <2>6. tp' = [tp EXCEPT ![r][n] = x]
    BY <2>1, <2>a, <2>b, <2>c, <2>d
  <2>7. y \in Entradas
    BY <2>4, <2>a, <2>b, TablaEs DEF Inv, Firme, Tipos
  <2>8. x \in Entradas /\ x.marco = y.marco /\ x.presente = y.presente
        /\ x.modificado = (y.modificado \/ w)
    BY <2>5, <2>7, <2>d DEF Entradas
  <2>9. /\ TipoTp' /\ Vivas' = Vivas /\ \A p \in Pid : DOMAIN tp'[p] = DOMAIN tp[p]
        /\ \A p \in Pid : tp'[p] = <<>> <=> tp[p] = <<>>
        /\ tp'[r][n] = x /\ Entrada(<<r, n>>)' = x
        /\ \A p \in Pid : \A k \in DOMAIN tp[p] : p # r \/ k # n => tp'[p][k] = tp[p][k]
        /\ \A g \in Vivas \ {<<r, n>>} : Entrada(g)' = Entrada(g)
    <3>1. n \in DOMAIN tp[r] /\ x \in Entradas /\ TipoTp
      BY <2>4, <2>8, <2>a DEF Inv, Firme, Tipos
    <3> HIDE DEF Inv
    <3> QED
      BY <2>4, <2>6, <3>1, TablaCambia
  <2>10. \A g \in Vivas : /\ Entrada(g)'.marco = Entrada(g).marco
                          /\ Entrada(g)'.presente = Entrada(g).presente
                          /\ ~Entrada(g)'.modificado => ~Entrada(g).modificado
    <3>1. Entrada(<<r, n>>) = y
      BY <2>b DEF Entrada
    <3> QED
      BY <2>8, <2>9, <3>1
  <2>11. \A p \in Pid : \A k \in DOMAIN tp[p] : tp'[p][k].marco = tp[p][k].marco
    BY <2>8, <2>9, <2>b
  <2>12. /\ ConMarco' = ConMarco
         /\ {Entrada(g).marco : g \in ConMarco}' = {Entrada(g).marco : g \in ConMarco}
    BY <2>9, <2>10, MarcosIguales
  <2>13. cpu' \in Cpus /\ cpu'.pc = "copia" /\ cpu'.p = cpu.p /\ cpu'.n = n /\ cpu'.q = r
         /\ cpu'.op = cpu.op
    BY <2>1, <2>3, <2>4, <2>a DEF Cpus
  <2>14. Tipos'
    <3>1. mutex_procesos' \in Nat
      BY <2>1 DEF Inv, Firme, Tipos, TipoCerrojos
    <3> QED
      BY <2>1, <2>2, <2>5, <2>9, <2>13, <3>1 DEF Inv, Firme, Tipos, TipoListas, TipoCuentas,
         TipoCerrojos, TipoHilos, TipoExterno, TipoDatos, TipoResto, TipoLogico, Nucleos,
         EtapasNucleo
  <2>15. SinCrear' /\ EnNucleo' /\ CpuAparte' /\ Presencia'
    <3>1. SinCrear'
      BY <2>2, <2>9 DEF Inv, Firme, SinCrear
    <3>2. EnNucleo'
      BY <2>2, <2>9, <2>11 DEF Inv, Firme, EnNucleo, Trayendo
    <3>3. CpuAparte'
      BY <2>2, <2>13, <2>a DEF Inv, Firme, CpuAparte
    <3>4. Presencia'
      BY <2>9, <2>10 DEF Inv, Firme, Presencia
    <3> QED
      BY <3>1, <3>2, <3>3, <3>4
  <2>16. Orden => Orden'
    <3> SUFFICES ASSUME Orden PROVE Orden'
      OBVIOUS
    <3>1. Acertado'
      BY <2>2, <2>13 DEF Orden, Acertado
    <3>2. FaltaAfuera'
      BY <2>2, <2>9, <2>11 DEF Orden, FaltaAfuera
    <3>3. Usados'
      BY <2>2, <2>12 DEF Orden, Usados, EnUso
    <3>4. UnoCada'
      BY <2>10, <2>12 DEF Orden, UnoCada, ConMarco
    <3>5. Cargadas'
      BY <2>2, <2>9, <2>10, <2>12 DEF Orden, Cargadas, Nueva
    <3>6. UltimaViva'
      BY <2>2, <2>12 DEF Orden, UltimaViva
    <3>7. Contenido'
      BY <2>2, <2>9, <2>10 DEF Orden, Contenido
    <3>8. Marcada'
      <4>1. r = cpu.p => n \in DOMAIN tp'[cpu.p] /\ (cpu.op = "WRITE" => tp'[cpu.p][n].modificado)
        BY <2>4, <2>8, <2>9, <2>a, <2>c
      <4> QED
        BY <2>13, <4>1 DEF Marcada
    <3> QED
      BY <3>1, <3>2, <3>3, <3>4, <3>5, <3>6, <3>7, <3>8 DEF Orden
  <2> QED
    BY <2>2, <2>14, <2>15, <2>16 DEF Inv, Firme
<1> QED
  BY <1>1, <1>2

LEMMA PasoCrea == Inv /\ CrearProceso => Inv'
<1> SUFFICES ASSUME Inv, CrearProceso PROVE Inv'
  OBVIOUS
<1>1. /\ UNCHANGED <<algoritmo, marcos_libres, proximas_victimas, pid_comparador>>
      /\ UNCHANGED <<mutex_procesos, mutex_memoria, reloj, nucleo, cpu, creados, estado>>
      /\ UNCHANGED <<pagina_pf, traducciones, copia, cruzadas, confundido, fallo>>
      /\ nucleo.pc = "libre" /\ id < creados
      /\ id' = id + 1 /\ procesos' = Append(procesos, id)
      /\ tp' = [tp EXCEPT ![id] = [n \in NroPag(id) |-> EntradaNueva]]
  BY DEF CrearProceso, cerrojos, externo, datos
<1>2. PICK r : r = id
  OBVIOUS
<1>3. /\ r \in Pid /\ r < creados /\ creados \in 0 .. MaxProcesos /\ id' \in 0 .. MaxProcesos
      /\ id' <= creados /\ \A p \in Pid : p >= r => tp[p] = <<>>
  BY <1>1, <1>2, MemoriaOK DEF Pid, Inv, Firme, Tipos, TipoCuentas, SinCrear
<1>4. EntradaNueva \in Entradas /\ ~EntradaNueva.presente /\ ~EntradaNueva.modificado
      /\ EntradaNueva.marco = -1
  BY DEF EntradaNueva, Entradas
<1>5. TipoTp /\ DOMAIN tp = Pid
  BY DEF Inv, Firme, Tipos, TipoTp
<1>6. /\ tp'[r] = [n \in NroPag(r) |-> EntradaNueva] /\ tp[r] = <<>>
      /\ \A p \in Pid : p # r => tp'[p] = tp[p]
  BY <1>1, <1>2, <1>3, <1>5, Numeros
<1>7. /\ tp'[r] \in [NroPag(r) -> Entradas] /\ tp'[r] # <<>>
      /\ \A n \in NroPag(r) : tp'[r][n] = EntradaNueva
  <2>1. 0 \in DOMAIN tp'[r]
    BY <1>3, <1>6, Numeros
  <2> QED
    BY <1>4, <1>6, <2>1
<1>8. TipoTp'
  <2>1. tp' = [p \in Pid |-> tp'[p]]
    BY <1>1, <1>2, <1>5
  <2>2. \A p \in Pid : tp'[p] = <<>> \/ tp'[p] \in [NroPag(p) -> Entradas]
    BY <1>5, <1>6, <1>7 DEF TipoTp
  <2> QED
    BY <2>1, <2>2 DEF TipoTp, Entradas
<1>9. /\ Vivas \subseteq Vivas' /\ \A g \in Vivas' : g \in Vivas \/ g[1] = r
      /\ \A g \in Vivas : g[1] # r /\ Entrada(g)' = Entrada(g)
      /\ \A g \in Vivas' : g[1] = r => Entrada(g)' = EntradaNueva
  <2>1. \A g \in Vivas : g[1] # r
    BY <1>6 DEF Vivas
  <2>2. Vivas \subseteq Vivas' /\ \A g \in Vivas' : g \in Vivas \/ g[1] = r
    BY <1>6, <2>1, PaginaEs DEF Vivas
  <2>3. \A g \in Vivas : Entrada(g)' = Entrada(g)
    BY <1>6, <2>1, PaginaEs DEF Vivas, Entrada
  <2>4. \A g \in Vivas' : g[1] = r => Entrada(g)' = EntradaNueva
    BY <1>7, PaginaEs DEF Vivas, Entrada
  <2> QED
    BY <2>1, <2>2, <2>3, <2>4
<1>10. /\ ConMarco' = ConMarco
       /\ {Entrada(g).marco : g \in ConMarco}' = {Entrada(g).marco : g \in ConMarco}
  <2>1. \A g \in Vivas' : g \in ConMarco' <=> g \in ConMarco
    BY <1>4, <1>9 DEF ConMarco
  <2>2. ConMarco' = ConMarco
    BY <1>9, <2>1 DEF ConMarco
  <2>3. \A g \in ConMarco : Entrada(g)' = Entrada(g)
    BY <1>9 DEF ConMarco
  <2> QED
    BY <2>2, <2>3
<1>11. Tipos'
  <2>1. procesos' \in Seq(Pid)
    BY <1>1, <1>2, <1>3 DEF Inv, Firme, Tipos, TipoListas
  <2>2. TipoListas'
    BY <1>1, <2>1 DEF Inv, Firme, Tipos, TipoListas
  <2>3. TipoCuentas' /\ TipoCerrojos'
    BY <1>1, <1>3 DEF Inv, Firme, Tipos, TipoCuentas, TipoCerrojos
  <2>4. TipoHilos' /\ TipoExterno' /\ TipoDatos' /\ TipoResto' /\ TipoLogico'
    BY <1>1 DEF Inv, Firme, Tipos, TipoHilos, TipoExterno, TipoDatos, TipoResto, TipoLogico,
       Nucleos, Cpus, EtapasNucleo
  <2> QED
    BY <1>8, <2>2, <2>3, <2>4 DEF Tipos
<1>12. SinCrear' /\ EnNucleo' /\ CpuAparte' /\ Presencia'
  <2>1. SinCrear'
    BY <1>1, <1>2, <1>3, <1>6, Numeros DEF SinCrear
  <2>2. EnNucleo' /\ CpuAparte'
    BY <1>1 DEF Inv, Firme, EnNucleo, CpuAparte, Trayendo
  <2>3. Presencia'
    BY <1>4, <1>9 DEF Inv, Firme, Presencia
  <2> QED
    BY <2>1, <2>2, <2>3
<1>13. Orden => Orden'
  <2> SUFFICES ASSUME Orden PROVE Orden'
    OBVIOUS
  <2>1. Acertado'
    BY <1>1 DEF Orden, Acertado
  <2>2. FaltaAfuera'
    BY <1>1, <1>6 DEF Orden, FaltaAfuera
  <2>3. Usados'
    BY <1>1, <1>10 DEF Orden, Usados, EnUso
  <2>4. UnoCada'
    BY <1>9, <1>10 DEF Orden, UnoCada, ConMarco
  <2>5. Cargadas'
    <3>1. \A g \in Vivas' : g[1] = r => g \notin ConMarco' /\ ~Entrada(g)'.presente
      BY <1>4, <1>9, <1>10 DEF ConMarco
    <3> QED
      BY <1>1, <1>9, <1>10, <3>1 DEF Orden, Cargadas, Nueva
  <2>6. UltimaViva'
    BY <1>1, <1>10 DEF Orden, UltimaViva
  <2>7. Contenido'
    <3>1. \A g \in Paginas : g[1] >= r => copia'[g] = {"swap"}
      BY <1>1, <1>2 DEF Orden, Contenido
    <3>2. ASSUME NEW g \in Vivas' \ cruzadas'
          PROVE  /\ Entrada(g)'.presente => "marco" \in copia'[g]
                 /\ ~Entrada(g)'.presente \/ ~Entrada(g)'.modificado => "swap" \in copia'[g]
      <4>1. CASE g \in Vivas
        BY <1>1, <1>9, <4>1 DEF Orden, Contenido
      <4>2. CASE g[1] = r
        BY <1>3, <1>4, <1>9, <3>1, <4>2, Numeros DEF Vivas
      <4> QED
        BY <1>9, <4>1, <4>2
    <3>3. \A g \in Paginas : g[1] >= id' => copia'[g] = {"swap"}
      BY <1>1, <1>2, <1>3, <3>1, PaginaEs, Numeros
    <3> QED
      BY <3>2, <3>3 DEF Contenido
  <2>8. Marcada'
    BY <1>1, <1>6 DEF Orden, Marcada, Inv, Firme, CpuAparte
  <2> QED
    BY <2>1, <2>2, <2>3, <2>4, <2>5, <2>6, <2>7, <2>8 DEF Orden
<1> QED
  BY <1>1, <1>11, <1>12, <1>13 DEF Inv, Firme

LEMMA PasoLibre == Inv /\ TraerLibre => Inv'
<1> SUFFICES ASSUME Inv, TraerLibre PROVE Inv'
  OBVIOUS
<1>a. PICK r : r = nucleo.q
  OBVIOUS
<1>b. PICK n : n = nucleo.n
  OBVIOUS
<1>c. PICK y : y = tp[r][n]
  OBVIOUS
<1>d. PICK m : m = Min(Marcos \ marcos_libres)
  OBVIOUS
<1>e. PICK x : x = [y EXCEPT !.marco = m]
  OBVIOUS
<1>1. /\ UNCHANGED <<algoritmo, id, procesos, marcos_libres, pid_comparador, reloj, cpu>>
      /\ UNCHANGED <<creados, estado, pagina_pf, traducciones, copia, cruzadas, confundido>>
      /\ UNCHANGED fallo
      /\ nucleo.pc = "elige" /\ mutex_memoria > 0 /\ marcos_libres # Marcos
      /\ tp' = [tp EXCEPT ![r][n].marco = m]
      /\ nucleo' = [nucleo EXCEPT !.pc = "escribe", !.m = m]
      /\ proximas_victimas' = IF algoritmo = "FIFO" THEN Append(proximas_victimas, <<r, n>>)
                                                    ELSE proximas_victimas
      /\ mutex_memoria' = mutex_memoria - 1 /\ mutex_procesos' = mutex_procesos + 1
  BY <1>a, <1>b, <1>d DEF TraerLibre, externo, datos, Nueva
<1>2. r \in Pid /\ n \in DOMAIN tp[r] /\ y \in Entradas /\ n \in NroPag(r) /\ nucleo \in Nucleos
      /\ TipoTp
  <2>1. r \in Pid /\ n \in DOMAIN tp[r] /\ nucleo \in Nucleos /\ TipoTp
    BY <1>1, <1>a, <1>b DEF Inv, Firme, EnNucleo, Tipos, TipoHilos
  <2> QED
    BY <1>c, <2>1, TablaEs
<1>3. m \in Marcos /\ m \notin marcos_libres
  <2>1. Marcos \ marcos_libres # {} /\ Marcos \ marcos_libres \subseteq Nat
    BY <1>1, Numeros DEF Inv, Firme, Tipos, TipoResto
  <2>2. m \in Marcos \ marcos_libres
    BY <1>d, <2>1, MinEs
  <2> QED
    BY <2>2
<1>4. tp' = [tp EXCEPT ![r][n] = x]
  BY <1>1, <1>c, <1>e
<1>5. /\ x \in Entradas /\ x.marco = m /\ x.presente = y.presente /\ x.modificado = y.modificado
      /\ m # -1
  BY <1>2, <1>3, <1>e, Numeros DEF Entradas
<1>6. /\ TipoTp' /\ Vivas' = Vivas /\ \A p \in Pid : DOMAIN tp'[p] = DOMAIN tp[p]
      /\ \A p \in Pid : tp'[p] = <<>> <=> tp[p] = <<>>
      /\ tp'[r][n] = x /\ Entrada(<<r, n>>)' = x
      /\ \A p \in Pid : \A k \in DOMAIN tp[p] : p # r \/ k # n => tp'[p][k] = tp[p][k]
      /\ \A g \in Vivas \ {<<r, n>>} : Entrada(g)' = Entrada(g)
  BY <1>2, <1>4, <1>5, TablaCambia
<1>7. PICK nueva : nueva = <<r, n>>
  OBVIOUS
<1>8. nueva \in Vivas /\ nueva \in Paginas /\ Entrada(nueva) = y /\ Entrada(nueva)' = x
      /\ Nueva = nueva /\ Nueva' = nueva
  <2>1. nueva \in Vivas /\ nueva \in Paginas /\ Entrada(nueva) = y
    BY <1>2, <1>7, <1>c, TablaEs, PaginaEs
  <2>2. nucleo'.q = r /\ nucleo'.n = n
    BY <1>1, <1>2, <1>a, <1>b DEF Nucleos
  <2> QED
    BY <1>6, <1>7, <1>a, <1>b, <2>1, <2>2 DEF Nueva
<1>9. /\ nucleo' \in Nucleos /\ nucleo'.pc = "escribe" /\ nucleo'.p = nucleo.p
      /\ nucleo'.n = n /\ nucleo'.q = r /\ nucleo'.m = m
  BY <1>1, <1>2, <1>3, <1>a, <1>b DEF Nucleos, EtapasNucleo
<1>10. ConMarco' = ConMarco \cup {nueva} /\ \A g \in ConMarco \ {nueva} : Entrada(g)' = Entrada(g)
  BY <1>5, <1>6, <1>7, <1>8 DEF ConMarco
<1>11. Tipos'
  <2>1. mutex_memoria = 1 /\ mutex_memoria' = 0 /\ mutex_procesos' \in Nat
    BY <1>1 DEF Inv, Firme, Tipos, TipoCerrojos
  <2>2. TipoListas'
    BY <1>1, <1>7, <1>8 DEF Inv, Firme, Tipos, TipoListas
  <2>3. TipoCuentas' /\ TipoCerrojos' /\ TipoHilos'
    BY <1>1, <1>9, <2>1 DEF Inv, Firme, Tipos, TipoCuentas, TipoCerrojos, TipoHilos, Cpus
  <2>4. TipoExterno' /\ TipoDatos' /\ TipoResto' /\ TipoLogico'
    BY <1>1 DEF Inv, Firme, Tipos, TipoExterno, TipoDatos, TipoResto, TipoLogico
  <2> QED
    BY <1>6, <2>2, <2>3, <2>4 DEF Tipos
<1>12. SinCrear' /\ EnNucleo' /\ CpuAparte' /\ Presencia'
  <2>1. SinCrear' /\ CpuAparte'
    BY <1>1, <1>6, <1>9 DEF Inv, Firme, SinCrear, CpuAparte
  <2>2. EnNucleo'
    BY <1>1, <1>2, <1>3, <1>5, <1>6, <1>9, <1>a, <1>b DEF Inv, Firme, EnNucleo, Trayendo
  <2>3. Presencia'
    BY <1>5, <1>6, <1>7, <1>8 DEF Inv, Firme, Presencia
  <2> QED
    BY <2>1, <2>2, <2>3
<1>13. Orden => Orden'
  <2> SUFFICES ASSUME Orden PROVE Orden'
    OBVIOUS
  <2>1. r = nucleo.p /\ y.marco = -1 /\ nueva \notin ConMarco
    <3>1. r = nucleo.p /\ estado[r] = "falta" /\ n = pagina_pf[r]
      BY <1>1, <1>a, <1>b DEF Orden, Acertado, Inv, Firme, EnNucleo, Trayendo
    <3>2. tp[r][n].marco = -1
      BY <1>1, <1>2, <3>1 DEF Orden, FaltaAfuera
    <3> QED
      BY <1>8, <1>c, <3>1, <3>2 DEF ConMarco
  <2>2. Acertado'
    BY <1>1, <1>9, <2>1 DEF Orden, Acertado
  <2>3. FaltaAfuera'
    BY <1>1, <1>2, <1>6, <1>9, <2>1 DEF Orden, FaltaAfuera
  <2>4. Usados'
    <3>1. {Entrada(g).marco : g \in ConMarco}' = {Entrada(g).marco : g \in ConMarco} \cup {m}
      BY <1>5, <1>8, <1>10, <2>1
    <3>2. EnUso' = EnUso \cup {m}
      BY <1>1, <1>9 DEF EnUso
    <3> QED
      BY <3>1, <3>2 DEF Orden, Usados
  <2>5. UnoCada'
    <3>1. \A g \in ConMarco : Entrada(g)'.marco = Entrada(g).marco /\ Entrada(g).marco # m
      BY <1>1, <1>3, <1>10, <2>1 DEF Orden, Usados, EnUso
    <3>2. \A g, h \in ConMarco : Entrada(g).marco = Entrada(h).marco => g = h
      BY DEF Orden, UnoCada
    <3>3. Entrada(nueva)'.marco = m
      BY <1>5, <1>8
    <3> QED
      BY <1>10, <3>1, <3>2, <3>3 DEF UnoCada
  <2>6. Cargadas'
    <3>1. \A g \in Vivas : Entrada(g).presente <=> g \in ConMarco
      BY <1>1 DEF Orden, Cargadas
    <3>2. ~Entrada(nueva)'.presente
      BY <1>5, <1>8, <2>1, <3>1
    <3>3. \A g \in Vivas \ {nueva} : Entrada(g)'.presente <=> g \in ConMarco
      BY <1>6, <1>7, <3>1
    <3> QED
      BY <1>6, <1>8, <1>9, <1>10, <3>2, <3>3 DEF Cargadas
  <2>7. UltimaViva'
    <3>1. algoritmo = "FIFO" => proximas_victimas' # <<>> /\ Last(proximas_victimas') = nueva
      BY <1>1, <1>7, <1>8 DEF Last, Inv, Firme, Tipos, TipoListas
    <3> QED
      BY <1>1, <1>10, <3>1 DEF UltimaViva
  <2>8. Contenido'
    <3>1. \A g \in Vivas : /\ Entrada(g)'.presente = Entrada(g).presente
                           /\ Entrada(g)'.modificado = Entrada(g).modificado
      BY <1>5, <1>6, <1>7, <1>8
    <3> QED
      BY <1>1, <1>6, <3>1 DEF Orden, Contenido
  <2>9. Marcada'
    <3>1. \A p \in Pid : \A k \in DOMAIN tp[p] : tp'[p][k].modificado = tp[p][k].modificado
      BY <1>5, <1>6, <1>c
    <3> QED
      BY <1>1, <1>6, <3>1 DEF Orden, Marcada, Inv, Firme, CpuAparte
  <2> QED
    BY <2>2, <2>3, <2>4, <2>5, <2>6, <2>7, <2>8, <2>9 DEF Orden
<1> QED
  BY <1>1, <1>11, <1>12, <1>13 DEF Inv, Firme

LEMMA PasoEscribe == Inv /\ TraerEscribe => Inv'
<1> SUFFICES ASSUME Inv, TraerEscribe PROVE Inv'
  OBVIOUS
<1>a. PICK r : r = nucleo.q
  OBVIOUS
<1>b. PICK n : n = nucleo.n
  OBVIOUS
<1>c. PICK y : y = tp[r][n]
  OBVIOUS
<1>d. PICK nueva : nueva = <<r, n>>
  OBVIOUS
<1>1. PICK t \in Instantes :
        /\ reloj' = t
        /\ tp' = [tp EXCEPT ![r][n] = [@ EXCEPT !.presente = TRUE, !.ultimo_acceso = t]]
  BY <1>a, <1>b DEF TraerEscribe
<1>e. PICK x : x = [y EXCEPT !.presente = TRUE, !.ultimo_acceso = t]
  OBVIOUS
<1>2. /\ UNCHANGED <<algoritmo, id, procesos, proximas_victimas, pid_comparador, cpu, creados>>
      /\ UNCHANGED <<traducciones, confundido, fallo>>
      /\ nucleo.pc = "escribe" /\ marcos_libres' = marcos_libres \cup {nucleo.m}
      /\ mutex_memoria' = mutex_memoria + 1 /\ mutex_procesos' = mutex_procesos + 1
      /\ estado' = [estado EXCEPT ![nucleo.p] = "listo"]
      /\ pagina_pf' = [pagina_pf EXCEPT ![nucleo.p] = 0]
      /\ nucleo' = Ocioso
  BY DEF TraerEscribe, SueltaAlTerminar
<1>f. PICK limpia \in BOOLEAN : limpia <=> nucleo.origen = nucleo.p /\ nucleo.q = nucleo.p
  OBVIOUS
<1>g. PICK c : c = copia[nueva]
  OBVIOUS
<1>3. /\ cruzadas' = IF limpia THEN cruzadas ELSE cruzadas \cup {nueva}
      /\ copia' = [copia EXCEPT ![nueva] =
                     IF ~limpia THEN c
                     ELSE IF "swap" \in c THEN {"marco", "swap"} ELSE c \ {"marco"}]
  BY <1>a, <1>b, <1>d, <1>f, <1>g DEF TraerEscribe, Nueva
<1>4. /\ r \in Pid /\ n \in DOMAIN tp[r] /\ y \in Entradas /\ y.marco = nucleo.m
      /\ nucleo.m \in Marcos /\ nucleo.m # -1 /\ nucleo.p \in Pid /\ nucleo \in Nucleos
      /\ n \in NroPag(r) /\ TipoTp
  <2>1. r \in Pid /\ n \in DOMAIN tp[r] /\ nucleo \in Nucleos /\ y.marco = nucleo.m
        /\ nucleo.m \in Marcos /\ nucleo.p \in Pid /\ TipoTp
    BY <1>2, <1>a, <1>b, <1>c DEF Inv, Firme, EnNucleo, Tipos, TipoHilos
  <2> QED
    BY <1>c, <2>1, TablaEs, Numeros
<1>5. t \in Nat
  BY DEF Instantes, Inv, Firme, Tipos, TipoCuentas
<1>6. tp' = [tp EXCEPT ![r][n] = x]
  BY <1>1, <1>c, <1>e
<1>7. x \in Entradas /\ x.marco = y.marco /\ x.presente /\ x.modificado = y.modificado
  BY <1>4, <1>5, <1>e DEF Entradas
<1>8. /\ TipoTp' /\ Vivas' = Vivas /\ \A p \in Pid : DOMAIN tp'[p] = DOMAIN tp[p]
      /\ \A p \in Pid : tp'[p] = <<>> <=> tp[p] = <<>>
      /\ tp'[r][n] = x /\ Entrada(<<r, n>>)' = x
      /\ \A p \in Pid : \A k \in DOMAIN tp[p] : p # r \/ k # n => tp'[p][k] = tp[p][k]
      /\ \A g \in Vivas \ {<<r, n>>} : Entrada(g)' = Entrada(g)
  BY <1>4, <1>6, <1>7, TablaCambia
<1>9. nueva \in Vivas /\ nueva \in Paginas /\ Entrada(nueva) = y /\ Entrada(nueva)' = x
      /\ Nueva = nueva
  <2>1. nueva \in Vivas /\ nueva \in Paginas /\ Entrada(nueva) = y
    BY <1>4, <1>c, <1>d, TablaEs, PaginaEs
  <2> QED
    BY <1>8, <1>a, <1>b, <1>d, <2>1 DEF Nueva
<1>10. /\ nucleo' \in Nucleos /\ nucleo'.pc = "libre" /\ nucleo'.p = Nulo
       /\ estado'[nucleo.p] = "listo" /\ \A p \in Pid : p # nucleo.p => estado'[p] = estado[p]
       /\ \A p \in Pid : p # nucleo.p => pagina_pf'[p] = pagina_pf[p]
  BY <1>2, <1>4 DEF Nucleos, EtapasNucleo, Ocioso, Inv, Firme, Tipos, TipoExterno
<1>11. \A g \in Vivas : /\ Entrada(g)'.marco = Entrada(g).marco
                        /\ Entrada(g)'.modificado = Entrada(g).modificado
  BY <1>7, <1>8, <1>9, <1>d
<1>12. /\ ConMarco' = ConMarco
       /\ {Entrada(g).marco : g \in ConMarco}' = {Entrada(g).marco : g \in ConMarco}
  <2>1. ConMarco' = ConMarco
    BY <1>8, <1>11 DEF ConMarco
  <2>2. \A g \in ConMarco : Entrada(g)'.marco = Entrada(g).marco
    BY <1>11 DEF ConMarco
  <2> QED
    BY <2>1, <2>2
<1>13. /\ cruzadas \subseteq cruzadas' /\ cruzadas' \subseteq Paginas
       /\ copia' \in [Paginas -> SUBSET {"marco", "swap"}]
       /\ \A g \in Paginas : g # nueva => copia'[g] = copia[g]
       /\ nueva \notin cruzadas' /\ "swap" \in c => copia'[nueva] = {"marco", "swap"}
  <2>1. cruzadas \subseteq Paginas /\ copia \in [Paginas -> SUBSET {"marco", "swap"}]
    BY DEF Inv, Firme, Tipos, TipoDatos
  <2>2. c \in SUBSET {"marco", "swap"}
    BY <1>9, <1>g, <2>1
  <2> QED
    BY <1>3, <1>9, <2>1, <2>2
<1>14. Tipos'
  <2>1. mutex_memoria' = 1 /\ mutex_procesos' \in Nat
    BY <1>2 DEF Inv, Firme, Tipos, TipoCerrojos
  <2>2. TipoListas' /\ TipoCuentas' /\ TipoCerrojos'
    BY <1>1, <1>2, <1>5, <1>10, <2>1 DEF Inv, Firme, Tipos, TipoListas, TipoCuentas, TipoCerrojos
  <2>3. TipoHilos' /\ TipoResto' /\ TipoLogico' /\ TipoDatos'
    BY <1>2, <1>4, <1>10, <1>13
       DEF Inv, Firme, Tipos, TipoHilos, TipoResto, TipoLogico, TipoDatos, Cpus
  <2>4. TipoExterno'
    BY <1>2, <1>4 DEF Inv, Firme, Tipos, TipoExterno
  <2> QED
    BY <1>8, <2>2, <2>3, <2>4 DEF Tipos
<1>15. SinCrear' /\ EnNucleo' /\ CpuAparte' /\ Presencia'
  <2>1. SinCrear'
    BY <1>2, <1>8 DEF Inv, Firme, SinCrear
  <2>2. EnNucleo'
    BY <1>10 DEF EnNucleo, Trayendo
  <2>3. CpuAparte'
    BY <1>2, <1>10, Numeros DEF Inv, Firme, CpuAparte
  <2>4. Presencia'
    BY <1>4, <1>7, <1>8, <1>9, <1>d DEF Inv, Firme, Presencia
  <2> QED
    BY <2>1, <2>2, <2>3, <2>4
<1>16. Orden => Orden'
  <2> SUFFICES ASSUME Orden PROVE Orden'
    OBVIOUS
  <2>1. r = nucleo.p /\ nueva \in ConMarco
    BY <1>2, <1>4, <1>9, <1>a DEF Orden, Acertado, ConMarco
  <2>2. Acertado'
    BY <1>2, <1>10 DEF Orden, Acertado
  <2>3. FaltaAfuera'
    BY <1>8, <1>10, <2>1 DEF Orden, FaltaAfuera
  <2>4. Usados'
    <3>1. EnUso' = EnUso
      BY <1>2, <1>10 DEF EnUso
    <3> QED
      BY <1>12, <3>1 DEF Orden, Usados
  <2>5. UnoCada'
    BY <1>11, <1>12 DEF Orden, UnoCada, ConMarco
  <2>6. \A g \in Vivas : Entrada(g).presente <=> g \in ConMarco /\ g # nueva
    BY <1>2, <1>9 DEF Orden, Cargadas
  <2>7. Cargadas'
    <3>1. \A g \in Vivas : Entrada(g)'.presente <=> g \in ConMarco
      BY <1>7, <1>8, <1>9, <1>d, <2>1, <2>6
    <3> QED
      BY <1>8, <1>10, <1>12, <3>1 DEF Cargadas
  <2>8. UltimaViva'
    BY <1>2, <1>12 DEF Orden, UltimaViva
  <2>9. Contenido'
    <3>1. ASSUME NEW g \in Vivas \ cruzadas'
          PROVE  /\ Entrada(g)'.presente => "marco" \in copia'[g]
                 /\ ~Entrada(g)'.presente \/ ~Entrada(g)'.modificado => "swap" \in copia'[g]
      <4>1. g \in Vivas \ cruzadas /\ g \in Paginas
        BY <1>13, <3>1 DEF Vivas
      <4>2. CASE g = nueva
        <5>1. "swap" \in copia[nueva]
          BY <2>6, <4>1, <4>2 DEF Orden, Contenido
        <5> QED
          BY <1>13, <1>g, <3>1, <4>2, <5>1
      <4>3. CASE g # nueva
        <5>1. Entrada(g)' = Entrada(g) /\ copia'[g] = copia[g]
          BY <1>8, <1>13, <1>d, <4>1, <4>3
        <5> QED
          BY <4>1, <5>1 DEF Orden, Contenido
      <4> QED
        BY <4>2, <4>3
    <3>2. \A g \in Paginas : g[1] >= id => copia'[g] = {"swap"}
      <4>1. nueva[1] \in Pid /\ ~(nueva[1] >= id)
        BY <1>4, <1>9, PaginaEs DEF Inv, Firme, SinCrear, Vivas
      <4> QED
        BY <1>13, <4>1 DEF Orden, Contenido
    <3> QED
      BY <1>2, <1>8, <3>1, <3>2 DEF Contenido
  <2>10. Marcada'
    <3>1. \A p \in Pid : \A k \in DOMAIN tp[p] : tp'[p][k].modificado = tp[p][k].modificado
      BY <1>7, <1>8, <1>c
    <3> QED
      BY <1>2, <1>8, <3>1 DEF Orden, Marcada, Inv, Firme, CpuAparte
  <2> QED
    BY <2>2, <2>3, <2>4, <2>5, <2>7, <2>8, <2>9, <2>10 DEF Orden
<1> QED
  BY <1>2, <1>14, <1>15, <1>16 DEF Inv, Firme

\* The victim has a frame and is not the page that is coming in.
LEMMA VictimaEs ==
  ASSUME Firme, NEW v \in Victimas
  PROVE  v \in ConMarco /\ v # Nueva
<1>1. v # Nueva
  BY DEF Victimas
<1>2. CASE v \in VictimasFIFO
  BY <1>1, <1>2 DEF VictimasFIFO
<1>3. CASE v \in VictimasLRU
  <2>1. PICK i \in DOMAIN procesos : v \in Candidatas(i)
    BY <1>3 DEF VictimasLRU
  <2>2. PICK r : r = procesos[i]
    OBVIOUS
  <2>3. r \in Pid
    BY <2>2 DEF Firme, Tipos, TipoListas
  <2>4. PICK n \in Presentes(r) : v = <<r, n>>
    BY <2>1, <2>2 DEF Candidatas
  <2>5. n \in DOMAIN tp[r] /\ tp[r][n].presente
    BY <2>4 DEF Presentes
  <2>6. v \in Vivas /\ Entrada(v).presente
    BY <2>3, <2>4, <2>5, TablaEs DEF Firme, Tipos
  <2> QED
    BY <1>1, <2>6 DEF Firme, Presencia, ConMarco
<1> QED
  BY <1>2, <1>3 DEF Victimas

LEMMA PasoReemplaza == Inv /\ TraerReemplaza => Inv'
<1> SUFFICES ASSUME Inv, TraerReemplaza PROVE Inv'
  OBVIOUS
<1>1. CASE Cae
  BY <1>1, PasoCae
<1>2. CASE ~Cae
  <2>a. PICK r : r = nucleo.q
    OBVIOUS
  <2>b. PICK n : n = nucleo.n
    OBVIOUS
  <2>c. PICK nueva : nueva = <<r, n>>
    OBVIOUS
  <2>0. Nueva = nueva
    BY <2>a, <2>b, <2>c DEF Nueva
  <2>1. PICK v \in Victimas :
          /\ tp' = [p \in Pid |-> [k \in DOMAIN tp[p] |->
                      IF <<p, k>> = v THEN [EntradaNueva EXCEPT
                        !.modificado = tp[p][k].modificado,
                        !.ultimo_acceso = IF algoritmo = "LRU" THEN 0 ELSE tp[p][k].ultimo_acceso]
                      ELSE IF <<p, k>> = Nueva THEN [tp[p][k] EXCEPT !.marco = Entrada(v).marco]
                      ELSE tp[p][k]]]
          /\ nucleo' = [nucleo EXCEPT !.pc = "escribe", !.m = Entrada(v).marco]
          /\ copia' = [copia EXCEPT ![v] = AlSalir(v)]
          /\ proximas_victimas' = IF algoritmo = "FIFO" THEN Append(proximas_victimas, Nueva)
                                                        ELSE proximas_victimas
          /\ mutex_memoria' = mutex_memoria - 1
          /\ UNCHANGED <<algoritmo, id, procesos, marcos_libres, pid_comparador, mutex_procesos,
                         reloj, cpu, externo, cruzadas, confundido, fallo>>
    BY <1>2 DEF TraerReemplaza
  <2>d. PICK m : m = Entrada(v).marco
    OBVIOUS
  <2>2. /\ UNCHANGED <<algoritmo, id, procesos, marcos_libres, pid_comparador, reloj, cpu>>
        /\ UNCHANGED <<mutex_procesos, creados, estado, pagina_pf, traducciones, cruzadas>>
        /\ UNCHANGED <<confundido, fallo>>
        /\ nucleo.pc = "elige" /\ mutex_memoria > 0 /\ marcos_libres = Marcos
        /\ nucleo' = [nucleo EXCEPT !.pc = "escribe", !.m = m]
        /\ proximas_victimas' = IF algoritmo = "FIFO" THEN Append(proximas_victimas, nueva)
                                                      ELSE proximas_victimas
        /\ mutex_memoria' = mutex_memoria - 1
    BY <1>2, <2>0, <2>1, <2>d DEF TraerReemplaza, externo
  <2>3. r \in Pid /\ n \in DOMAIN tp[r] /\ n \in NroPag(r) /\ nucleo \in Nucleos /\ TipoTp
        /\ tp[r][n] \in Entradas
    <3>1. r \in Pid /\ n \in DOMAIN tp[r] /\ nucleo \in Nucleos /\ TipoTp
      BY <2>2, <2>a, <2>b DEF Inv, Firme, EnNucleo, Tipos, TipoHilos
    <3> QED
      BY <3>1, TablaEs
  <2>4. /\ nueva \in Vivas /\ nueva \in Paginas /\ nueva[1] = r /\ nueva[2] = n
    BY <2>3, <2>c, TablaEs, PaginaEs
  <2>5. v \in ConMarco /\ v # nueva /\ v \in Vivas /\ m # -1
    BY <2>0, <2>d, VictimaEs DEF Inv, ConMarco
  <2>6. /\ v[1] \in Pid /\ v[2] \in DOMAIN tp[v[1]] /\ v = <<v[1], v[2]>> /\ v \in Paginas
        /\ m \in Marcos
    BY <2>3, <2>5, <2>d, VivaEs
  <2>7. /\ tp' = [p \in Pid |-> tp'[p]]
        /\ \A p \in Pid : tp'[p] = [k \in DOMAIN tp[p] |-> tp'[p][k]]
        /\ \A p \in Pid : DOMAIN tp'[p] = DOMAIN tp[p]
        /\ \A p \in Pid : \A k \in DOMAIN tp[p] :
             /\ <<p, k>> = v => tp'[p][k] = [EntradaNueva EXCEPT
                  !.modificado = tp[p][k].modificado,
                  !.ultimo_acceso = IF algoritmo = "LRU" THEN 0 ELSE tp[p][k].ultimo_acceso]
             /\ <<p, k>> # v /\ <<p, k>> = nueva => tp'[p][k] = [tp[p][k] EXCEPT !.marco = m]
             /\ <<p, k>> # v /\ <<p, k>> # nueva => tp'[p][k] = tp[p][k]
    <3> DEFINE F(p, k) ==
          IF <<p, k>> = v THEN [EntradaNueva EXCEPT
            !.modificado = tp[p][k].modificado,
            !.ultimo_acceso = IF algoritmo = "LRU" THEN 0 ELSE tp[p][k].ultimo_acceso]
          ELSE IF <<p, k>> = nueva THEN [tp[p][k] EXCEPT !.marco = m]
          ELSE tp[p][k]
    <3>1. tp' = [p \in Pid |-> [k \in DOMAIN tp[p] |-> F(p, k)]]
      BY <2>0, <2>1, <2>d
    <3> HIDE DEF F
    <3>3. \A p \in Pid : tp'[p] = [k \in DOMAIN tp[p] |-> F(p, k)]
      BY <3>1
    <3>4. /\ \A p \in Pid : DOMAIN tp'[p] = DOMAIN tp[p]
          /\ \A p \in Pid : \A k \in DOMAIN tp[p] : tp'[p][k] = F(p, k)
      BY <3>3
    <3>5. tp' = [p \in Pid |-> tp'[p]] /\ \A p \in Pid : tp'[p] = [k \in DOMAIN tp[p] |-> tp'[p][k]]
      BY <3>1, <3>3
    <3>6. ASSUME NEW p \in Pid, NEW k \in DOMAIN tp[p]
          PROVE  /\ <<p, k>> = v => tp'[p][k] = [EntradaNueva EXCEPT
                      !.modificado = tp[p][k].modificado,
                      !.ultimo_acceso = IF algoritmo = "LRU" THEN 0 ELSE tp[p][k].ultimo_acceso]
                 /\ <<p, k>> # v /\ <<p, k>> = nueva => tp'[p][k] = [tp[p][k] EXCEPT !.marco = m]
                 /\ <<p, k>> # v /\ <<p, k>> # nueva => tp'[p][k] = tp[p][k]
      <4>1. tp'[p][k] = F(p, k)
        BY <3>4
      <4> QED
        BY <4>1 DEF F
    <3> QED
      BY <3>4, <3>5, <3>6
  <2>8. ASSUME NEW p \in Pid, NEW k \in DOMAIN tp[p]
        PROVE  /\ tp'[p][k] \in Entradas /\ tp'[p][k].modificado = tp[p][k].modificado
               /\ <<p, k>> = v => tp'[p][k].marco = -1 /\ ~tp'[p][k].presente
               /\ <<p, k>> = nueva => tp'[p][k].marco = m
                                      /\ tp'[p][k].presente = tp[p][k].presente
               /\ <<p, k>> # v /\ <<p, k>> # nueva => tp'[p][k] = tp[p][k]
    <3>1. PICK y : y = tp[p][k]
      OBVIOUS
    <3>2. PICK x : x = tp'[p][k]
      OBVIOUS
    <3>3. y \in Entradas
      BY <2>3, <3>1, TablaEs
    <3>4. CASE <<p, k>> = v
      <4>1. PICK u : u = IF algoritmo = "LRU" THEN 0 ELSE y.ultimo_acceso
        OBVIOUS
      <4>2. x = [EntradaNueva EXCEPT !.modificado = y.modificado, !.ultimo_acceso = u]
        BY <2>7, <3>1, <3>2, <3>4, <4>1
      <4>3. u \in Nat
        BY <3>3, <4>1 DEF Entradas
      <4>4. x \in Entradas /\ x.modificado = y.modificado /\ x.marco = -1 /\ ~x.presente
        BY <3>3, <4>2, <4>3 DEF Entradas, EntradaNueva
      <4> QED
        BY <2>5, <3>1, <3>2, <3>4, <4>4
    <3>5. CASE <<p, k>> = nueva
      <4>1. x = [y EXCEPT !.marco = m]
        BY <2>5, <2>7, <3>1, <3>2, <3>5
      <4>2. x \in Entradas /\ x.modificado = y.modificado /\ x.marco = m /\ x.presente = y.presente
        BY <2>6, <3>3, <4>1 DEF Entradas
      <4> QED
        BY <2>5, <3>1, <3>2, <3>5, <4>2
    <3>6. CASE <<p, k>> # v /\ <<p, k>> # nueva
      BY <2>7, <3>1, <3>3, <3>6
    <3> QED
      BY <3>4, <3>5, <3>6
  <2>9. \A p \in Pid : tp'[p] = <<>> <=> tp[p] = <<>>
    <3> SUFFICES ASSUME NEW p \in Pid PROVE tp'[p] = <<>> <=> tp[p] = <<>>
      OBVIOUS
    <3>1. PICK f : f = tp'[p]
      OBVIOUS
    <3>2. DOMAIN f = DOMAIN tp[p] /\ f = [k \in DOMAIN f |-> f[k]]
      BY <2>7, <3>1
    <3>3. CASE tp[p] = <<>>
      BY <3>1, <3>2, <3>3
    <3>4. CASE tp[p] # <<>>
      BY <2>3, <3>1, <3>2, <3>4, TablaEs
    <3> QED
      BY <3>3, <3>4
  <2>10. TipoTp'
    <3>2. \A p \in Pid : tp'[p] = <<>> \/ tp'[p] \in [NroPag(p) -> Entradas]
      <4> SUFFICES ASSUME NEW p \in Pid, tp[p] # <<>> PROVE tp'[p] \in [NroPag(p) -> Entradas]
        BY <2>9
      <4>1. DOMAIN tp[p] = NroPag(p)
        BY <2>3, TablaEs
      <4> QED
        BY <2>7, <2>8, <4>1
    <3> QED
      BY <2>7, <3>2 DEF TipoTp, Entradas
  <2>11. Vivas' = Vivas
    BY <2>9, PaginaEs DEF Vivas
  <2>12. /\ \A g \in Vivas : /\ Entrada(g)' = tp'[g[1]][g[2]] /\ Entrada(g) = tp[g[1]][g[2]]
                             /\ g[1] \in Pid /\ g[2] \in DOMAIN tp[g[1]] /\ <<g[1], g[2]>> = g
    BY <2>3, VivaEs DEF Entrada
  <2>13. /\ \A g \in Vivas : Entrada(g)'.modificado = Entrada(g).modificado
         /\ \A g \in Vivas \ {v, nueva} : Entrada(g)' = Entrada(g)
         /\ Entrada(v)'.marco = -1 /\ ~Entrada(v)'.presente
         /\ Entrada(nueva)'.marco = m /\ Entrada(nueva)'.presente = Entrada(nueva).presente
    <3>1. \A g \in Vivas : Entrada(g)'.modificado = Entrada(g).modificado
      BY <2>8, <2>12
    <3>2. \A g \in Vivas \ {v, nueva} : Entrada(g)' = Entrada(g)
      BY <2>8, <2>12
    <3>3. Entrada(v)'.marco = -1 /\ ~Entrada(v)'.presente
      BY <2>5, <2>8, <2>12
    <3>4. Entrada(nueva)'.marco = m /\ Entrada(nueva)'.presente = Entrada(nueva).presente
      BY <2>4, <2>8, <2>12
    <3> QED
      BY <3>1, <3>2, <3>3, <3>4
  <2>14. ConMarco' = (ConMarco \ {v}) \cup {nueva}
         /\ \A g \in ConMarco \ {v, nueva} : Entrada(g)' = Entrada(g)
    BY <2>4, <2>5, <2>11, <2>13 DEF ConMarco
  <2>15. /\ nucleo' \in Nucleos /\ nucleo'.pc = "escribe" /\ nucleo'.p = nucleo.p
         /\ nucleo'.n = n /\ nucleo'.q = r /\ nucleo'.m = m
    BY <2>2, <2>3, <2>6, <2>a, <2>b DEF Nucleos, EtapasNucleo
  <2>16. Nueva' = nueva
    BY <2>15, <2>c DEF Nueva
  <2>17. copia' \in [Paginas -> SUBSET {"marco", "swap"}]
         /\ \A g \in Paginas : g # v => copia'[g] = copia[g]
    <3>1. copia \in [Paginas -> SUBSET {"marco", "swap"}]
      BY DEF Inv, Firme, Tipos, TipoDatos
    <3>2. AlSalir(v) \in SUBSET {"marco", "swap"}
      BY <2>6, <3>1 DEF AlSalir
    <3> QED
      BY <2>1, <3>1, <3>2
  <2>18. Tipos'
    <3>1. mutex_memoria = 1 /\ mutex_memoria' = 0 /\ mutex_procesos' \in Nat
      BY <2>2 DEF Inv, Firme, Tipos, TipoCerrojos
    <3>2. TipoListas'
      BY <2>2, <2>4 DEF Inv, Firme, Tipos, TipoListas
    <3>3. TipoCuentas' /\ TipoCerrojos' /\ TipoHilos'
      BY <2>2, <2>15, <3>1 DEF Inv, Firme, Tipos, TipoCuentas, TipoCerrojos, TipoHilos, Cpus
    <3>4. TipoExterno' /\ TipoDatos' /\ TipoResto' /\ TipoLogico'
      BY <2>2, <2>17 DEF Inv, Firme, Tipos, TipoExterno, TipoDatos, TipoResto, TipoLogico
    <3> QED
      BY <2>10, <3>2, <3>3, <3>4 DEF Tipos
  <2>19. SinCrear' /\ EnNucleo' /\ CpuAparte' /\ Presencia'
    <3>1. SinCrear' /\ CpuAparte'
      BY <2>2, <2>9, <2>15 DEF Inv, Firme, SinCrear, CpuAparte
    <3>2. EnNucleo'
      <4>1. n \in DOMAIN tp'[r] /\ tp'[r][n].marco = m
        BY <2>3, <2>7, <2>8, <2>c
      <4> QED
        BY <2>2, <2>3, <2>6, <2>15, <2>a, <2>b, <4>1 DEF Inv, Firme, EnNucleo, Trayendo
    <3>3. Presencia'
      BY <2>5, <2>11, <2>13 DEF Inv, Firme, Presencia
    <3> QED
      BY <3>1, <3>2, <3>3
  <2>20. Orden => Orden'
    <3> SUFFICES ASSUME Orden PROVE Orden'
      OBVIOUS
    <3>1. r = nucleo.p /\ nueva \notin ConMarco
      <4>1. r = nucleo.p /\ estado[r] = "falta" /\ n = pagina_pf[r]
        BY <2>2, <2>a, <2>b DEF Orden, Acertado, Inv, Firme, EnNucleo, Trayendo
      <4>2. tp[r][n].marco = -1
        BY <2>2, <2>3, <4>1 DEF Orden, FaltaAfuera
      <4> QED
        BY <2>4, <2>12, <4>1, <4>2 DEF ConMarco
    <3>2. Acertado'
      BY <2>2, <2>15, <3>1 DEF Orden, Acertado
    <3>3. FaltaAfuera'
      <4>1. ASSUME NEW p \in Pid, estado[p] = "falta", p # r
            PROVE  pagina_pf[p] \in DOMAIN tp'[p] /\ tp'[p][pagina_pf[p]].marco = -1
        <5>1. PICK k : k = pagina_pf[p]
          OBVIOUS
        <5>2. k \in DOMAIN tp[p] /\ tp[p][k].marco = -1
          BY <2>2, <4>1, <5>1 DEF Orden, FaltaAfuera
        <5>3. <<p, k>> # nueva
          BY <2>c, <4>1
        <5>4. tp'[p][k].marco = -1 /\ k \in DOMAIN tp'[p]
          BY <2>7, <2>8, <5>2, <5>3
        <5> QED
          BY <5>1, <5>4
      <4> QED
        BY <2>2, <2>15, <3>1, <4>1 DEF FaltaAfuera
    <3>4. Usados'
      <4>1. {Entrada(g).marco : g \in ConMarco}' = {Entrada(g).marco : g \in ConMarco}
        <5>1. \A g \in ConMarco : g # v => Entrada(g)'.marco = Entrada(g).marco /\ g \in ConMarco'
          BY <2>14, <3>1
        <5>2. nueva \in ConMarco' /\ Entrada(nueva)'.marco = m /\ Entrada(v).marco = m
          BY <2>13, <2>14, <2>d
        <5>3. \A g \in ConMarco' : g = nueva \/ (g \in ConMarco /\ g # v)
          BY <2>14
        <5> QED
          BY <2>5, <5>1, <5>2, <5>3
      <4>2. EnUso' = EnUso
        BY <2>2, <2>6, <2>15 DEF EnUso
      <4> QED
        BY <4>1, <4>2 DEF Orden, Usados
    <3>5. UnoCada'
      <4>1. \A g, h \in ConMarco : Entrada(g).marco = Entrada(h).marco => g = h
        BY DEF Orden, UnoCada
      <4>2. \A g \in ConMarco \ {v} : Entrada(g)'.marco = Entrada(g).marco /\ Entrada(g).marco # m
        BY <2>5, <2>14, <2>d, <3>1, <4>1
      <4>3. Entrada(nueva)'.marco = m
        BY <2>13
      <4> QED
        BY <2>14, <4>1, <4>2, <4>3 DEF UnoCada
    <3>6. \A g \in Vivas : Entrada(g).presente <=> g \in ConMarco
      BY <2>2 DEF Orden, Cargadas
    <3>7. Cargadas'
      <4>1. ~Entrada(nueva)'.presente /\ ~Entrada(v)'.presente
        BY <2>4, <2>13, <3>1, <3>6
      <4>2. \A g \in Vivas \ {v, nueva} : Entrada(g)'.presente <=> g \in ConMarco
        BY <2>13, <3>6
      <4> QED
        BY <2>5, <2>11, <2>14, <2>15, <2>16, <4>1, <4>2 DEF Cargadas
    <3>8. UltimaViva'
      <4>1. algoritmo = "FIFO" => proximas_victimas' # <<>> /\ Last(proximas_victimas') = nueva
        BY <2>2, <2>4 DEF Last, Inv, Firme, Tipos, TipoListas
      <4> QED
        BY <2>2, <2>14, <4>1 DEF UltimaViva
    <3>9. Contenido'
      <4>1. ASSUME NEW g \in Vivas \ cruzadas
            PROVE  /\ Entrada(g)'.presente => "marco" \in copia'[g]
                   /\ ~Entrada(g)'.presente \/ ~Entrada(g)'.modificado => "swap" \in copia'[g]
        <5>1. CASE g = v
          <6>1. Entrada(v).modificado => "marco" \in copia[v]
            BY <2>5, <3>6, <4>1, <5>1 DEF Orden, Contenido
          <6>2. ~Entrada(v).modificado => "swap" \in copia[v]
            BY <2>5, <4>1, <5>1 DEF Orden, Contenido
          <6>3. "swap" \in AlSalir(v)
            BY <6>1, <6>2 DEF AlSalir
          <6>4. copia'[v] = AlSalir(v)
            BY <2>1, <2>6 DEF Inv, Firme, Tipos, TipoDatos
          <6> QED
            BY <2>13, <5>1, <6>3, <6>4
        <5>2. CASE g # v
          <6>1. /\ Entrada(g)'.presente = Entrada(g).presente
                /\ Entrada(g)'.modificado = Entrada(g).modificado
            BY <2>13, <4>1, <5>2
          <6>2. copia'[g] = copia[g]
            BY <2>17, <4>1, <5>2 DEF Vivas
          <6> QED
            BY <4>1, <6>1, <6>2 DEF Orden, Contenido
        <5> QED
          BY <5>1, <5>2
      <4>2. \A g \in Paginas : g[1] >= id => copia'[g] = {"swap"}
        <5>1. ~(v[1] >= id)
          BY <2>5, <2>6 DEF Inv, Firme, SinCrear, Vivas
        <5> QED
          BY <2>17, <5>1 DEF Orden, Contenido
      <4> QED
        BY <2>2, <2>11, <4>1, <4>2 DEF Contenido
    <3>10. Marcada'
      BY <2>2, <2>7, <2>8 DEF Orden, Marcada, Inv, Firme, CpuAparte
    <3> QED
      BY <3>2, <3>3, <3>4, <3>5, <3>7, <3>8, <3>9, <3>10 DEF Orden
  <2> QED
    BY <2>2, <2>18, <2>19, <2>20 DEF Inv, Firme
<1> QED
  BY <1>1, <1>2

-----------------------------------------------------------------------------
(* The release of a table *)

LEMMA OtraFueraTipo ==
  ASSUME NEW S, NEW s \in Seq(S), NEW g
  PROVE  OtraFuera(s, g) \in Seq(S)
<1>1. DOMAIN s = 1 .. Len(s) /\ Len(s) \in Nat
  OBVIOUS
<1> DEFINE I == {i \in 1 .. Len(s) : s[i] # g}
           m == SelectInSeq(s, LAMBDA v : v # g)
<1>2. CASE I = {}
  <2>1. OtraFuera(s, g) = s
    BY <1>2 DEF OtraFuera, RemoveFirstMatch
  <2> QED
    BY <2>1
<1>3. CASE I # {}
  <2>1. I \subseteq Nat /\ Min(I) \in I
    BY <1>1, <1>3, MinEs
  <2>2. m = Min(I)
    BY <1>3 DEF SelectInSeq
  <2>3. OtraFuera(s, g) = RemoveAt(s, m)
    BY <1>3 DEF OtraFuera, RemoveFirstMatch
  <2> HIDE DEF m
  <2>4. m \in DOMAIN s
    BY <1>1, <2>1, <2>2
  <2> QED
    BY <2>3, <2>4, AlQuitar
<1> QED
  BY <1>2, <1>3

\* tras is the function by which Restantes goes through the pages of r.
EsTras(f, r) ==
  f = [n \in 0 .. CantPaginas[r] |->
         IF n = 0 THEN proximas_victimas
         ELSE IF n - 1 \in Presentes(r) THEN OtraFuera(f[n - 1], <<r, n - 1>>)
         ELSE f[n - 1]]

LEMMA RestantesEscogida ==
  ASSUME NEW r
  PROVE  Restantes(r) = (CHOOSE f : EsTras(f, r))[CantPaginas[r]]
BY Zenon DEF Restantes, EsTras

LEMMA TrasExiste ==
  ASSUME NEW r \in Pid
  PROVE  \E f : EsTras(f, r)
<1> DEFINE C == CantPaginas[r]
           Paso(f, n) == IF n = 0 THEN proximas_victimas
                         ELSE IF n - 1 \in Presentes(r) THEN OtraFuera(f[n - 1], <<r, n - 1>>)
                         ELSE f[n - 1]
           Hasta(f, n) == \A k \in 0 .. n : f[k] = Paso(f, k)
           T == {n \in 0 .. C : ~ \E f : Hasta(f, n)}
<1>1. C \in Nat
  BY Numeros
<1> HIDE DEF C
<1>2. Hasta([k \in 0 .. C |-> proximas_victimas], 0)
  BY <1>1
<1>3. ASSUME NEW n \in Nat, n + 1 \in 0 .. C, NEW f, Hasta(f, n)
      PROVE  \E h : Hasta(h, n + 1)
  <2> DEFINE h == [k \in 0 .. C |-> IF k = n + 1 THEN Paso(f, n + 1) ELSE f[k]]
  <2>1. h[n + 1] = Paso(f, n + 1) /\ \A k \in 0 .. n : h[k] = f[k]
    BY <1>1, <1>3
  <2> HIDE DEF h
  <2>2. Paso(h, n + 1) = Paso(f, n + 1)
    BY <2>1
  <2>3. ASSUME NEW k \in 0 .. n PROVE h[k] = Paso(h, k)
    <3>1. k = 0 \/ k - 1 \in 0 .. n
      OBVIOUS
    <3>2. k # 0 => h[k - 1] = f[k - 1]
      BY <2>1, <3>1
    <3> QED
      BY <1>3, <2>1, <3>2
  <2>4. \A k \in 0 .. n + 1 : k \in 0 .. n \/ k = n + 1
    OBVIOUS
  <2> HIDE DEF Paso
  <2>5. Hasta(h, n + 1)
    BY <2>1, <2>2, <2>3, <2>4
  <2> QED
    BY <2>5
<1> HIDE DEF Hasta
<1>4. T = {}
  <2> SUFFICES ASSUME T # {} PROVE FALSE
    OBVIOUS
  <2>1. T \subseteq Nat
    BY <1>1
  <2>2. PICK n \in T : \A k \in T : n <= k
    BY <2>1, MinimoNat
  <2>3. n # 0 /\ n \in 0 .. C
    BY <1>2
  <2>4. n - 1 \in Nat /\ n - 1 \in 0 .. C /\ n - 1 \notin T /\ (n - 1) + 1 = n
    BY <1>1, <2>1, <2>2, <2>3
  <2> QED
    BY <1>3, <2>2, <2>4
<1>5. C \in 0 .. C
  BY <1>1
<1>6. PICK g : Hasta(g, C)
  BY <1>4, <1>5
<1> DEFINE h == [n \in 0 .. C |-> g[n]]
<1>7. \A n \in 0 .. C : h[n] = Paso(h, n)
  <2> SUFFICES ASSUME NEW n \in 0 .. C PROVE h[n] = Paso(h, n)
    OBVIOUS
  <2>1. n # 0 => n - 1 \in 0 .. C
    BY <1>1
  <2>2. n # 0 => h[n - 1] = g[n - 1]
    BY <2>1
  <2>3. h[n] = g[n] /\ g[n] = Paso(g, n)
    BY <1>6 DEF Hasta
  <2> QED
    BY <2>2, <2>3
<1>8. h = [n \in 0 .. C |-> h[n]]
  OBVIOUS
<1> HIDE DEF h
<1>9. h = [n \in 0 .. C |-> Paso(h, n)]
  BY <1>7, <1>8
<1> QED
  BY <1>9 DEF EsTras, C

\* The candidates that are left are pages, and the same if r has no page in memory.
LEMMA RestantesEs ==
  ASSUME proximas_victimas \in Seq(Paginas), NEW r \in Pid
  PROVE  Restantes(r) \in Seq(Paginas)
         /\ (Presentes(r) = {} => Restantes(r) = proximas_victimas)
<1> DEFINE C == CantPaginas[r]
           f == CHOOSE x : EsTras(x, r)
           Bien(n) == f[n] \in Seq(Paginas) /\ (Presentes(r) = {} => f[n] = proximas_victimas)
           T == {n \in 0 .. C : ~ Bien(n)}
<1>1. C \in Nat
  BY Numeros
<1>2. EsTras(f, r)
  BY TrasExiste
<1> HIDE DEF f
<1>3. f = [n \in 0 .. C |-> IF n = 0 THEN proximas_victimas
                            ELSE IF n - 1 \in Presentes(r) THEN OtraFuera(f[n - 1], <<r, n - 1>>)
                            ELSE f[n - 1]]
  BY <1>2 DEF EsTras
<1> HIDE DEF C
<1>4. \A n \in 0 .. C : f[n] = IF n = 0 THEN proximas_victimas
                               ELSE IF n - 1 \in Presentes(r)
                                    THEN OtraFuera(f[n - 1], <<r, n - 1>>)
                               ELSE f[n - 1]
  BY <1>3
<1>5. T = {}
  <2> SUFFICES ASSUME T # {} PROVE FALSE
    OBVIOUS
  <2>1. T \subseteq Nat
    BY <1>1
  <2>2. PICK n \in T : \A k \in T : n <= k
    BY <2>1, MinimoNat
  <2>3. f[0] = proximas_victimas
    <3>1. 0 \in 0 .. C
      BY <1>1
    <3> QED
      BY <1>4, <3>1
  <2>4. n \in 0 .. C /\ n # 0
    BY <2>3
  <2>5. n - 1 \in 0 .. C /\ n - 1 \notin T
    BY <1>1, <2>1, <2>2, <2>4
  <2>6. Bien(n - 1)
    BY <2>5
  <2>7. OtraFuera(f[n - 1], <<r, n - 1>>) \in Seq(Paginas)
    BY <2>6, OtraFueraTipo
  <2>8. f[n] = IF n - 1 \in Presentes(r) THEN OtraFuera(f[n - 1], <<r, n - 1>>) ELSE f[n - 1]
    BY <1>4, <2>4
  <2>9. Bien(n)
    BY <2>6, <2>7, <2>8
  <2> QED
    BY <2>9
<1>6. Bien(C)
  BY <1>1, <1>5
<1>7. Restantes(r) = f[C]
  BY RestantesEscogida DEF f, C
<1> QED
  BY <1>6, <1>7

LEMMA PasoLibera == Inv /\ LiberarTabla => Inv'
<1> SUFFICES ASSUME Inv, LiberarTabla PROVE Inv'
  OBVIOUS
<1>a. PICK r : r = nucleo.q
  OBVIOUS
<1>1. /\ UNCHANGED <<algoritmo, id, procesos, pid_comparador, mutex_procesos, mutex_memoria>>
      /\ UNCHANGED <<reloj, cpu, creados, estado, pagina_pf, traducciones, confundido, fallo>>
      /\ nucleo.pc = "libera" /\ nucleo' = [nucleo EXCEPT !.pc = "quita"]
      /\ marcos_libres' = marcos_libres \ MarcosDe(r)
      /\ proximas_victimas' = Restantes(r)
      /\ tp' = [tp EXCEPT ![r] = <<>>]
      /\ copia' = [g \in Paginas |-> IF g[1] = r THEN {"swap"} ELSE copia[g]]
      /\ cruzadas' = {g \in cruzadas : g[1] # r}
  BY <1>a DEF LiberarTabla, cerrojos, externo
<1>2. r \in Pid /\ nucleo \in Nucleos /\ TipoTp /\ DOMAIN tp = Pid
  BY <1>1, <1>a DEF Inv, Firme, EnNucleo, Tipos, TipoHilos, TipoTp
<1>3. tp'[r] = <<>> /\ \A p \in Pid : p # r => tp'[p] = tp[p]
  BY <1>1, <1>2
<1>4. TipoTp'
  <2>1. tp' = [p \in Pid |-> tp'[p]]
    BY <1>1, <1>2
  <2>2. \A p \in Pid : tp'[p] = <<>> \/ tp'[p] \in [NroPag(p) -> Entradas]
    BY <1>2, <1>3 DEF TipoTp
  <2> QED
    BY <2>1, <2>2 DEF TipoTp, Entradas
<1>5. /\ \A g \in Vivas' : g \in Vivas /\ g[1] # r
      /\ \A g \in Vivas : g[1] # r => g \in Vivas'
      /\ \A g \in Vivas : g[1] # r => Entrada(g)' = Entrada(g)
  <2>1. \A g \in Vivas' : g \in Vivas /\ g[1] # r
    BY <1>3, PaginaEs DEF Vivas
  <2>2. \A g \in Vivas : g[1] # r => g \in Vivas'
    BY <1>3, PaginaEs DEF Vivas
  <2>3. \A g \in Vivas : g[1] # r => Entrada(g)' = Entrada(g)
    BY <1>3, PaginaEs DEF Vivas, Entrada
  <2> QED
    BY <2>1, <2>2, <2>3
<1>6. ConMarco' = {g \in ConMarco : g[1] # r} /\ \A g \in ConMarco' : Entrada(g)' = Entrada(g)
  BY <1>5 DEF ConMarco
<1>7. /\ nucleo' \in Nucleos /\ nucleo'.pc = "quita" /\ nucleo'.p = nucleo.p
      /\ nucleo'.n = nucleo.n /\ nucleo'.q = nucleo.q
  BY <1>1, <1>2 DEF Nucleos, EtapasNucleo
<1>8. /\ copia' \in [Paginas -> SUBSET {"marco", "swap"}] /\ cruzadas' \subseteq Paginas
      /\ \A g \in Paginas : g[1] # r => copia'[g] = copia[g]
      /\ \A g \in Paginas : g[1] = r => copia'[g] = {"swap"}
  BY <1>1 DEF Inv, Firme, Tipos, TipoDatos
<1>9. /\ proximas_victimas' \in Seq(Paginas)
      /\ Presentes(r) = {} => proximas_victimas' = proximas_victimas
  BY <1>1, <1>2, RestantesEs DEF Inv, Firme, Tipos, TipoListas
<1>10. Tipos'
  <2>1. TipoListas' /\ TipoCuentas' /\ TipoCerrojos'
    BY <1>1, <1>7, <1>9 DEF Inv, Firme, Tipos, TipoListas, TipoCuentas, TipoCerrojos
  <2>2. TipoHilos' /\ TipoExterno' /\ TipoDatos' /\ TipoResto' /\ TipoLogico'
    BY <1>1, <1>7, <1>8 DEF Inv, Firme, Tipos, TipoHilos, TipoExterno, TipoDatos, TipoResto,
       TipoLogico, Cpus
  <2> QED
    BY <1>4, <2>1, <2>2 DEF Tipos
<1>11. SinCrear' /\ EnNucleo' /\ CpuAparte' /\ Presencia'
  <2>1. SinCrear'
    BY <1>1, <1>3 DEF Inv, Firme, SinCrear
  <2>2. EnNucleo' /\ CpuAparte'
    BY <1>1, <1>7 DEF Inv, Firme, EnNucleo, CpuAparte, Trayendo
  <2>3. Presencia'
    BY <1>5 DEF Inv, Firme, Presencia
  <2> QED
    BY <2>1, <2>2, <2>3
<1>12. Orden => Orden'
  <2> SUFFICES ASSUME Orden PROVE Orden'
    OBVIOUS
  <2>1. r = nucleo.p /\ estado[r] = "listo"
    BY <1>1, <1>a DEF Orden, Acertado, Inv, Firme, EnNucleo
  <2>2. Acertado'
    BY <1>1, <1>7 DEF Orden, Acertado
  <2>3. FaltaAfuera'
    BY <1>1, <1>3, <1>7, <2>1 DEF Orden, FaltaAfuera
  <2>4. \A g \in Vivas : Entrada(g).presente <=> g \in ConMarco
    BY <1>1 DEF Orden, Cargadas
  <2>5. MarcosDe(r) = {Entrada(g).marco : g \in {h \in ConMarco : h[1] = r}}
    <3>1. ASSUME NEW n \in Presentes(r)
          PROVE  \E g \in ConMarco : g[1] = r /\ Entrada(g).marco = tp[r][n].marco
      <4>1. n \in DOMAIN tp[r] /\ tp[r][n].presente
        BY DEF Presentes
      <4>2. PICK g : g = <<r, n>>
        OBVIOUS
      <4>3. g \in Vivas /\ Entrada(g) = tp[r][n] /\ g[1] = r
        BY <1>2, <4>1, <4>2, TablaEs
      <4> QED
        BY <2>4, <4>1, <4>3
    <3>2. ASSUME NEW g \in ConMarco, g[1] = r
          PROVE  \E n \in Presentes(r) : Entrada(g).marco = tp[r][n].marco
      <4>1. g \in Vivas
        BY DEF ConMarco
      <4>2. g[2] \in DOMAIN tp[r] /\ Entrada(g) = tp[r][g[2]] /\ Entrada(g).presente
        BY <1>2, <2>4, <3>2, <4>1, VivaEs
      <4> QED
        BY <4>2 DEF Presentes
    <3> QED
      BY <3>1, <3>2 DEF MarcosDe
  <2>6. {Entrada(g).marco : g \in ConMarco} = marcos_libres
    BY <1>1 DEF Orden, Usados, EnUso
  <2>7. \A g, h \in ConMarco : Entrada(g).marco = Entrada(h).marco => g = h
    BY DEF Orden, UnoCada
  <2>8. Usados'
    <3>1. {Entrada(g).marco : g \in ConMarco}' = marcos_libres \ MarcosDe(r)
      <4>1. {Entrada(g).marco : g \in ConMarco}'
              = {Entrada(g).marco : g \in {h \in ConMarco : h[1] # r}}
        BY <1>6
      <4> QED
        BY <2>5, <2>6, <2>7, <4>1
    <3> QED
      BY <1>1, <1>7, <3>1 DEF Usados, EnUso
  <2>9. UnoCada'
    BY <1>6, <2>7 DEF UnoCada
  <2>10. Cargadas'
    BY <1>5, <1>6, <1>7, <2>4 DEF Cargadas
  <2>11. UltimaViva'
    <3> SUFFICES ASSUME algoritmo = "FIFO", marcos_libres' = Marcos
                 PROVE  proximas_victimas' # <<>> /\ Last(proximas_victimas') \in ConMarco'
      BY <1>1, <1>7 DEF UltimaViva
    <3>1. MarcosDe(r) = {}
      BY <1>1, <2>5, <2>6 DEF Inv, Firme, Tipos, TipoResto
    <3>2. Presentes(r) = {} /\ \A g \in ConMarco : g[1] # r
      BY <2>5, <3>1 DEF MarcosDe
    <3>3. ConMarco' = ConMarco /\ marcos_libres = Marcos
      BY <1>1, <1>6, <3>1, <3>2
    <3> QED
      BY <1>9, <3>2, <3>3 DEF Orden, UltimaViva
  <2>12. Contenido'
    <3>1. ASSUME NEW g \in Vivas' \ cruzadas'
          PROVE  /\ Entrada(g)'.presente => "marco" \in copia'[g]
                 /\ ~Entrada(g)'.presente \/ ~Entrada(g)'.modificado => "swap" \in copia'[g]
      <4>1. g \in Vivas \ cruzadas /\ g[1] # r /\ g \in Paginas
        BY <1>1, <1>5 DEF Vivas
      <4>2. Entrada(g)' = Entrada(g) /\ copia'[g] = copia[g]
        BY <1>5, <1>8, <4>1
      <4> QED
        BY <4>1, <4>2 DEF Orden, Contenido
    <3> QED
      BY <1>1, <1>8, <3>1 DEF Orden, Contenido
  <2>13. Marcada'
    BY <1>1, <1>3, <2>1 DEF Orden, Marcada, Inv, Firme, CpuAparte
  <2> QED
    BY <2>2, <2>3, <2>8, <2>9, <2>10, <2>11, <2>12, <2>13 DEF Orden
<1> QED
  BY <1>1, <1>10, <1>11, <1>12 DEF Inv, Firme

-----------------------------------------------------------------------------
LEMMA InvQuieto == Inv /\ UNCHANGED vars => Inv'
<1> SUFFICES ASSUME Inv, UNCHANGED vars PROVE Inv'
  OBVIOUS
<1>1. /\ UNCHANGED <<algoritmo, id, procesos, tp, marcos_libres, proximas_victimas>>
      /\ UNCHANGED <<pid_comparador, mutex_procesos, mutex_memoria, reloj, nucleo, cpu>>
      /\ UNCHANGED <<creados, estado, pagina_pf, traducciones, copia, cruzadas, confundido>>
      /\ UNCHANGED fallo
  BY DEF vars, tablas, cerrojos, externo, datos
<1>2. /\ TipoTp => TipoTp'
      /\ Vivas' = Vivas /\ ConMarco' = ConMarco /\ \A g : Entrada(g)' = Entrada(g)
  BY <1>1, TablaIgual
<1>3. Tipos'
  BY <1>1, <1>2 DEF Inv, Firme, Tipos, TipoListas, TipoCuentas, TipoCerrojos, TipoHilos,
     TipoExterno, TipoDatos, TipoResto, TipoLogico, Nucleos, Cpus, EtapasNucleo
<1>4. SinCrear' /\ EnNucleo' /\ CpuAparte' /\ Presencia'
  BY <1>1, <1>2 DEF Inv, Firme, SinCrear, EnNucleo, CpuAparte, Presencia, Trayendo
<1>5. Orden => Orden'
  <2> SUFFICES ASSUME Orden PROVE Orden'
    OBVIOUS
  <2>1. Acertado' /\ FaltaAfuera' /\ Marcada'
    BY <1>1 DEF Orden, Acertado, FaltaAfuera, Marcada
  <2> QED
    BY <1>1, <2>1, OrdenQuieto DEF Orden
<1> QED
  BY <1>1, <1>3, <1>4, <1>5 DEF Inv, Firme

LEMMA InvInductivo == Inv /\ [Next]_vars => Inv'
<1> SUFFICES ASSUME Inv, [Next]_vars PROVE Inv'
  OBVIOUS
<1>1. CASE IniciarProceso
  BY <1>1, PasoInicia
<1>2. CASE HiloCpu
  <2>1. ASSUME NEW g \in Paginas, CpuPide("SOLICITAR_VALOR", g[1], g[2]) PROVE Inv'
    BY <2>1, PaginaEs, PasoPide
  <2>2. ASSUME NEW p \in Pid, CpuPide("INSTRUCCION", p, 0) PROVE Inv'
    BY <2>2, Numeros, PasoPide
  <2>3. ASSUME NEW op \in {"READ", "WRITE"}, CpuAccede(op) PROVE Inv'
    BY <2>3, PasoAccede
  <2> QED
    BY <1>2, <2>1, <2>2, <2>3, PasoEncuentra, PasoResponde, PasoMarca, PasoCopia DEF HiloCpu
<1>3. CASE HiloNucleo
  <2>1. ASSUME NEW p \in Pid, NucleoBusca(p) PROVE Inv'
    BY <2>1, PasoBusca
  <2> QED
    BY <1>3, <2>1, PasoCrea, PasoHalla, PasoToma, PasoLibre, PasoReemplaza, PasoEscribe,
       PasoLibera, PasoQuita DEF HiloNucleo
<1>4. CASE UNCHANGED vars
  BY <1>4, InvQuieto
<1> QED
  BY <1>1, <1>2, <1>3, <1>4 DEF Next

LEMMA InvSiempre == Spec => []Inv
<1>1. Init => Inv
  BY InvInicial
<1>2. Inv /\ [Next]_vars => Inv'
  BY InvInductivo
<1> QED
  BY <1>1, <1>2, PTL DEF Spec

\* The tables, the lists, the semaphores and the two threads of the memory module always have
\* their types, for any number of processes, pages, frames and requests, whichever of the two
\* algorithms replaces pages.
THEOREM TipoTeorema == Spec => []TipoOK
BY InvSiempre, InvTipo, PTL

\* A frame in use belongs to exactly one page of a live process (traer_pagina_a_memoria,
\* seleccionar_pagina_victima_y_reemplazar, liberar_tabla), and a page in memory has one; until
\* a search, of which two can be under way with one pid_comparador, finds the wrong process.
THEOREM MarcosTeorema == Spec => []MarcosCoherentes
<1>1. Inv => MarcosCoherentes
  <2> SUFFICES ASSUME Orden PROVE MarcosCoherentes
    BY DEF Inv, MarcosCoherentes
  <2>1. Usados /\ UnoCada /\ Cargadas
    BY DEF Orden
  <2> QED
    BY <2>1 DEF MarcosCoherentes, Usados, EnUso, UnoCada, Cargadas
<1> QED
  BY <1>1, InvSiempre, PTL

\* FIFO finds a victim in memory whenever all the frames are in use, though liberar_tabla leaves
\* candidates of finished processes in the list and takes others out.
THEOREM VictimaTeorema == Spec => []VictimaViva
<1>1. Inv => VictimaViva
  <2> SUFFICES ASSUME Orden, algoritmo = "FIFO", marcos_libres = Marcos PROVE VictimasFIFO # {}
    BY DEF Inv, VictimaViva
  <2> QED
    BY DEF Orden, UltimaViva, VictimasFIFO
<1> QED
  BY <1>1, InvSiempre, PTL

\* What was last written in a page is in its frame, or in its swap block while it is out: a page
\* that is replaced has been marked as modified before it was written (escribir_en_memoria).
THEOREM PierdeTeorema == Spec => []NadaSePierde
<1>1. Inv => NadaSePierde
  BY DEF Inv, Orden, Contenido, NadaSePierde
<1> QED
  BY <1>1, InvSiempre, PTL
=============================================================================
