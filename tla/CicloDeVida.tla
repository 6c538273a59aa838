----------------------------- MODULE CicloDeVida -----------------------------
(***************************************************************************)
(* What the scheduler promises, without threads, queues or semaphores: the *)
(* five-state life of a process (t_estado of shared/structures.h), at most *)
(* Grado processes between NEW and EXIT, one at a time in EXEC, admission  *)
(* in the order of creation.  Planificador is shown to implement it.       *)
(***************************************************************************)
EXTENDS Integers, FiniteSets

CONSTANTS Procesos,  \* the pids, in the order of creation
          Grado      \* the multiprogramming degree

VARIABLE fase        \* the life of each process

Fases   == {"SIN_CREAR", "NEW", "READY", "EXEC", "BLOCK", "EXIT"}
Activos == {p \in Procesos : fase[p] \in {"READY", "EXEC", "BLOCK"}}

Pasa(p, antes, despues) ==
  fase[p] = antes /\ fase' = [fase EXCEPT ![p] = despues]

Init == fase = [p \in Procesos |-> "SIN_CREAR"]

Crear(p) ==
  /\ \A q \in Procesos : q < p => fase[q] # "SIN_CREAR"
  /\ Pasa(p, "SIN_CREAR", "NEW")

Admitir(p) ==
  /\ \A q \in Procesos : q < p => fase[q] # "NEW"
  /\ Cardinality(Activos) < Grado
  /\ Pasa(p, "NEW", "READY")

Despachar(p) ==
  /\ \A q \in Procesos : fase[q] # "EXEC"
  /\ Pasa(p, "READY", "EXEC")

Desalojar(p)   == Pasa(p, "EXEC", "READY")
Bloquear(p)    == Pasa(p, "EXEC", "BLOCK")
Desbloquear(p) == Pasa(p, "BLOCK", "READY")
Terminar(p)    == Pasa(p, "EXEC", "EXIT")

Next == \E p \in Procesos :
  \/ Crear(p) \/ Admitir(p) \/ Despachar(p) \/ Desalojar(p)
  \/ Bloquear(p) \/ Desbloquear(p) \/ Terminar(p)

Spec == Init /\ [][Next]_fase
=============================================================================
