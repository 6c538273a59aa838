-------------------------------- MODULE Turno --------------------------------
(***************************************************************************)
(* What the scheduler takes for granted of the CPU (the variables cpu and  *)
(* mensaje of Planificador), without sockets, threads or contexts: each    *)
(* context sent comes back once, with one request of the process it is of, *)
(* and no other is sent until that request has been handled.  Cpu is shown *)
(* to implement it.                                                        *)
(***************************************************************************)
CONSTANTS Procesos, Pedidos, NULO

VARIABLES en_cpu,   \* the process whose context was sent
          pedido    \* the request that came back with it, and whose it is

Init == en_cpu = NULO /\ pedido = NULO

Despachar(p) ==
  /\ en_cpu = NULO /\ pedido = NULO
  /\ en_cpu' = p /\ pedido' = pedido

Devolver(q) ==
  /\ en_cpu # NULO
  /\ pedido' = [de |-> en_cpu, que |-> q] /\ en_cpu' = NULO

Atender == pedido # NULO /\ pedido' = NULO /\ en_cpu' = en_cpu

Next == \/ \E p \in Procesos : Despachar(p)
        \/ \E q \in Pedidos : Devolver(q)
        \/ Atender

Spec == Init /\ [][Next]_<<en_cpu, pedido>>
=============================================================================
