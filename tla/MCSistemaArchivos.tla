-------------------------- MODULE MCSistemaArchivos -------------------------
(* Two processes of two and three pages.                                   *)
EXTENDS SistemaArchivos, TLC

CONSTANTS p1, p2

Mezcla(c, t, l, j, n, m) ==
  [crear |-> c, truncar |-> t, leer |-> l, juntos |-> j, tamanios |-> n, memoria |-> m]

\* One request of the kernel after another; two together; some of each client; the memory alone.
Mezclas ==
  {Mezcla(2, 2, 1, 1, 0 .. 3, 0), Mezcla(2, 3, 0, 1, 0 .. 3, 0),
   Mezcla(2, 2, 0, 2, {1}, 0), Mezcla(1, 2, 0, 2, {2}, 0), Mezcla(1, 1, 1, 2, {3}, 0),
   Mezcla(1, 0, 2, 2, {0, 1}, 0),
   Mezcla(1, 1, 0, 1, {0, 1}, 1), Mezcla(0, 0, 0, 0, {}, 4)}

Ambas == {[fat |-> b, swap |-> b] : b \in BOOLEAN}

Tamanios == p1 :> 2 @@ p2 :> 3
=============================================================================
