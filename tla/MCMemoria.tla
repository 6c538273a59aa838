------------------------------ MODULE MCMemoria -----------------------------
(* A process of one page and one of two.                                   *)
EXTENDS Memoria, TLC

Tamanios == 0 :> 1 @@ 1 :> 2
=============================================================================
