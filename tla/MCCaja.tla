------------------------------- MODULE MCCaja -------------------------------
(***************************************************************************)
(* Two shifts; sales in cash, by card, on credit and part in cash, part by *)
(* card (route.ts:203-204 files the last one under cash).                  *)
(***************************************************************************)
EXTENDS Caja, TLC

MCFormas == {"efectivo", "tarjeta", "credito", "combinado"}

MCCobro == [f \in MCFormas |->
    CASE f = "efectivo"  -> <<<<"efectivo", 2>>>>
      [] f = "tarjeta"   -> <<<<"tarjeta", 2>>>>
      [] f = "credito"   -> <<<<"efectivo", 2>>>>
      [] f = "combinado" -> <<<<"efectivo", 1>>, <<"tarjeta", 1>>>>]

MCCabecera == [f \in MCFormas |-> IF f = "combinado" THEN "efectivo" ELSE f]

(* A withdrawal, an adjustment and an income.                              *)
MCImportes == {-1, 1, 3}
MCIngresos == {3}
MCSimetria == Permutations(Cierres)
=============================================================================
