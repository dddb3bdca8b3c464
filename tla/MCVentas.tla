------------------------------ MODULE MCVentas ------------------------------
(***************************************************************************)
(* A small oil-change shop: oil is sold over the counter and consumed by   *)
(* the oil-change service, the filter is only sold over the counter, and   *)
(* the service does not control stock.                                     *)
(***************************************************************************)
EXTENDS Ventas, TLC

CONSTANTS aceite, filtro, cambio

MCProductos == {aceite, filtro, cambio}
MCControla  == {aceite, filtro}
MCReceta    == [p \in MCProductos |-> IF p = cambio THEN {aceite} ELSE {}]
MCStock0    == [p \in MCProductos |-> IF p = cambio THEN 0 ELSE 2]

Carrito(a, f, c) == (aceite :> a) @@ (filtro :> f) @@ (cambio :> c)

(* Two filters; oil and the service that uses it.                         *)
MCCarritos  == {Carrito(0, 2, 0), Carrito(1, 0, 1)}
MCDeltasAjuste == {-1, 1}

(* The edition of a purchase that takes a unit back.                       *)
MCDeltasCompra == {-1}

MCSimetria == Permutations(Ventas)
=============================================================================
