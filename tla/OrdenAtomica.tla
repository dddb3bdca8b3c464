--------------------------- MODULE OrdenAtomica -----------------------------
(***************************************************************************)
(* What the user of the purchase orders is promised: an order has one      *)
(* state, is cancelled only while nothing was received of it, and a        *)
(* reception happens all at once - the goods, the stock and the state.     *)
(* OrdenesCompra.tla implements it when orders are created one at a time.  *)
(***************************************************************************)
EXTENDS Integers, Functions

CONSTANTS Ordenes, Lineas, OrdenDe, Producto, Productos, Pedida, MaxAhora, Stock0

VARIABLES
    estado,    \* of each order
    recibida,  \* of each line
    stock

LineasDe(o) == {l \in Lineas : OrdenDe[l] = o}

Init ==
    /\ estado = [o \in Ordenes |-> "nada"]
    /\ recibida = [l \in Lineas |-> 0]
    /\ stock = Stock0

Crear(o) ==
    /\ estado[o] = "nada"
    /\ estado' = [estado EXCEPT ![o] = "pendiente"]
    /\ UNCHANGED <<recibida, stock>>

Cancelar(o) ==
    /\ estado[o] = "pendiente"
    /\ estado' = [estado EXCEPT ![o] = "cancelada"]
    /\ UNCHANGED <<recibida, stock>>

Pendiente(l) == IF recibida[l] < Pedida[l] THEN Pedida[l] - recibida[l] ELSE 0

(* Some goods of the order come in; more than ordered, only if permitted.  *)
Recibir(o, ahora, permiso) ==
    /\ estado[o] \in {"pendiente", "recibida_parcial"}
    /\ \E l \in LineasDe(o) : ahora[l] > 0
    /\ permiso \/ \A l \in LineasDe(o) : ahora[l] <= Pendiente(l)
    /\ recibida' = [l \in Lineas |->
                      IF OrdenDe[l] = o THEN recibida[l] + ahora[l] ELSE recibida[l]]
    /\ stock' = [p \in Productos |->
                   stock[p] + SumFunction([l \in Lineas |->
                      IF OrdenDe[l] = o /\ Producto[l] = p THEN ahora[l] ELSE 0])]
    /\ estado' = [estado EXCEPT ![o] =
                    IF \A l \in LineasDe(o) : recibida'[l] >= Pedida[l]
                    THEN "recibida_total" ELSE "recibida_parcial"]

Next == \E o \in Ordenes :
    \/ Crear(o)
    \/ Cancelar(o)
    \/ \E ahora \in [LineasDe(o) -> 0..MaxAhora], permiso \in BOOLEAN :
          Recibir(o, ahora, permiso)

Spec == Init /\ [][Next]_<<estado, recibida, stock>>
=============================================================================
