--------------------------- MODULE MCOrdenesCompra --------------------------
(* Two orders of the same two products: receptions of one and the other    *)
(* can lock the products in opposite orders.  Line a1 takes two            *)
(* receptions of one unit, or one of two.                                  *)
EXTENDS OrdenesCompra, TLC

CONSTANTS A, B, a1, a2, b1, b2, aceite, filtro, r1, r2, r3

MCOrdenDe  == (a1 :> A) @@ (a2 :> A) @@ (b1 :> B) @@ (b2 :> B)
MCProducto == (a1 :> aceite) @@ (a2 :> filtro) @@ (b1 :> aceite) @@ (b2 :> filtro)
MCPedida   == (a1 :> 2) @@ (a2 :> 1) @@ (b1 :> 1) @@ (b2 :> 1)
MCStock0   == (aceite :> 3) @@ (filtro :> 0)
MCSimetria == Permutations(Recepciones)
=============================================================================
