----------------------------- MODULE MCFacturas -----------------------------
(* Two sessions over one invoice.                                          *)
EXTENDS Facturas, TLC

MCSimetria == Permutations(Sesiones) \cup Permutations(Notas)

Usadas == Cardinality({n \in Notas : nc[n].erp # "nada"})
Activas == Cardinality({s \in Sesiones : ~ En(s, "libre")})

(* What follows an unseen change or a payment row left behind is not       *)
(* explored; notes and payments are two in all.                            *)
Acotada == ~ pisado /\ ~ huerfano /\ Usadas + pagos.n <= 2

(* With a second note, a second lot, or a note, its lot and a payment, and *)
(* once invoice or document is void, no request starts beside another.     *)
DeAUna ==
    \/ Usadas > 1 \/ Len(lotes) > 1 \/ Usadas + Len(lotes) + pagos.n > 2
    \/ factura.estado = "Anulado" \/ fe = "cancelado"
    => Activas' <= 1 \/ Activas' <= Activas
=============================================================================
