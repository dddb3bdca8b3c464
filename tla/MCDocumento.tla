----------------------------- MODULE MCDocumento -----------------------------
(* Two sessions over the document of one invoice.                          *)
EXTENDS DocumentoElectronico, FiniteSets, TLC

MCSimetria == Permutations(Sesiones)

Activas == Cardinality({s \in Sesiones : ~ En(s, "libre")})

(* What follows an unseen change is not explored: every property but       *)
(* AprobadoPorSet, which is proved, is about what precedes it.  A row made *)
(* again is followed until its document is first sent.                     *)
Acotado == ~ pisado /\ (filas > 1 => lotes = <<>>)

(* Once SET decided on one of two lots no request starts beside another.   *)
DeAUna ==
    /\ Len(lotes) > 1
    /\ \E i \in 1..Len(lotes) : lotes[i].res # "pendiente"
    => Activas' <= 1 \/ Activas' <= Activas

(* A third lot, or a second number, only with one request at a time.       *)
Despacio == Len(lotes') > 2 \/ fe'.seq > 1 => Activas' <= 1 /\ filas = 1

DeCancelar == {"cancelar_fila", "cancelar_evento", "cancelar_factura", "cancelar_deshacer"}

(* Clients leave and payments are written once the document is approved    *)
(* from its first lot, with nothing under way or a cancellation: with      *)
(* every other step they commute.                                          *)
FacturaAlFinal ==
    factura' # factura /\ sesion' = sesion =>
        /\ fe.estado \in {"aprobado", "cancelado"} /\ Len(lotes) = 1 /\ Activas <= 1
        /\ \A s \in Sesiones : sesion[s].paso \in {"libre"} \cup DeCancelar
=============================================================================
