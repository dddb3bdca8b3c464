------------------------ MODULE DocumentoElectronico ------------------------
(***************************************************************************)
(* The electronic document of one invoice: the row of factura_electronica, *)
(* the two files in storage, the invoice it cancels, and the lots the tax  *)
(* authority (SET) received.  Handlers: api/facturas/[id]/sifen/{borrador, *)
(* xml,firmar,cancelar} and lib/sifen/handle-sifen-{enviar,consulta-lote}. *)
(*                                                                         *)
(* A handler is a sequence of awaits; an action is one of them.  It works  *)
(* on the copy of the row it read first, and undoes by writing it back.    *)
(* The other writers of the invoice (a client who leaves, a payment) are   *)
(* one step each: no handler of the document reads what they write.        *)
(***************************************************************************)
EXTENDS Integers, Sequences

CONSTANTS
    Sesiones,   \* browser sessions: each runs one request at a time
    MaxFilas,   \* bound: rows ever created for the invoice
    MaxSeq,     \* bound: sifen_regeneracion_seq
    MaxLotes    \* bound: lots SET received

ASSUME DocumentoAssumption ==
    /\ MaxFilas \in Nat \ {0}
    /\ MaxSeq \in Nat
    /\ MaxLotes \in Nat

VARIABLES
    fe,       \* the row of factura_electronica, and (history) whether one of
              \* its numbers was skipped
    filas,    \* rows created so far: the id of the row seeds its CDC
    xml,      \* the XML in storage: the CDC it has inside, or Nada
    firma,    \* the signed XML in storage, same
    factura,  \* the invoice: whether its estado is Anulado and (history)
              \* whether the client's leaving wrote it last, and whether a
              \* payment reopened it since a cancellation last voided it
    lotes,    \* the lots SET received, in order: CDC and result
    sesion,   \* per session: the step of its request, the row it read and
              \* its id, the CDC of the document in hand, what SET answered,
              \* and (history) whether another request wrote the row since
    pisado,   \* history: a request wrote the row over a change it had not seen
    corte     \* history: a cancellation died half way

vars == <<fe, filas, xml, firma, factura, lotes, sesion, pisado, corte>>

Nada == <<0, 0>>
Cdcs == {Nada} \cup ((1..MaxFilas) \X (0..MaxSeq))

Estados == {"nada", "borrador", "generado", "firmado", "enviado", "error_envio",
            "rechazado", "aprobado", "cancelado"}
BloqueadosSinAprobado == {"cancelado"}
Bloqueados == {"aprobado", "cancelado"}
Resultados == {"pendiente", "aprobado", "rechazado"}

Fila == [estado : Estados, seq : 0..MaxSeq, cdc : Cdcs, prot : 0..MaxLotes,
         xml : BOOLEAN, firmado : BOOLEAN, aprobada : BOOLEAN, cancelada : BOOLEAN,
         salto : BOOLEAN]
SinFila == [estado |-> "nada", seq |-> 0, cdc |-> Nada, prot |-> 0,
            xml |-> FALSE, firmado |-> FALSE, aprobada |-> FALSE, cancelada |-> FALSE,
            salto |-> FALSE]

Comercial == [anulada : BOOLEAN, baja : BOOLEAN, reabierta : BOOLEAN]
Vigente == [anulada |-> FALSE, baja |-> FALSE, reabierta |-> FALSE]

Pasos == {"libre", "borrador_insertar", "borrador_evento",
          "xml_reservar", "xml_payload", "xml_subir", "xml_fila", "xml_evento",
          "xml_borrar", "xml_quitar", "xml_revertir",
          "firmar_bajar", "firmar_subir", "firmar_fila", "firmar_evento", "firmar_borrar",
          "enviar_bajar", "enviar_soap", "enviar_fila", "enviar_evento",
          "consulta_soap", "consulta_fila", "consulta_evento",
          "cancelar_fila", "cancelar_evento", "cancelar_factura", "cancelar_deshacer"}

Respuestas == {"nada", "encolado", "no_encolado", "aprobado", "rechazado"}

Libre == [paso |-> "libre", leida |-> SinFila, id |-> 0, cdc |-> Nada, lote |-> 0,
          resp |-> "nada", vieja |-> FALSE]

Init ==
    /\ fe = SinFila
    /\ filas = 0
    /\ xml = Nada
    /\ firma = Nada
    /\ factura = Vigente
    /\ lotes = <<>>
    /\ sesion = [s \in Sesiones |-> Libre]
    /\ pisado = FALSE
    /\ corte = FALSE

-----------------------------------------------------------------------------
(* What handlers have in common.                                           *)

En(s, p) == sesion[s].paso = p

Pasar(s, p) == IF p = "libre" THEN Libre ELSE [sesion[s] EXCEPT !.paso = p]

Ir(s, p) == sesion' = [sesion EXCEPT ![s] = Pasar(s, p)]

(* The first statement of a handler: it reads the row, the columns it      *)
(* selects, and goes on.                                                   *)
Leer(s, p, fila) ==
    /\ En(s, "libre")
    /\ sesion' = [sesion EXCEPT ![s] = [Libre EXCEPT !.paso = p, !.leida = fila,
                                                   !.id = filas]]
    /\ UNCHANGED <<fe, filas, xml, firma, factura, lotes, pisado, corte>>

(* An update of the row, whatever it has become.  What the request had in  *)
(* hand is of no use after it.                                             *)
Escribir(s, fila, p) ==
    /\ fe' = fila
    /\ pisado' = (pisado \/ sesion[s].vieja)
    /\ sesion' = [t \in Sesiones |->
          CASE t = s                   -> [Pasar(s, p) EXCEPT !.cdc = Nada, !.lote = 0]
            [] t # s /\ En(t, "libre") -> sesion[t]
            [] OTHER                   -> [sesion[t] EXCEPT !.vieja = TRUE]]

(* Updates go by the id read, and a draft may be deleted and made again.   *)
Suya(s) == fe.estado # "nada" /\ sesion[s].id = filas

(* An update that checks it wrote a row; one that does not.                *)
Guardar(s, fila, p) == Suya(s) /\ Escribir(s, fila, p)

Reponer(s, fila, p) ==
    IF Suya(s)
    THEN Escribir(s, fila, p)
    ELSE Ir(s, p) /\ UNCHANGED <<fe, pisado>>

(* The process dies between two statements.                                *)
Caer(s) ==
    /\ ~ En(s, "libre")
    /\ Ir(s, "libre")
    /\ corte' = (corte \/ sesion[s].paso \in {"cancelar_evento", "cancelar_factura",
                                               "cancelar_deshacer"})
    /\ UNCHANGED <<fe, filas, xml, firma, factura, lotes, pisado>>

(* A statement fails where the handler has nothing to undo.                *)
Fallar(s) ==
    /\ \/ sesion[s].paso \in {"borrador_insertar", "xml_reservar", "firmar_bajar",
                              "enviar_bajar", "enviar_fila", "consulta_fila", "cancelar_fila"}
       \/ /\ sesion[s].paso \in {"xml_payload", "xml_subir"}
          /\ sesion[s].leida.estado # "rechazado"
    /\ Ir(s, "libre")
    /\ UNCHANGED <<fe, filas, xml, firma, factura, lotes, pisado, corte>>

-----------------------------------------------------------------------------
(* borrador                                                                *)

LeerBorrador(s) ==
    /\ fe.estado = "nada"
    /\ Leer(s, "borrador_insertar", fe)

(* The unique index on factura_id turns the loser to the winner's row.     *)
InsertarBorrador(s) ==
    /\ En(s, "borrador_insertar")
    /\ fe.estado = "nada" /\ filas < MaxFilas
    /\ filas' = filas + 1
    /\ Escribir(s, [SinFila EXCEPT !.estado = "borrador"], "borrador_evento")
    /\ UNCHANGED <<xml, firma, factura, lotes, corte>>

(* Without its event the row, which nobody else deletes, is deleted.       *)
EventoBorrador(s) ==
    /\ En(s, "borrador_evento")
    /\ \/ Ir(s, "libre") /\ UNCHANGED <<fe, pisado>>
       \/ Escribir(s, SinFila, "libre")
    /\ UNCHANGED <<filas, xml, firma, factura, lotes, corte>>

-----------------------------------------------------------------------------
(* xml                                                                     *)

Rechazada(s) == sesion[s].leida.estado = "rechazado"

LeerXml(s) ==
    /\ fe.estado \notin {"nada"} \cup Bloqueados
    /\ Leer(s, IF fe.estado = "rechazado" THEN "xml_reservar" ELSE "xml_payload",
               [fe EXCEPT !.aprobada = FALSE, !.cancelada = FALSE])

(* A rejected document takes the next number: the update asks for the      *)
(* state and the number read.                                              *)
Reservable(s) == fe.estado = "rechazado" /\ fe.seq = sesion[s].leida.seq

(* The lot the row points at has the document of its number.  If not, that *)
(* number is skipped: its document, which nobody will ask about, may be in *)
(* storage, in the hands of a request, or at SET.                          *)
NumeroUsado == fe.prot # 0 /\ lotes[fe.prot].cdc = <<filas, fe.seq>>

ReservarSeq(s) ==
    /\ En(s, "xml_reservar")
    /\ Reservable(s)
    /\ fe.seq < MaxSeq
    /\ Guardar(s, [fe EXCEPT !.seq = @ + 1, !.salto = @ \/ ~ NumeroUsado], "xml_payload")
    /\ UNCHANGED <<filas, xml, firma, factura, lotes, corte>>

(* The payload reads the row again, which must be the same; the CDC is     *)
(* drawn from its number and its id.                                       *)
ArmarXml(s) ==
    /\ En(s, "xml_payload")
    /\ Suya(s)
    /\ sesion' = [sesion EXCEPT ![s].paso = "xml_subir", ![s].cdc = <<filas, fe.seq>>]
    /\ UNCHANGED <<fe, filas, xml, firma, factura, lotes, pisado, corte>>

SubirXml(s) ==
    /\ En(s, "xml_subir")
    /\ xml' = sesion[s].cdc
    /\ Ir(s, "xml_fila")
    /\ UNCHANGED <<fe, filas, firma, factura, lotes, pisado, corte>>

(* Payload, build or upload fail after the number was taken.               *)
FallarReservado(s) ==
    /\ sesion[s].paso \in {"xml_payload", "xml_subir"}
    /\ Rechazada(s)
    /\ Ir(s, "xml_revertir")
    /\ UNCHANGED <<fe, filas, xml, firma, factura, lotes, pisado, corte>>

GuardarXml(s) ==
    /\ En(s, "xml_fila")
    /\ Guardar(s, [fe EXCEPT !.estado = "generado", !.xml = TRUE, !.firmado = FALSE,
                             !.cdc = sesion[s].cdc,
                             !.prot = IF Rechazada(s) THEN 0 ELSE @], "xml_evento")
    /\ UNCHANGED <<filas, xml, firma, factura, lotes, corte>>

(* The update fails: the file goes, and the number if it was taken.        *)
FallarXml(s) ==
    /\ En(s, "xml_fila")
    /\ xml' = Nada
    /\ Ir(s, IF Rechazada(s) THEN "xml_revertir" ELSE "libre")
    /\ UNCHANGED <<fe, filas, firma, factura, lotes, pisado, corte>>

(* revertBumpRegSeq: the number read, with no condition.                   *)
RevertirSeq(s) ==
    /\ En(s, "xml_revertir")
    /\ Reponer(s, [fe EXCEPT !.seq = sesion[s].leida.seq], "libre")
    /\ UNCHANGED <<filas, xml, firma, factura, lotes, corte>>

EventoXml(s) ==
    /\ En(s, "xml_evento")
    /\ IF sesion[s].leida.firmado
       THEN sesion' = [sesion EXCEPT ![s] = [Libre EXCEPT !.paso = "xml_quitar"]]
       ELSE Ir(s, "libre")
    /\ UNCHANGED <<fe, filas, xml, firma, factura, lotes, pisado, corte>>

(* What the row goes back to: number, CDC and protocol only when it was    *)
(* rejected.                                                               *)
AntesDelXml(leida) ==
    LET f == [fe EXCEPT !.estado = leida.estado, !.xml = leida.xml, !.firmado = leida.firmado]
    IN  IF leida.estado = "rechazado"
        THEN [f EXCEPT !.seq = leida.seq, !.cdc = leida.cdc, !.prot = leida.prot]
        ELSE f

SinEventoXml(s) ==
    /\ En(s, "xml_evento")
    /\ Reponer(s, AntesDelXml(sesion[s].leida), "xml_borrar")
    /\ UNCHANGED <<filas, xml, firma, factura, lotes, corte>>

BorrarXml(s) ==
    /\ En(s, "xml_borrar")
    /\ xml' = Nada
    /\ Ir(s, "libre")
    /\ UNCHANGED <<fe, filas, firma, factura, lotes, pisado, corte>>

(* The old signed file is the last thing to go.                            *)
QuitarFirma(s) ==
    /\ En(s, "xml_quitar")
    /\ firma' = Nada
    /\ Ir(s, "libre")
    /\ UNCHANGED <<fe, filas, xml, factura, lotes, pisado, corte>>

-----------------------------------------------------------------------------
(* firmar                                                                  *)

LeerFirmar(s) ==
    /\ fe.estado \notin {"nada"} \cup Bloqueados
    /\ fe.xml
    /\ Leer(s, "firmar_bajar", [SinFila EXCEPT !.estado = fe.estado, !.xml = TRUE,
                                               !.firmado = fe.firmado])

BajarXml(s) ==
    /\ En(s, "firmar_bajar")
    /\ xml # Nada
    /\ sesion' = [sesion EXCEPT ![s].paso = "firmar_subir", ![s].cdc = xml]
    /\ UNCHANGED <<fe, filas, xml, firma, factura, lotes, pisado, corte>>

(* Removes the old signed file, then uploads the new one, which may fail.  *)
SubirFirma(s) ==
    /\ En(s, "firmar_subir")
    /\ \/ firma' = sesion[s].cdc /\ Ir(s, "firmar_fila")
       \/ firma' = Nada /\ Ir(s, "libre")
    /\ UNCHANGED <<fe, filas, xml, factura, lotes, pisado, corte>>

GuardarFirma(s) ==
    /\ En(s, "firmar_fila")
    /\ Guardar(s, [fe EXCEPT !.estado = "firmado", !.xml = TRUE, !.firmado = TRUE],
               "firmar_evento")
    /\ UNCHANGED <<filas, xml, firma, factura, lotes, corte>>

(* The file uploaded goes, unless the row read already pointed at it.      *)
DejarFirma(s) ==
    /\ firma' = IF sesion[s].leida.firmado THEN firma ELSE Nada
    /\ Ir(s, "libre")
    /\ UNCHANGED <<fe, filas, xml, factura, lotes, pisado, corte>>

FallarFirma(s) == En(s, "firmar_fila") /\ DejarFirma(s)

EventoFirma(s) ==
    /\ En(s, "firmar_evento")
    /\ \/ Ir(s, "libre") /\ UNCHANGED <<fe, pisado>>
       \/ LET leida == sesion[s].leida
          IN  Reponer(s, [fe EXCEPT !.estado = leida.estado, !.xml = leida.xml,
                                    !.firmado = leida.firmado], "firmar_borrar")
    /\ UNCHANGED <<filas, xml, firma, factura, lotes, corte>>

BorrarFirma(s) == En(s, "firmar_borrar") /\ DejarFirma(s)

-----------------------------------------------------------------------------
(* enviar                                                                  *)

LeerEnviar(s) ==
    /\ fe.estado = "firmado" /\ fe.firmado
    /\ Leer(s, "enviar_bajar", [SinFila EXCEPT !.estado = "firmado", !.firmado = TRUE,
                                               !.prot = fe.prot])

BajarFirma(s) ==
    /\ En(s, "enviar_bajar")
    /\ firma # Nada
    /\ sesion' = [sesion EXCEPT ![s].paso = "enviar_soap", ![s].cdc = firma]
    /\ UNCHANGED <<fe, filas, xml, firma, factura, lotes, pisado, corte>>

(* SET takes the lot, and its answer may be lost: then the handler answers *)
(* 502 and writes nothing.                                                 *)
Recibir(s) ==
    /\ En(s, "enviar_soap")
    /\ Len(lotes) < MaxLotes
    /\ lotes' = Append(lotes, [cdc |-> sesion[s].cdc, res |-> "pendiente"])
    /\ \/ Ir(s, "libre")
       \/ sesion' = [sesion EXCEPT ![s].paso = "enviar_fila", ![s].resp = "encolado",
                                   ![s].cdc = Nada, ![s].lote = Len(lotes) + 1]
    /\ UNCHANGED <<fe, filas, xml, firma, factura, pisado, corte>>

(* Or SET does not take it; then the handler sends the document alone, to  *)
(* learn why, and SET may take that: its answer only goes into the error.  *)
NoRecibir(s) ==
    /\ En(s, "enviar_soap")
    /\ \/ Ir(s, "libre") /\ UNCHANGED lotes
       \/ /\ sesion' = [sesion EXCEPT ![s].paso = "enviar_fila", ![s].resp = "no_encolado",
                                      ![s].cdc = Nada]
          /\ \/ UNCHANGED lotes
             \/ /\ Len(lotes) < MaxLotes
                /\ lotes' = Append(lotes, [cdc |-> sesion[s].cdc, res |-> "pendiente"])
    /\ UNCHANGED <<fe, filas, xml, firma, factura, pisado, corte>>

EnvioComoAprobado(s) ==
    /\ En(s, "enviar_fila")
    /\ Guardar(s, [fe EXCEPT !.estado = IF sesion[s].resp = "encolado"
                                        THEN "aprobado" ELSE "error_envio",
                             !.prot = sesion[s].lote], "enviar_evento")
    /\ UNCHANGED <<filas, xml, firma, factura, lotes, corte>>

GuardarEnvio(s) ==
    /\ En(s, "enviar_fila")
    /\ Guardar(s, [fe EXCEPT !.estado = IF sesion[s].resp = "encolado"
                                        THEN "enviado" ELSE "error_envio",
                             !.prot = sesion[s].lote], "enviar_evento")
    /\ UNCHANGED <<filas, xml, firma, factura, lotes, corte>>

EventoEnvio(s) ==
    /\ En(s, "enviar_evento")
    /\ \/ Ir(s, "libre") /\ UNCHANGED <<fe, pisado>>
       \/ Reponer(s, [fe EXCEPT !.estado = sesion[s].leida.estado,
                                !.prot = sesion[s].leida.prot], "libre")
    /\ UNCHANGED <<filas, xml, firma, factura, lotes, corte>>

-----------------------------------------------------------------------------
(* consulta-lote                                                           *)

(* SET decides on a lot when it likes.                                     *)
Dictaminar(i) ==
    /\ lotes[i].res = "pendiente"
    /\ \E r \in {"aprobado", "rechazado"} : lotes' = [lotes EXCEPT ![i].res = r]
    /\ UNCHANGED <<fe, filas, xml, firma, factura, sesion, pisado, corte>>

LeerConsulta(s) ==
    /\ fe.prot # 0
    /\ Leer(s, "consulta_soap", [SinFila EXCEPT !.estado = fe.estado, !.prot = fe.prot,
                                                !.aprobada = fe.aprobada])

InferirSinMirarPendiente(leida, res) ==
    IF leida.estado = "enviado" THEN res ELSE "nada"

InferirRechazo(leida, res) ==
    CASE leida.estado # "enviado"                     -> "nada"
      [] leida.estado = "enviado" /\ res = "aprobado" -> res
      [] OTHER                                        -> "rechazado"

(* inferirEstadoSifenTrasConsultaLote: only a document read as sent takes  *)
(* the result of the lot.                                                  *)
Inferir(leida, res) ==
    IF leida.estado = "enviado" /\ res # "pendiente" THEN res ELSE "nada"

(* Or SET answers with a fault, or with no rows.                           *)
Consultar(s) ==
    /\ En(s, "consulta_soap")
    /\ \/ Ir(s, "libre")
       \/ \E r \in {"nada", Inferir(sesion[s].leida, lotes[sesion[s].leida.prot].res)} :
             sesion' = [sesion EXCEPT ![s].paso = "consulta_fila", ![s].resp = r]
    /\ UNCHANGED <<fe, filas, xml, firma, factura, lotes, pisado, corte>>

GuardarConsulta(s) ==
    /\ En(s, "consulta_fila")
    /\ LET r == sesion[s].resp
       IN  Guardar(s, [fe EXCEPT !.estado = IF r = "nada" THEN sesion[s].leida.estado ELSE r,
                                 !.aprobada = @ \/ r = "aprobado"], "consulta_evento")
    /\ UNCHANGED <<filas, xml, firma, factura, lotes, corte>>

EventoConsulta(s) ==
    /\ En(s, "consulta_evento")
    /\ \/ Ir(s, "libre") /\ UNCHANGED <<fe, pisado>>
       \/ LET leida == sesion[s].leida
          IN  Reponer(s, [fe EXCEPT !.estado = leida.estado,
                                    !.aprobada = IF sesion[s].resp = "aprobado"
                                                 THEN leida.aprobada ELSE @], "libre")
    /\ UNCHANGED <<filas, xml, firma, factura, lotes, corte>>

-----------------------------------------------------------------------------
(* cancelar                                                                *)

(* Approved, with the mark of the approval and none of a cancellation; the *)
(* term of the company and the absence of payments may stop it too.        *)
LeerCancelar(s) ==
    /\ fe.estado = "aprobado" /\ fe.aprobada /\ ~ fe.cancelada
    /\ Leer(s, "cancelar_fila", fe)

CancelarFila(s) ==
    /\ En(s, "cancelar_fila")
    /\ Guardar(s, [fe EXCEPT !.estado = "cancelado", !.cancelada = TRUE], "cancelar_evento")
    /\ UNCHANGED <<filas, xml, firma, factura, lotes, corte>>

EventoCancelar(s) ==
    /\ En(s, "cancelar_evento")
    /\ \E p \in {"cancelar_factura", "cancelar_deshacer"} : Ir(s, p)
    /\ UNCHANGED <<fe, filas, xml, firma, factura, lotes, pisado, corte>>

Anulada == [Vigente EXCEPT !.anulada = TRUE]

AnularSinDeshacer(s) ==
    /\ En(s, "cancelar_factura")
    /\ factura' \in {factura, Anulada}
    /\ Ir(s, "libre")
    /\ UNCHANGED <<fe, filas, xml, firma, lotes, pisado, corte>>

AnularFactura(s) ==
    /\ En(s, "cancelar_factura")
    /\ \/ factura' = Anulada /\ Ir(s, "libre")
       \/ factura' = factura /\ Ir(s, "cancelar_deshacer")
    /\ UNCHANGED <<fe, filas, xml, firma, lotes, pisado, corte>>

DeshacerCancelar(s) ==
    /\ En(s, "cancelar_deshacer")
    /\ Reponer(s, [fe EXCEPT !.estado = sesion[s].leida.estado,
                             !.cancelada = sesion[s].leida.cancelada], "libre")
    /\ UNCHANGED <<filas, xml, firma, factura, lotes, corte>>

-----------------------------------------------------------------------------
(* The other writers of the invoice.  Both write what they computed from   *)
(* the invoice they read, whatever has become of it.                       *)

(* A client who leaves, or is deleted: the pending invoices read are void, *)
(* with no look at their documents.                                        *)
AnularPorBaja ==
    /\ ~ (factura.anulada /\ factura.baja)
    /\ factura' = [factura EXCEPT !.anulada = TRUE, !.baja = TRUE]
    /\ UNCHANGED <<fe, filas, xml, firma, lotes, sesion, pisado, corte>>

(* A payment that read the invoice while it was in force writes the state  *)
(* that leaves; one over an invoice still in force changes nothing here.   *)
PagarAnulada ==
    /\ factura.anulada
    /\ factura' = [Vigente EXCEPT !.reabierta = TRUE]
    /\ UNCHANGED <<fe, filas, xml, firma, lotes, sesion, pisado, corte>>

-----------------------------------------------------------------------------
Borrador(s) == LeerBorrador(s) \/ InsertarBorrador(s) \/ EventoBorrador(s)

Xml(s) ==
    \/ LeerXml(s) \/ ReservarSeq(s) \/ ArmarXml(s) \/ SubirXml(s) \/ FallarReservado(s)
    \/ GuardarXml(s) \/ FallarXml(s) \/ RevertirSeq(s)
    \/ EventoXml(s) \/ SinEventoXml(s) \/ BorrarXml(s) \/ QuitarFirma(s)

Firmar(s) ==
    \/ LeerFirmar(s) \/ BajarXml(s) \/ SubirFirma(s) \/ GuardarFirma(s) \/ FallarFirma(s)
    \/ EventoFirma(s) \/ BorrarFirma(s)

Enviar(s) ==
    \/ LeerEnviar(s) \/ BajarFirma(s) \/ Recibir(s) \/ NoRecibir(s)
    \/ GuardarEnvio(s) \/ EventoEnvio(s)

Consulta(s) == LeerConsulta(s) \/ Consultar(s) \/ GuardarConsulta(s) \/ EventoConsulta(s)

Cancelar(s) ==
    \/ LeerCancelar(s) \/ CancelarFila(s) \/ EventoCancelar(s)
    \/ AnularFactura(s) \/ DeshacerCancelar(s)

Next ==
    \/ \E s \in Sesiones :
          \/ Borrador(s) \/ Xml(s) \/ Firmar(s) \/ Enviar(s) \/ Consulta(s) \/ Cancelar(s)
          \/ Fallar(s) \/ Caer(s)
    \/ \E i \in 1..Len(lotes) : Dictaminar(i)
    \/ AnularPorBaja \/ PagarAnulada

Spec == Init /\ [][Next]_vars

-----------------------------------------------------------------------------
TypeOK ==
    /\ fe \in Fila
    /\ filas \in 0..MaxFilas
    /\ xml \in Cdcs /\ firma \in Cdcs
    /\ factura \in Comercial
    /\ lotes \in Seq([cdc : Cdcs, res : Resultados]) /\ Len(lotes) <= MaxLotes
    /\ sesion \in [Sesiones -> [paso : Pasos, leida : Fila, id : 0..MaxFilas, cdc : Cdcs,
                                lote : 0..MaxLotes, resp : Respuestas, vieja : BOOLEAN]]
    /\ pisado \in BOOLEAN /\ corte \in BOOLEAN

Aprobados == {i \in 1..Len(lotes) : lotes[i].res = "aprobado"}

(* The ERP never invents an approval: when it shows a document as approved, *)
(* or cancelled after that, SET approved a lot of it; and, unless a request *)
(* wrote over a change it had not seen, the lot the row points at.          *)
AprobadoPorSet ==
    fe.estado \in {"aprobado", "cancelado"} =>
        /\ Aprobados # {}
        /\ pisado \/ fe.prot \in Aprobados

(* SET approves two documents of one invoice only if some CDC was sent     *)
(* twice, a number was skipped, a request wrote the row over a change it   *)
(* had not seen, or the row was made twice (who read the first may still   *)
(* upload its XML).  Otherwise a number is only left once SET rejected it. *)
DosAprobadosPorReenvio ==
    (\E i, j \in Aprobados : i # j) =>
        \/ pisado \/ filas > 1 \/ fe.salto
        \/ \E i, j \in 1..Len(lotes) : i # j /\ lotes[i].cdc = lotes[j].cdc

(* With no request on the document under way: a void invoice has its       *)
(* document cancelled, unless it was the client's leaving that voided it   *)
(* last; and the invoice of a cancelled document is void, unless a payment *)
(* that had read it in force wrote over it.                                *)
FacturaSigueAlDocumento ==
    (\A s \in Sesiones : En(s, "libre")) /\ ~ pisado /\ ~ corte =>
        /\ factura.anulada => fe.estado = "cancelado" \/ factura.baja
        /\ fe.estado = "cancelado" => factura.anulada \/ factura.reabierta

(* An approval is only taken back by the request that recorded it, when    *)
(* its event fails, or by one that had not seen it.                        *)
AprobacionEstable ==
    [][fe.estado = "aprobado" /\ fe'.estado \notin {"aprobado", "cancelado"} =>
          \/ pisado'
          \/ \E s \in Sesiones : En(s, "consulta_evento") /\ sesion'[s] = Libre]_vars

=============================================================================
