------------------------------ MODULE Facturas ------------------------------
(***************************************************************************)
(* One credit invoice whose electronic document SET approved: its balance, *)
(* the payments it takes (api/pagos), what voids it (api/facturas/[id]/    *)
(* sifen/cancelar, api/clientes/[id]/baja-operativa) and the credit notes  *)
(* that settle it (lib/nota-credito and the function of the database that  *)
(* applies an approval).                                                   *)
(*                                                                         *)
(* As in DocumentoElectronico an action is one await of a handler, which   *)
(* works on the copies it read.                                            *)
(***************************************************************************)
EXTENDS Integers, Sequences, FiniteSets

CONSTANTS
    Sesiones,   \* browser sessions: each runs one request at a time
    Notas,      \* ids of credit notes
    Ninguna,    \* no note
    Monto,      \* total of the invoice
    Importes,   \* amounts a payment may have
    MaxPagos,   \* bound: payment rows
    MaxLotes    \* bound: lots SET received

ASSUME FacturasAssumption ==
    /\ Ninguna \notin Notas
    /\ Monto \in Nat \ {0}
    /\ Importes \subseteq Nat \ {0}
    /\ MaxPagos \in Nat
    /\ MaxLotes \in Nat
    /\ IsFiniteSet(Sesiones)

VARIABLES
    factura,     \* the row of facturas: estado and saldo
    fe,          \* estado_sifen of its electronic document
    plazo,       \* whether the term to cancel the document still runs
    pagos,       \* the rows of pagos: how many and how much
    nc,          \* per note: nota_credito.estado_erp and monto, the state of
                 \* nota_credito_electronica and its lot, and (history) how
                 \* many times it was taken off the balance
    lotes,       \* the lots of notes SET received, in order: note and result
    sesion,      \* per session: the step of its request, the note, what it
                 \* read of invoice and note, the amount, the lot, what SET
                 \* answered, and (history) whether the invoice was written
                 \* since it was read
    acreditado,  \* history: what credit notes took off the balance
    pisado,      \* history: a request wrote the invoice over an unseen change
    huerfano     \* history: a payment row was left and its request is over

vars == <<factura, fe, plazo, pagos, nc, lotes, sesion, acreditado, pisado, huerfano>>

Abierta == [estado |-> "Pendiente", saldo |-> Monto]
Factura == [estado : {"Pendiente", "Pagado", "Anulado", "Corregida NC"}, saldo : 0..Monto]

EstadosErp == {"nada", "borrador", "pendiente_envio_sifen", "aprobada", "rechazada",
               "error", "anulada_borrador", "borrada"}
EstadosNe == {"nada", "sin_envio", "generado", "firmado", "enviado", "error_envio",
              "en_proceso", "rechazado", "aprobado"}
EnCurso == {"borrador", "pendiente_envio_sifen"}
ConIndice == EnCurso \cup {"aprobada"}    \* uq_nota_credito_factura_estado_activo
BloqueadosXml == {"firmado", "enviado", "en_proceso", "aprobado"}
BloqueadosFirmar == {"aprobado", "rechazado", "enviado", "en_proceso"}

Nota == [erp : EstadosErp, monto : 0..Monto, ne : EstadosNe, prot : 0..MaxLotes,
         impactos : Nat]
SinNota == [erp |-> "nada", monto |-> 0, ne |-> "nada", prot |-> 0, impactos |-> 0]

PasosFactura == {"pago_insertar", "pago_aplicar", "pago_borrar", "baja_anular",
                 "cancelar_fila", "cancelar_factura", "cancelar_deshacer"}
PasosNota == {"crear_validar", "crear_insertar", "crear_detallar", "crear_borrar",
              "xml_fila", "xml_erp", "firmar_fila", "enviar_soap", "enviar_fila",
              "enviar_erp", "enviar_reponer", "consulta_soap", "consulta_rpc",
              "consulta_rechazo", "consulta_erp", "consulta_fila", "reponer"}
Pasos == {"libre"} \cup PasosFactura \cup PasosNota

Libre == [paso |-> "libre", nota |-> Ninguna, leida |-> Abierta, ne |-> "nada",
          prot |-> 0, monto |-> 0, resp |-> "nada", vieja |-> FALSE]

Init ==
    /\ factura = Abierta
    /\ fe = "aprobado"
    /\ plazo = TRUE
    /\ pagos = [n |-> 0, suma |-> 0]
    /\ nc = [n \in Notas |-> SinNota]
    /\ lotes = <<>>
    /\ sesion = [s \in Sesiones |-> Libre]
    /\ acreditado = 0
    /\ pisado = FALSE
    /\ huerfano = FALSE

-----------------------------------------------------------------------------
(* What handlers have in common.                                           *)

En(s, p) == sesion[s].paso = p
N(s) == sesion[s].nota

(* A request keeps what its next steps use.                                *)
Pasar(s, p) ==
    CASE p = "libre" -> Libre
      [] p \in {"reponer", "consulta_erp"} ->
            [Libre EXCEPT !.paso = p, !.nota = N(s), !.ne = sesion[s].ne]
      [] p \in {"xml_erp", "enviar_erp", "consulta_rpc"} ->
            [Libre EXCEPT !.paso = p, !.nota = N(s)]
      [] OTHER -> [sesion[s] EXCEPT !.paso = p]

Ir(s, p) == sesion' = [sesion EXCEPT ![s] = Pasar(s, p)]

(* A request that goes on, or undoes because its event could not be        *)
(* written; events are not kept.                                           *)
Seguir(s, ps) == \E p \in ps : Ir(s, p)

Empezar(s, peticion) ==
    /\ En(s, "libre")
    /\ sesion' = [sesion EXCEPT ![s] = peticion]
    /\ UNCHANGED <<factura, fe, plazo, pagos, nc, lotes, acreditado, pisado, huerfano>>

(* The invoice changed: who read it to write it later has an old copy.     *)
Envejecer(s, p) ==
    sesion' = [t \in Sesiones |->
        CASE t = s                                     -> Pasar(s, p)
          [] t # s /\ sesion[t].paso \in PasosFactura -> [sesion[t] EXCEPT !.vieja = TRUE]
          [] OTHER                                     -> sesion[t]]

(* An update of the invoice by its id, whatever it has become.             *)
EscribirFactura(s, fila, p) ==
    /\ factura' = fila
    /\ pisado' = (pisado \/ sesion[s].vieja)
    /\ Envejecer(s, p)

(* The process dies between two statements.                                *)
Caer(s) ==
    /\ ~ En(s, "libre")
    /\ Ir(s, "libre")
    /\ huerfano' = (huerfano \/ sesion[s].paso \in {"pago_aplicar", "pago_borrar"})
    /\ UNCHANGED <<factura, fe, plazo, pagos, nc, lotes, acreditado, pisado>>

(* A statement fails, or a check refuses, where there is nothing to undo.  *)
Fallar(s) ==
    /\ sesion[s].paso \in {"pago_insertar", "baja_anular", "cancelar_fila", "crear_validar",
                           "crear_insertar", "xml_fila", "firmar_fila", "enviar_fila",
                           "consulta_rpc", "consulta_rechazo", "consulta_fila"}
    /\ Ir(s, "libre")
    /\ UNCHANGED <<factura, fe, plazo, pagos, nc, lotes, acreditado, pisado, huerfano>>

-----------------------------------------------------------------------------
(* Payments.                                                               *)

LeerPagoSinTope(s, m) ==
    /\ factura.estado \notin {"Anulado", "Corregida NC", "Pagado"}
    /\ Empezar(s, [Libre EXCEPT !.paso = "pago_insertar", !.leida = factura, !.monto = m])

LeerPago(s, m) ==
    /\ factura.estado \notin {"Anulado", "Corregida NC"}
    /\ m <= factura.saldo
    /\ Empezar(s, [Libre EXCEPT !.paso = "pago_insertar", !.leida = factura, !.monto = m])

InsertarPago(s) ==
    /\ En(s, "pago_insertar")
    /\ pagos.n < MaxPagos
    /\ pagos' = [n |-> pagos.n + 1, suma |-> pagos.suma + sesion[s].monto]
    /\ Ir(s, "pago_aplicar")
    /\ UNCHANGED <<factura, fe, plazo, nc, lotes, acreditado, pisado, huerfano>>

ConPago(fila, m) ==
    [estado |-> IF fila.saldo - m <= 0 THEN "Pagado" ELSE "Pendiente", saldo |-> fila.saldo - m]

(* The balance read less the payment.                                      *)
AplicarPago(s) ==
    /\ En(s, "pago_aplicar")
    /\ EscribirFactura(s, ConPago(sesion[s].leida, sesion[s].monto), "libre")
    /\ UNCHANGED <<fe, plazo, pagos, nc, lotes, acreditado, huerfano>>

NoAplicarPago(s) ==
    /\ En(s, "pago_aplicar")
    /\ Ir(s, "pago_borrar")
    /\ UNCHANGED <<factura, fe, plazo, pagos, nc, lotes, acreditado, pisado, huerfano>>

(* The row of the payment goes; nobody looks at whether it went.           *)
BorrarPago(s) ==
    /\ En(s, "pago_borrar")
    /\ \/ /\ pagos' = [n |-> pagos.n - 1, suma |-> pagos.suma - sesion[s].monto]
          /\ UNCHANGED huerfano
       \/ huerfano' = TRUE /\ UNCHANGED pagos
    /\ Ir(s, "libre")
    /\ UNCHANGED <<factura, fe, plazo, nc, lotes, acreditado, pisado>>

-----------------------------------------------------------------------------
(* What voids the invoice.                                                 *)

LeerBajaTodas(s) ==
    /\ factura.estado # "Anulado"
    /\ Empezar(s, [Libre EXCEPT !.paso = "baja_anular"])

(* The client leaves: every invoice with a balance is voided.              *)
LeerBaja(s) ==
    /\ factura.estado # "Anulado" /\ factura.saldo > 0
    /\ Empezar(s, [Libre EXCEPT !.paso = "baja_anular"])

AnularPorBaja(s) ==
    /\ En(s, "baja_anular")
    /\ EscribirFactura(s, [estado |-> "Anulado", saldo |-> 0], "libre")
    /\ UNCHANGED <<fe, plazo, pagos, nc, lotes, acreditado, huerfano>>

(* buildSifenCancelacionPreview                                            *)
Cancelable == fe = "aprobado" /\ plazo /\ pagos.n = 0

LeerCancelar(s) ==
    /\ Cancelable
    /\ Empezar(s, [Libre EXCEPT !.paso = "cancelar_fila"])

CancelarFila(s) ==
    /\ En(s, "cancelar_fila")
    /\ fe' = "cancelado"
    /\ Seguir(s, {"cancelar_factura", "cancelar_deshacer"})
    /\ UNCHANGED <<factura, plazo, pagos, nc, lotes, acreditado, pisado, huerfano>>

AnularPorCancelar(s) ==
    /\ En(s, "cancelar_factura")
    /\ \/ EscribirFactura(s, [estado |-> "Anulado", saldo |-> 0], "libre")
       \/ Ir(s, "cancelar_deshacer") /\ UNCHANGED <<factura, pisado>>
    /\ UNCHANGED <<fe, plazo, pagos, nc, lotes, acreditado, huerfano>>

DeshacerCancelar(s) ==
    /\ En(s, "cancelar_deshacer")
    /\ fe' = "aprobado"
    /\ Ir(s, "libre")
    /\ UNCHANGED <<factura, plazo, pagos, nc, lotes, acreditado, pisado, huerfano>>

VencerPlazo ==
    /\ plazo /\ plazo' = FALSE
    /\ UNCHANGED <<factura, fe, pagos, nc, lotes, sesion, acreditado, pisado, huerfano>>

-----------------------------------------------------------------------------
(* The draft of a credit note, for the balance read.                       *)

LeerCrear(s) ==
    /\ factura.estado # "Anulado" /\ factura.saldo > 0
    /\ fe = "aprobado"
    /\ Empezar(s, [Libre EXCEPT !.paso = "crear_validar", !.monto = factura.saldo])

(* The payments are read after the invoice.                                *)
ValidarCrear(s) ==
    /\ En(s, "crear_validar")
    /\ ~ (plazo /\ pagos.n = 0)
    /\ sesion[s].monto = IF pagos.suma > Monto THEN 0 ELSE Monto - pagos.suma
    /\ \A n \in Notas : nc[n].erp # "aprobada"
    /\ Ir(s, "crear_insertar")
    /\ UNCHANGED <<factura, fe, plazo, pagos, nc, lotes, acreditado, pisado, huerfano>>

InsertarNc(s, n) ==
    /\ En(s, "crear_insertar")
    /\ nc[n].erp = "nada"
    /\ \A m \in Notas : nc[m].erp \notin ConIndice
    /\ nc' = [nc EXCEPT ![n].erp = "borrador", ![n].monto = sesion[s].monto]
    /\ sesion' = [sesion EXCEPT ![s] = [Libre EXCEPT !.paso = "crear_detallar", !.nota = n]]
    /\ UNCHANGED <<factura, fe, plazo, pagos, lotes, acreditado, pisado, huerfano>>

(* Its electronic row and its events: without them the note is deleted.    *)
DetallarNc(s) ==
    /\ En(s, "crear_detallar")
    /\ \/ nc' = [nc EXCEPT ![N(s)].ne = "sin_envio"] /\ Seguir(s, {"libre", "crear_borrar"})
       \/ nc' = nc /\ Ir(s, "crear_borrar")
    /\ UNCHANGED <<factura, fe, plazo, pagos, lotes, acreditado, pisado, huerfano>>

BorrarNc(s) ==
    /\ En(s, "crear_borrar")
    /\ nc' \in {nc, [nc EXCEPT ![N(s)].erp = "borrada", ![N(s)].ne = "nada"]}
    /\ Ir(s, "libre")
    /\ UNCHANGED <<factura, fe, plazo, pagos, lotes, acreditado, pisado, huerfano>>

(* The update asks for the state again.                                    *)
AnularBorrador(n) ==
    /\ nc[n].erp = "borrador"
    /\ nc' = [nc EXCEPT ![n].erp = "anulada_borrador"]
    /\ UNCHANGED <<factura, fe, plazo, pagos, lotes, sesion, acreditado, pisado, huerfano>>

-----------------------------------------------------------------------------
(* The document of a note: xml, firmar, enviar.  procesar calls the three. *)

LeerNota(s, n, p) ==
    /\ nc[n].ne # "nada"
    /\ Empezar(s, [Libre EXCEPT !.paso = p, !.nota = n, !.ne = nc[n].ne,
            !.prot = IF p \in {"enviar_soap", "consulta_soap"} THEN nc[n].prot ELSE 0])

(* assertNcSifenSinVentanaCancelacionDe stops a request only when it can    *)
(* still read that the document may be cancelled: when a query of its gate *)
(* fails the request goes on, so no condition on the state holds here.     *)
LeerConGate(s, n, p) ==
    /\ nc[n].erp # "anulada_borrador"
    /\ LeerNota(s, n, p)

(* An update of the electronic row; it fails if the row is gone.           *)
GuardarNe(s, estado, p) ==
    /\ nc[N(s)].ne # "nada"
    /\ nc' = [nc EXCEPT ![N(s)].ne = estado]
    /\ Seguir(s, {p, "reponer"})
    /\ UNCHANGED <<factura, fe, plazo, pagos, lotes, acreditado, pisado, huerfano>>

(* Without its event the row goes back to the state read.                  *)
ReponerNe(s) ==
    /\ En(s, "reponer")
    /\ nc' = IF nc[N(s)].ne = "nada" THEN nc ELSE [nc EXCEPT ![N(s)].ne = sesion[s].ne]
    /\ Ir(s, "libre")
    /\ UNCHANGED <<factura, fe, plazo, pagos, lotes, acreditado, pisado, huerfano>>

(* The commercial state is written last; a failure is ignored.             *)
MarcarErp(s, desde, a, ps) ==
    /\ nc' \in {nc, [nc EXCEPT ![N(s)].erp = IF @ \in desde THEN a ELSE @]}
    /\ Seguir(s, ps)
    /\ UNCHANGED <<factura, fe, plazo, pagos, lotes, acreditado, pisado, huerfano>>

LeerXmlNc(s, n) ==
    /\ nc[n].erp \in EnCurso
    /\ nc[n].ne \notin BloqueadosXml
    /\ LeerConGate(s, n, "xml_fila")

GuardarXmlNc(s) == En(s, "xml_fila") /\ GuardarNe(s, "generado", "xml_erp")

PasarPendiente(s) ==
    /\ En(s, "xml_erp")
    /\ MarcarErp(s, {"borrador"}, "pendiente_envio_sifen", {"libre"})

LeerFirmarNc(s, n) ==
    /\ nc[n].ne \notin BloqueadosFirmar \cup {"sin_envio"}
    /\ LeerConGate(s, n, "firmar_fila")

GuardarFirmaNc(s) == En(s, "firmar_fila") /\ GuardarNe(s, "firmado", "libre")

LeerEnviarNc(s, n) ==
    /\ nc[n].ne \in {"firmado", "error_envio"}
    /\ LeerConGate(s, n, "enviar_soap")

(* SET takes the lot, and its answer may be lost.                          *)
RecibirNc(s) ==
    /\ En(s, "enviar_soap")
    /\ Len(lotes) < MaxLotes
    /\ lotes' = Append(lotes, [nota |-> N(s), res |-> "pendiente"])
    /\ \/ Ir(s, "libre")
       \/ sesion' = [sesion EXCEPT ![s].paso = "enviar_fila", ![s].resp = "encolado",
                                   ![s].monto = Len(lotes) + 1]
    /\ UNCHANGED <<factura, fe, plazo, pagos, nc, acreditado, pisado, huerfano>>

(* Or SET does not take it, and may take the document that the handler     *)
(* then sends alone to learn why: the answer only goes into the error.     *)
NoRecibirNc(s) ==
    /\ En(s, "enviar_soap")
    /\ \/ Ir(s, "libre") /\ UNCHANGED lotes
       \/ /\ Ir(s, "enviar_fila")
          /\ \/ UNCHANGED lotes
             \/ /\ Len(lotes) < MaxLotes
                /\ lotes' = Append(lotes, [nota |-> N(s), res |-> "pendiente"])
    /\ UNCHANGED <<factura, fe, plazo, pagos, nc, acreditado, pisado, huerfano>>

GuardarEnvioNc(s) ==
    /\ En(s, "enviar_fila")
    /\ nc[N(s)].ne # "nada"
    /\ LET tomado == sesion[s].resp = "encolado"
       IN  /\ nc' = [nc EXCEPT ![N(s)].ne = IF tomado THEN "enviado" ELSE "error_envio",
                               ![N(s)].prot = sesion[s].monto]
           /\ Seguir(s, {"enviar_reponer", IF tomado THEN "libre" ELSE "enviar_erp"})
    /\ UNCHANGED <<factura, fe, plazo, pagos, lotes, acreditado, pisado, huerfano>>

ReponerEnvio(s) ==
    /\ En(s, "enviar_reponer")
    /\ nc' = IF nc[N(s)].ne = "nada" THEN nc
             ELSE [nc EXCEPT ![N(s)].ne = sesion[s].ne, ![N(s)].prot = sesion[s].prot]
    /\ Ir(s, "libre")
    /\ UNCHANGED <<factura, fe, plazo, pagos, lotes, acreditado, pisado, huerfano>>

MarcarError(s) ==
    /\ En(s, "enviar_erp")
    /\ MarcarErp(s, EstadosErp \ {"borrada"}, "error", {"libre"})

-----------------------------------------------------------------------------
(* consulta-lote                                                           *)

Dictaminar(i) ==
    /\ lotes[i].res = "pendiente"
    /\ \E r \in {"aprobado", "rechazado"} : lotes' = [lotes EXCEPT ![i].res = r]
    /\ UNCHANGED <<factura, fe, plazo, pagos, nc, sesion, acreditado, pisado, huerfano>>

LeerConsultaNc(s, n) ==
    /\ nc[n].prot # 0
    /\ LeerNota(s, n, "consulta_soap")

InferirSinResultado(ne, res) ==
    IF ne \notin {"enviado", "en_proceso"} THEN ne
    ELSE IF res = "rechazado" THEN res ELSE "aprobado"

(* inferirEstadoSifenTrasConsultaLote, and code 0361 (in process).         *)
InferirNc(ne, res) ==
    IF ne \notin {"enviado", "en_proceso"} THEN ne
    ELSE IF res = "pendiente" THEN "en_proceso" ELSE res

(* SET may also answer with a fault, and the call may fail.                *)
ConsultarNc(s) ==
    /\ En(s, "consulta_soap")
    /\ \/ Ir(s, "libre")
       \/ \E r \in {sesion[s].ne, InferirNc(sesion[s].ne, lotes[sesion[s].prot].res)} :
             sesion' = [sesion EXCEPT ![s].resp = r, ![s].prot = 0, ![s].paso =
                CASE r = "aprobado" /\ sesion[s].ne # r  -> "consulta_rpc"
                  [] r = "rechazado" /\ sesion[s].ne # r -> "consulta_rechazo"
                  [] OTHER                               -> "consulta_fila"]
    /\ UNCHANGED <<factura, fe, plazo, pagos, nc, lotes, acreditado, pisado, huerfano>>

AplicableSinSaldo(n) ==
    /\ nc[n].ne \notin {"nada", "aprobado"}
    /\ \A m \in Notas \ {n} :
          nc[m].erp \notin IF nc[n].erp = "anulada_borrador" THEN {"aprobada"} ELSE ConIndice

(* nota_credito_tras_aprobacion_set_transaccional: it refuses a note that  *)
(* the unique index or the balance does not admit, and does nothing to one *)
(* approved already.  A draft that was annulled stays so.                  *)
Aplicable(n) ==
    /\ nc[n].ne \notin {"nada", "aprobado"}
    /\ nc[n].monto <= factura.saldo
    /\ \A m \in Notas \ {n} :
          nc[m].erp \notin IF nc[n].erp = "anulada_borrador" THEN {"aprobada"} ELSE ConIndice

ConNotaSinCerrar(fila, m) ==
    [saldo |-> IF m > fila.saldo THEN 0 ELSE fila.saldo - m, estado |-> fila.estado]

ConNota(fila, m) ==
    [saldo  |-> IF m > fila.saldo THEN 0 ELSE fila.saldo - m,
     estado |-> IF fila.estado # "Anulado" /\ fila.saldo <= m THEN "Corregida NC"
                ELSE fila.estado]

AplicarAprobacion(s) ==
    /\ En(s, "consulta_rpc")
    /\ LET n == N(s)
       IN  /\ Aplicable(n)
           /\ factura' = ConNota(factura, nc[n].monto)
           /\ nc' = [nc EXCEPT ![n].ne = "aprobado", ![n].impactos = @ + 1,
                               ![n].erp = IF @ = "anulada_borrador" THEN @ ELSE "aprobada"]
           /\ acreditado' = acreditado + nc[n].monto
    /\ Envejecer(s, "libre")
    /\ UNCHANGED <<fe, plazo, pagos, lotes, pisado, huerfano>>

GuardarRechazo(s) == En(s, "consulta_rechazo") /\ GuardarNe(s, "rechazado", "consulta_erp")

MarcarRechazada(s) ==
    /\ En(s, "consulta_erp")
    /\ MarcarErp(s, EstadosErp \ {"borrada"}, "rechazada", {"libre", "reponer"})

GuardarConsultaNc(s) ==
    /\ En(s, "consulta_fila")
    /\ GuardarNe(s, sesion[s].resp, "libre")

-----------------------------------------------------------------------------
Pago(s) ==
    \/ \E m \in Importes : LeerPago(s, m)
    \/ InsertarPago(s) \/ AplicarPago(s) \/ NoAplicarPago(s) \/ BorrarPago(s)

Anular(s) ==
    \/ LeerBaja(s) \/ AnularPorBaja(s)
    \/ LeerCancelar(s) \/ CancelarFila(s) \/ AnularPorCancelar(s) \/ DeshacerCancelar(s)

Crear(s) ==
    \/ LeerCrear(s) \/ ValidarCrear(s) \/ DetallarNc(s) \/ BorrarNc(s)
    \/ \E n \in Notas : InsertarNc(s, n)

Documento(s) ==
    \/ \E n \in Notas : LeerXmlNc(s, n) \/ LeerFirmarNc(s, n) \/ LeerEnviarNc(s, n)
    \/ GuardarXmlNc(s) \/ PasarPendiente(s) \/ GuardarFirmaNc(s) \/ ReponerNe(s)
    \/ RecibirNc(s) \/ NoRecibirNc(s) \/ GuardarEnvioNc(s) \/ ReponerEnvio(s)
    \/ MarcarError(s)

Consulta(s) ==
    \/ \E n \in Notas : LeerConsultaNc(s, n)
    \/ ConsultarNc(s) \/ AplicarAprobacion(s) \/ GuardarRechazo(s) \/ MarcarRechazada(s)
    \/ GuardarConsultaNc(s)

Next ==
    \/ \E s \in Sesiones :
          Pago(s) \/ Anular(s) \/ Crear(s) \/ Documento(s) \/ Consulta(s)
          \/ Fallar(s) \/ Caer(s)
    \/ \E n \in Notas : AnularBorrador(n)
    \/ \E i \in 1..Len(lotes) : Dictaminar(i)
    \/ VencerPlazo

Spec == Init /\ [][Next]_vars

-----------------------------------------------------------------------------
TypeOK ==
    /\ factura \in Factura
    /\ fe \in {"aprobado", "cancelado"}
    /\ plazo \in BOOLEAN
    /\ pagos \in [n : Int, suma : Int]
    /\ nc \in [Notas -> Nota]
    /\ lotes \in Seq([nota : Notas, res : {"pendiente", "aprobado", "rechazado"}])
    /\ Len(lotes) <= MaxLotes
    /\ sesion \in [Sesiones ->
          [paso : Pasos, nota : Notas \cup {Ninguna}, leida : Factura, ne : EstadosNe,
           prot : 0..MaxLotes, monto : Nat, resp : EstadosNe \cup {"encolado"},
           vieja : BOOLEAN]]
    /\ acreditado \in Nat
    /\ pisado \in BOOLEAN /\ huerfano \in BOOLEAN

(* The balance of an invoice in force is its total less the payments and   *)
(* the credit: true when no payment is under way, none was left half done  *)
(* and no request wrote the invoice over a change it had not seen.         *)
SaldoCuadra ==
    /\ factura.estado # "Anulado" /\ ~ pisado /\ ~ huerfano
    /\ \A s \in Sesiones : sesion[s].paso \notin {"pago_aplicar", "pago_borrar"}
    => factura.saldo = Monto - pagos.suma - acreditado

(* Balance and state say the same, whatever was written over what.         *)
EstadoSegunSaldo ==
    factura.saldo = 0 <=> factura.estado \in {"Pagado", "Anulado", "Corregida NC"}

(* A note that shows as approved was taken off the balance ("evita estado  *)
(* aprobado sin saldo"), and only one that SET approved ever is.           *)
ImpactoPorSet ==
    \A n \in Notas :
        /\ nc[n].ne = "aprobado" => nc[n].impactos > 0
        /\ nc[n].impactos > 0 =>
              \E i \in 1..Len(lotes) : lotes[i] = [nota |-> n, res |-> "aprobado"]

(* At most one note settles the invoice, and once, though stale queries    *)
(* can take an approved note back to en_proceso and ask for it again.      *)
ImpactoUnico ==
    ~ pisado => \A n, m \in Notas :
        /\ nc[n].impactos <= 1
        /\ nc[n].impactos > 0 /\ nc[m].impactos > 0 => n = m

(* An invoice voided or settled by a credit note does not open again, nor  *)
(* is it paid, unless a request writes over a change it had not seen.      *)
CerradaNoReabre ==
    [][factura.estado \in {"Anulado", "Corregida NC"} /\ factura' # factura => pisado']_vars

=============================================================================
