---------------------------- MODULE SaldoProofs -----------------------------
(***************************************************************************)
(* The balance of an invoice (ImpactoUnico, SaldoCuadra and                *)
(* CerradaNoReabre of Facturas), for any number of sessions, notes,        *)
(* payments and lots.                                                      *)
(*                                                                         *)
(* One credit note settles the invoice, once: while nobody writes the      *)
(* invoice over a change it had not seen, its balance never grows; a note  *)
(* is made for the balance of its moment, so no note is for less than what *)
(* is owed; the database refuses one for more; hence the note it accepts   *)
(* is for the whole balance, which ends at zero and admits no other.       *)
(*                                                                         *)
(* The balance is the total less the payments and the credit: a row of     *)
(* pagos is either under way, in the hands of one request, or firm; what   *)
(* the invoice shows is the total less the firm ones.                      *)
(*                                                                         *)
(* What is closed does not open: no request that had seen the invoice      *)
(* closed writes it, except a cancellation, which does not look at its     *)
(* state; but it asks that the term still runs and that there is no        *)
(* payment, and a note made within the term has a firm payment under it.   *)
(***************************************************************************)
EXTENDS FacturasProofs, SumasProofs

Pagando == {"pago_insertar", "pago_aplicar"}
Creando == {"crear_validar", "crear_insertar"}
Vigilados == Pagando \cup Creando \cup {"crear_detallar"}

Vale(m) == m > 0 /\ factura.saldo <= m

NotaVale(n) == nc[n].ne # "nada" => Vale(nc[n].monto)

SesionVale(s) ==
    LET r == sesion[s]
    IN  /\ r.paso \in Creando => Vale(r.monto)
        /\ r.paso = "crear_detallar" => Vale(nc[r.nota].monto)
        /\ r.paso \in Pagando /\ ~ r.vieja => r.leida = factura

Unica ==
    \A n, m \in Notas :
        /\ nc[n].impactos <= 1
        /\ nc[n].impactos > 0 => factura.saldo = 0
        /\ nc[n].impactos > 0 /\ nc[m].impactos > 0 => n = m

InvImpacto ==
    ~ pisado => /\ \A n \in Notas : NotaVale(n)
                /\ \A s \in Sesiones : SesionVale(s)
                /\ Unica

LEMMA ImpactoBasta == InvImpacto => ImpactoUnico
BY DEF InvImpacto, Unica, ImpactoUnico

LEMMA ImpactoInicial == Init => InvImpacto
<1> SUFFICES ASSUME Init PROVE InvImpacto
  OBVIOUS
<1>1. ASSUME NEW n \in Notas PROVE nc[n].ne = "nada" /\ nc[n].impactos = 0
  BY DEF Init, SinNota
<1>2. ASSUME NEW s \in Sesiones PROVE sesion[s].paso = "libre"
  BY DEF Init, Libre
<1>3. \A n \in Notas : NotaVale(n)
  BY <1>1 DEF NotaVale
<1>4. \A s \in Sesiones : SesionVale(s)
  BY <1>2 DEF SesionVale, Pagando, Creando
<1>5. Unica
  BY <1>1 DEF Unica
<1> QED
  BY <1>3, <1>4, <1>5 DEF InvImpacto

-----------------------------------------------------------------------------
(* A step that takes nothing from what the invariant says: the balance     *)
(* does not grow, a note keeps amount and impacts and gets no electronic   *)
(* row, and a request that is watched was watched for the same reason.     *)
NotaQuieta(n) ==
    /\ nc'[n].monto = nc[n].monto /\ nc'[n].impactos = nc[n].impactos
    /\ nc'[n].ne # "nada" => nc[n].ne # "nada"

Continua(s) ==
    \/ sesion'[s].paso \notin Vigilados
    \/ /\ \/ sesion'[s].paso \in Pagando /\ sesion[s].paso \in Pagando
          \/ sesion'[s].paso \in Creando /\ sesion[s].paso \in Creando
          \/ sesion'[s].paso = "crear_detallar" /\ sesion[s].paso = "crear_detallar"
       /\ sesion'[s].monto = sesion[s].monto /\ sesion'[s].nota = sesion[s].nota
       /\ sesion'[s].leida = sesion[s].leida
       /\ sesion[s].vieja => sesion'[s].vieja
       /\ sesion[s].paso \in Pagando /\ ~ sesion'[s].vieja => factura' = factura

SaldoBaja == factura'.saldo <= factura.saldo

LEMMA ValeSigue ==
  ASSUME TipoReal, TipoReal', SaldoBaja, NEW m \in Nat, Vale(m)
  PROVE  m > 0 /\ factura'.saldo <= m
<1>1. factura.saldo \in Nat /\ factura'.saldo \in Nat
  BY SaldoTipo DEF TipoReal
<1> QED
  BY <1>1 DEF SaldoBaja, Vale

LEMMA NotaMontoTipo ==
  ASSUME TipoReal, NEW n \in Notas
  PROVE  nc[n].monto \in Nat /\ nc[n].impactos \in Nat
<1>1. nc[n].monto \in 0..Monto /\ nc[n].impactos \in Nat
  BY DEF TipoReal, NotaReal
<1> QED
  BY <1>1, MontoNatural

LEMMA NotaValeSigue ==
  ASSUME TipoReal, TipoReal', SaldoBaja, NEW n \in Notas, NotaQuieta(n), NotaVale(n)
  PROVE  NotaVale(n)'
<1>1. CASE nc'[n].ne = "nada"
  BY <1>1 DEF NotaVale
<1>2. CASE nc'[n].ne # "nada"
  <2>1. Vale(nc[n].monto) /\ nc[n].monto \in Nat
    BY <1>2, NotaMontoTipo DEF NotaQuieta, NotaVale
  <2>2. nc[n].monto > 0 /\ factura'.saldo <= nc[n].monto
    BY <2>1, ValeSigue
  <2> QED
    BY <2>2 DEF NotaQuieta, NotaVale, Vale
<1> QED
  BY <1>1, <1>2

LEMMA SesionValeSigue ==
  ASSUME TipoReal, TipoReal', SaldoBaja, NEW s \in Sesiones, Continua(s), SesionVale(s),
         \A n \in Notas : nc'[n].monto = nc[n].monto
  PROVE  SesionVale(s)'
<1>1. CASE sesion'[s].paso \notin Vigilados
  BY <1>1 DEF SesionVale, Vigilados
<1>2. CASE sesion'[s].paso \in Pagando /\ sesion[s].paso \in Pagando /\ Continua(s)
           /\ sesion'[s].paso \in Vigilados
  <2>1. ~ sesion'[s].vieja => sesion'[s].leida = factura'
    BY <1>2 DEF Continua, SesionVale
  <2> QED
    BY <1>2, <2>1 DEF SesionVale, Pagando, Creando
<1>3. CASE sesion'[s].paso \in Creando /\ sesion[s].paso \in Creando
           /\ sesion'[s].paso \in Vigilados
  <2>1. sesion'[s].monto = sesion[s].monto /\ Vale(sesion[s].monto)
    BY <1>3 DEF Continua, SesionVale
  <2>2. sesion[s].monto \in Nat
    BY EnMano DEF Registro
  <2>3. sesion'[s].monto > 0 /\ factura'.saldo <= sesion'[s].monto
    BY <2>1, <2>2, ValeSigue
  <2> QED
    BY <1>3, <2>3 DEF SesionVale, Vale, Pagando, Creando
<1>4. CASE sesion'[s].paso = "crear_detallar" /\ sesion[s].paso = "crear_detallar"
           /\ sesion'[s].paso \in Vigilados
  <2>1. sesion[s].nota \in Notas
    BY <1>4, EnMano DEF Apta, PasosConNota, PasosNota
  <2>2. sesion'[s].nota = sesion[s].nota /\ Vale(nc[sesion[s].nota].monto)
    BY <1>4 DEF Continua, SesionVale
  <2>3. nc[sesion[s].nota].monto \in Nat
    BY <2>1, NotaMontoTipo
  <2>4. nc'[sesion'[s].nota].monto > 0 /\ factura'.saldo <= nc'[sesion'[s].nota].monto
    BY <2>1, <2>2, <2>3, ValeSigue
  <2> QED
    BY <1>4, <2>4 DEF SesionVale, Vale, Pagando, Creando
<1> QED
  BY <1>1, <1>2, <1>3, <1>4 DEF Continua, Vigilados

LEMMA UnicaSigue ==
  ASSUME TipoReal, TipoReal', SaldoBaja, Unica,
         \A n \in Notas : nc'[n].impactos = nc[n].impactos
  PROVE  Unica'
<1>1. factura.saldo \in Nat /\ factura'.saldo \in Nat
  BY SaldoTipo DEF TipoReal
<1>2. factura.saldo = 0 => factura'.saldo = 0
  BY <1>1 DEF SaldoBaja
<1> QED
  BY <1>2 DEF Unica

LEMMA PasoQuieto ==
  ASSUME TipoReal, TipoReal', InvImpacto, ~ pisado, SaldoBaja,
         \A n \in Notas : NotaQuieta(n), \A s \in Sesiones : Continua(s)
  PROVE  InvImpacto'
<1>1. \A n \in Notas : NotaVale(n)'
  BY NotaValeSigue DEF InvImpacto
<1>2. \A s \in Sesiones : SesionVale(s)'
  BY SesionValeSigue DEF InvImpacto, NotaQuieta
<1>3. Unica'
  BY UnicaSigue DEF InvImpacto, NotaQuieta
<1> QED
  BY <1>1, <1>2, <1>3 DEF InvImpacto

LEMMA PasoEnFactura ==
  ASSUME TipoReal, TipoReal', InvImpacto, ~ pisado, factura' = factura,
         \A n \in Notas : NotaQuieta(n), \A s \in Sesiones : Continua(s)
  PROVE  InvImpacto'
<1>1. SaldoBaja
  <2>1. factura.saldo \in Nat
    BY SaldoTipo DEF TipoReal
  <2> QED
    BY <2>1 DEF SaldoBaja
<1> QED
  BY <1>1, PasoQuieto

-----------------------------------------------------------------------------
(* The steps of a request.                                                 *)
LEMMA PasoDePasar ==
  ASSUME TipoReal, NEW s \in Sesiones, NEW p
  PROVE  Pasar(s, p).paso = p
<1>1. sesion[s] \in Registro /\ Libre \in Registro /\ Libre.paso = "libre"
  BY EnMano, LibreTipo DEF Peticion, Libre
<1>2. CASE p = "libre"
  BY <1>1, <1>2 DEF Pasar
<1>3. CASE p \in {"reponer", "consulta_erp"}
  BY <1>1, <1>3 DEF Pasar, Registro
<1>4. CASE p \in {"xml_erp", "enviar_erp", "consulta_rpc"}
  BY <1>1, <1>4 DEF Pasar, Registro
<1>5. CASE p \notin {"libre", "reponer", "consulta_erp", "xml_erp", "enviar_erp",
                     "consulta_rpc"}
  <2>1. Pasar(s, p) = [sesion[s] EXCEPT !.paso = p]
    BY <1>5 DEF Pasar
  <2> QED
    BY <1>1, <2>1 DEF Registro
<1> QED
  BY <1>2, <1>3, <1>4, <1>5

LEMMA MismaContinua ==
  ASSUME TipoReal, NEW t \in Sesiones, sesion'[t] = sesion[t], factura' = factura
  PROVE  Continua(t)
BY DEF Continua, Vigilados

LEMMA MoverContinua ==
  ASSUME TipoReal, NEW s \in Sesiones, NEW r, r.paso \notin Vigilados,
         sesion' = [sesion EXCEPT ![s] = r], factura' = factura
  PROVE  \A t \in Sesiones : Continua(t)
<1> SUFFICES ASSUME NEW t \in Sesiones PROVE Continua(t)
  OBVIOUS
<1>1. CASE t = s
  <2>1. sesion'[t] = r
    BY <1>1 DEF TipoReal
  <2> QED
    BY <2>1 DEF Continua
<1>2. CASE t # s
  <2>1. sesion'[t] = sesion[t]
    BY <1>2 DEF TipoReal
  <2> QED
    BY <2>1, MismaContinua
<1> QED
  BY <1>1, <1>2

LEMMA IrContinua ==
  ASSUME TipoReal, NEW s \in Sesiones, NEW p, p \notin Vigilados, Ir(s, p), factura' = factura
  PROVE  \A t \in Sesiones : Continua(t)
<1>1. Pasar(s, p).paso \notin Vigilados
  BY PasoDePasar
<1>2. sesion' = [sesion EXCEPT ![s] = Pasar(s, p)]
  BY DEF Ir
<1> QED
  BY <1>1, <1>2, MoverContinua

LEMMA SeguirContinua ==
  ASSUME TipoReal, NEW s \in Sesiones, NEW ps, \A p \in ps : p \notin Vigilados,
         Seguir(s, ps), factura' = factura
  PROVE  \A t \in Sesiones : Continua(t)
BY IrContinua DEF Seguir

(* From one watched step to the next of the same request.                  *)
LEMMA AvanzarContinua ==
  ASSUME TipoReal, NEW s \in Sesiones, NEW p, Ir(s, p), factura' = factura,
         \/ sesion[s].paso \in Pagando /\ p = "pago_aplicar"
         \/ sesion[s].paso \in Creando /\ p = "crear_insertar"
  PROVE  \A t \in Sesiones : Continua(t)
<1> SUFFICES ASSUME NEW t \in Sesiones PROVE Continua(t)
  OBVIOUS
<1>1. CASE t = s
  <2>1. PICK r : r = [sesion[s] EXCEPT !.paso = p]
    OBVIOUS
  <2>2. sesion'[t] = r
    BY <1>1, <2>1 DEF Ir, Pasar, TipoReal
  <2>3. /\ r.paso = p /\ r.monto = sesion[s].monto /\ r.nota = sesion[s].nota
        /\ r.leida = sesion[s].leida /\ r.vieja = sesion[s].vieja
    BY <2>1, EnMano DEF Registro
  <2>4. CASE sesion[s].paso \in Pagando /\ p = "pago_aplicar"
    BY <1>1, <2>2, <2>3, <2>4 DEF Continua, Pagando
  <2>5. CASE sesion[s].paso \in Creando /\ p = "crear_insertar"
    BY <1>1, <2>2, <2>3, <2>5 DEF Continua, Pagando, Creando
  <2> QED
    BY <2>4, <2>5
<1>2. CASE t # s
  <2>1. sesion'[t] = sesion[t]
    BY <1>2 DEF Ir, TipoReal
  <2> QED
    BY <2>1, MismaContinua
<1> QED
  BY <1>1, <1>2

(* Who read the invoice before it was written has an old copy.             *)
LEMMA EnvejecerContinua ==
  ASSUME TipoReal, NEW s \in Sesiones, Envejecer(s, "libre")
  PROVE  \A t \in Sesiones : Continua(t)
<1> SUFFICES ASSUME NEW t \in Sesiones PROVE Continua(t)
  OBVIOUS
<1>1. CASE t = s
  <2>1. sesion'[t] = Pasar(s, "libre")
    BY <1>1 DEF Envejecer
  <2>2. sesion'[t].paso = "libre"
    BY <2>1, PasoDePasar
  <2> QED
    BY <2>2 DEF Continua, Vigilados, Pagando, Creando
<1>2. CASE t # s /\ sesion[t].paso \in PasosFactura
  <2>1. PICK r : r = [sesion[t] EXCEPT !.vieja = TRUE]
    OBVIOUS
  <2>2. sesion'[t] = r
    BY <1>2, <2>1 DEF Envejecer
  <2>3. /\ r.paso = sesion[t].paso /\ r.monto = sesion[t].monto /\ r.nota = sesion[t].nota
        /\ r.leida = sesion[t].leida /\ r.vieja = TRUE
    BY <2>1, EnMano DEF Registro
  <2> QED
    BY <2>2, <2>3 DEF Continua, Vigilados
<1>3. CASE t # s /\ sesion[t].paso \notin PasosFactura
  <2>1. sesion'[t] = sesion[t]
    BY <1>3 DEF Envejecer
  <2> QED
    BY <1>3, <2>1 DEF Continua, Vigilados, Pagando, PasosFactura
<1> QED
  BY <1>1, <1>2, <1>3

-----------------------------------------------------------------------------
(* The writes of a note.                                                   *)
LEMMA MismasNotas ==
  ASSUME nc' = nc
  PROVE  \A n \in Notas : NotaQuieta(n)
BY DEF NotaQuieta

LEMMA ErpQuieto ==
  ASSUME TipoReal, NEW n \in Notas, NEW e, nc' = [nc EXCEPT ![n].erp = e]
  PROVE  \A m \in Notas : NotaQuieta(m)
BY DEF TipoReal, NotaReal, NotaQuieta

LEMMA NeQuieto ==
  ASSUME TipoReal, NEW n \in Notas, NEW e, nc[n].ne # "nada",
         nc' = [nc EXCEPT ![n].ne = e]
  PROVE  \A m \in Notas : NotaQuieta(m)
BY DEF TipoReal, NotaReal, NotaQuieta

LEMMA EnvioQuieto ==
  ASSUME TipoReal, NEW n \in Notas, NEW e, NEW l, nc[n].ne # "nada",
         nc' = [nc EXCEPT ![n].ne = e, ![n].prot = l]
  PROVE  \A m \in Notas : NotaQuieta(m)
BY DEF TipoReal, NotaReal, NotaQuieta

LEMMA BorradaQuieta ==
  ASSUME TipoReal, NEW n \in Notas,
         nc' = [nc EXCEPT ![n].erp = "borrada", ![n].ne = "nada"]
  PROVE  \A m \in Notas : NotaQuieta(m)
BY DEF TipoReal, NotaReal, NotaQuieta

LEMMA NotaDe ==
  ASSUME TipoReal, NEW s \in Sesiones, sesion[s].paso \in PasosConNota
  PROVE  N(s) \in Notas
BY EnMano DEF Apta, N

-----------------------------------------------------------------------------
(* The payments.                                                           *)
LEMMA ImpactoLeerPago ==
  ASSUME TipoReal, TipoReal', InvImpacto, ~ pisado, NEW s \in Sesiones,
         NEW m \in Importes, LeerPago(s, m)
  PROVE  InvImpacto'
<1> DEFINE r == [Libre EXCEPT !.paso = "pago_insertar", !.leida = factura, !.monto = m]
<1>1. /\ r.paso = "pago_insertar" /\ r.leida = factura
  BY DEF Libre
<1>2. sesion' = [sesion EXCEPT ![s] = r] /\ factura' = factura /\ nc' = nc
  BY DEF LeerPago, Empezar
<1> HIDE DEF r
<1>3. SaldoBaja
  <2>1. factura.saldo \in Nat
    BY SaldoTipo DEF TipoReal
  <2> QED
    BY <1>2, <2>1 DEF SaldoBaja
<1>4. \A n \in Notas : NotaQuieta(n)
  BY <1>2, MismasNotas
<1>5. ASSUME NEW t \in Sesiones PROVE SesionVale(t)'
  <2>1. CASE t = s
    <3>1. sesion'[t] = r
      BY <1>2, <2>1 DEF TipoReal
    <3> QED
      BY <1>1, <1>2, <3>1 DEF SesionVale, Creando
  <2>2. CASE t # s
    <3>1. sesion'[t] = sesion[t]
      BY <1>2, <2>2 DEF TipoReal
    <3> QED
      BY <1>2, <1>3, <3>1, MismaContinua, SesionValeSigue DEF InvImpacto
  <2> QED
    BY <2>1, <2>2
<1>6. \A n \in Notas : NotaVale(n)'
  BY <1>3, <1>4, NotaValeSigue DEF InvImpacto
<1>7. Unica'
  BY <1>2, <1>3, UnicaSigue DEF InvImpacto
<1> QED
  BY <1>5, <1>6, <1>7 DEF InvImpacto

LEMMA ImpactoAplicarPago ==
  ASSUME TipoReal, TipoReal', InvImpacto, ~ pisado, NEW s \in Sesiones, AplicarPago(s)
  PROVE  InvImpacto'
<1> SUFFICES ASSUME ~ pisado' PROVE InvImpacto'
  BY DEF InvImpacto
<1>1. /\ nc' = nc /\ Envejecer(s, "libre") /\ ~ sesion[s].vieja
      /\ factura' = ConPago(sesion[s].leida, sesion[s].monto)
  BY DEF AplicarPago, EscribirFactura
<1>2. sesion[s].leida = factura
  BY <1>1 DEF InvImpacto, SesionVale, AplicarPago, En, Pagando
<1>3. factura.saldo \in Nat /\ sesion[s].monto \in Nat
  BY SaldoTipo, EnMano DEF TipoReal, Registro
<1>4. SaldoBaja
  BY <1>1, <1>2, <1>3 DEF SaldoBaja, ConPago
<1> QED
  BY <1>1, <1>4, MismasNotas, EnvejecerContinua, PasoQuieto

LEMMA ImpactoPago ==
  ASSUME TipoReal, TipoReal', InvImpacto, ~ pisado, NEW s \in Sesiones, Pago(s)
  PROVE  InvImpacto'
<1>1. CASE InsertarPago(s)
  <2>1. \A t \in Sesiones : Continua(t)
    BY <1>1, AvanzarContinua DEF InsertarPago, En, Pagando
  <2> QED
    BY <1>1, <2>1, MismasNotas, PasoEnFactura DEF InsertarPago
<1>2. CASE NoAplicarPago(s)
  <2>1. \A t \in Sesiones : Continua(t)
    BY <1>2, IrContinua DEF NoAplicarPago, Vigilados, Pagando, Creando
  <2> QED
    BY <1>2, <2>1, MismasNotas, PasoEnFactura DEF NoAplicarPago
<1>3. CASE BorrarPago(s)
  <2>1. \A t \in Sesiones : Continua(t)
    BY <1>3, IrContinua DEF BorrarPago, Vigilados, Pagando, Creando
  <2> QED
    BY <1>3, <2>1, MismasNotas, PasoEnFactura DEF BorrarPago
<1> QED
  BY <1>1, <1>2, <1>3, ImpactoLeerPago, ImpactoAplicarPago DEF Pago

-----------------------------------------------------------------------------
(* A request that begins unwatched, and what voids the invoice.            *)
LEMMA ImpactoEmpezar ==
  ASSUME TipoReal, TipoReal', InvImpacto, ~ pisado, NEW s \in Sesiones, NEW r,
         r.paso \notin Vigilados, Empezar(s, r)
  PROVE  InvImpacto'
<1>1. \A t \in Sesiones : Continua(t)
  BY MoverContinua DEF Empezar
<1> QED
  BY <1>1, MismasNotas, PasoEnFactura DEF Empezar

LEMMA ImpactoAnularFactura ==
  ASSUME TipoReal, TipoReal', InvImpacto, ~ pisado, NEW s \in Sesiones,
         EscribirFactura(s, [estado |-> "Anulado", saldo |-> 0], "libre"), nc' = nc
  PROVE  InvImpacto'
<1>1. SaldoBaja
  <2>1. factura.saldo \in Nat /\ factura'.saldo = 0
    BY SaldoTipo DEF TipoReal, EscribirFactura
  <2> QED
    BY <2>1 DEF SaldoBaja
<1> QED
  BY <1>1, MismasNotas, EnvejecerContinua, PasoQuieto DEF EscribirFactura

LEMMA ImpactoAnular ==
  ASSUME TipoReal, TipoReal', InvImpacto, ~ pisado, NEW s \in Sesiones, Anular(s)
  PROVE  InvImpacto'
<1>v. \A p \in {"libre", "baja_anular", "cancelar_fila", "cancelar_factura",
                "cancelar_deshacer"} : p \notin Vigilados
  BY DEF Vigilados, Pagando, Creando
<1>1. CASE LeerBaja(s) \/ LeerCancelar(s)
  <2>1. PICK p \in {"baja_anular", "cancelar_fila"} : Empezar(s, [Libre EXCEPT !.paso = p])
    BY <1>1 DEF LeerBaja, LeerCancelar
  <2>2. [Libre EXCEPT !.paso = p].paso = p
    BY DEF Libre
  <2> QED
    BY <1>v, <2>1, <2>2, ImpactoEmpezar
<1>2. CASE AnularPorBaja(s)
  BY <1>2, ImpactoAnularFactura DEF AnularPorBaja
<1>3. CASE CancelarFila(s)
  <2>1. \A t \in Sesiones : Continua(t)
    BY <1>v, <1>3, SeguirContinua DEF CancelarFila
  <2> QED
    BY <1>3, <2>1, MismasNotas, PasoEnFactura DEF CancelarFila
<1>4. CASE AnularPorCancelar(s)
  <2>1. CASE EscribirFactura(s, [estado |-> "Anulado", saldo |-> 0], "libre")
    BY <1>4, <2>1, ImpactoAnularFactura DEF AnularPorCancelar
  <2>2. CASE Ir(s, "cancelar_deshacer") /\ UNCHANGED <<factura, pisado>>
    <3>1. \A t \in Sesiones : Continua(t)
      BY <1>v, <2>2, IrContinua
    <3> QED
      BY <1>4, <2>2, <3>1, MismasNotas, PasoEnFactura DEF AnularPorCancelar
  <2> QED
    BY <1>4, <2>1, <2>2 DEF AnularPorCancelar
<1>5. CASE DeshacerCancelar(s)
  <2>1. \A t \in Sesiones : Continua(t)
    BY <1>v, <1>5, IrContinua DEF DeshacerCancelar
  <2> QED
    BY <1>5, <2>1, MismasNotas, PasoEnFactura DEF DeshacerCancelar
<1> QED
  BY <1>1, <1>2, <1>3, <1>4, <1>5 DEF Anular

-----------------------------------------------------------------------------
(* The draft of a note: it is made for the balance.                        *)
LEMMA SaldoIgual ==
  ASSUME TipoReal, factura' = factura
  PROVE  SaldoBaja /\ (\A m \in Nat : Vale(m)' <=> Vale(m))
<1>1. factura.saldo \in Nat
  BY SaldoTipo DEF TipoReal
<1> QED
  BY <1>1 DEF SaldoBaja, Vale

LEMMA ImpactoLeerCrear ==
  ASSUME TipoReal, TipoReal', InvImpacto, ~ pisado, NEW s \in Sesiones, LeerCrear(s)
  PROVE  InvImpacto'
<1> DEFINE r == [Libre EXCEPT !.paso = "crear_validar", !.monto = factura.saldo]
<1>1. r.paso = "crear_validar" /\ r.monto = factura.saldo
  BY DEF Libre
<1>2. /\ sesion' = [sesion EXCEPT ![s] = r] /\ factura' = factura /\ nc' = nc
      /\ factura.saldo > 0
  BY DEF LeerCrear, Empezar
<1> HIDE DEF r
<1>3. SaldoBaja /\ factura.saldo \in Nat
  BY <1>2, SaldoIgual, SaldoTipo DEF TipoReal
<1>4. \A n \in Notas : NotaQuieta(n)
  BY <1>2, MismasNotas
<1>5. ASSUME NEW t \in Sesiones PROVE SesionVale(t)'
  <2>1. CASE t = s
    <3>1. sesion'[t] = r
      BY <1>2, <2>1 DEF TipoReal
    <3>2. r.monto > 0 /\ factura'.saldo <= r.monto
      BY <1>1, <1>2, <1>3
    <3> QED
      BY <1>1, <3>1, <3>2 DEF SesionVale, Vale, Creando, Pagando
  <2>2. CASE t # s
    <3>1. sesion'[t] = sesion[t]
      BY <1>2, <2>2 DEF TipoReal
    <3> QED
      BY <1>2, <1>3, <3>1, MismaContinua, SesionValeSigue DEF InvImpacto
  <2> QED
    BY <2>1, <2>2
<1>6. \A n \in Notas : NotaVale(n)'
  BY <1>3, <1>4, NotaValeSigue DEF InvImpacto
<1>7. Unica'
  BY <1>2, <1>3, UnicaSigue DEF InvImpacto
<1> QED
  BY <1>5, <1>6, <1>7 DEF InvImpacto

LEMMA ImpactoInsertarNc ==
  ASSUME TipoReal, TipoReal', InvImpacto, ~ pisado, NEW s \in Sesiones,
         NEW n \in Notas, InsertarNc(s, n)
  PROVE  InvImpacto'
<1> DEFINE r == [Libre EXCEPT !.paso = "crear_detallar", !.nota = n]
<1>1. r.paso = "crear_detallar" /\ r.nota = n
  BY DEF Libre
<1>2. sesion' = [sesion EXCEPT ![s] = r] /\ factura' = factura
  BY DEF InsertarNc
<1> HIDE DEF r
<1>3. /\ nc'[n].monto = sesion[s].monto
      /\ \A m \in Notas : nc'[m].impactos = nc[m].impactos /\ nc'[m].ne = nc[m].ne
      /\ \A m \in Notas \ {n} : nc'[m].monto = nc[m].monto
  BY DEF InsertarNc, TipoReal, NotaReal
<1>4. SaldoBaja /\ (\A m \in Nat : Vale(m)' <=> Vale(m))
  BY <1>2, SaldoIgual
<1>5. Vale(sesion[s].monto) /\ sesion[s].monto \in Nat
  BY EnMano DEF InvImpacto, SesionVale, InsertarNc, En, Creando, Registro
<1>6. ASSUME NEW m \in Notas, Vale(nc[m].monto) \/ m = n PROVE Vale(nc[m].monto)'
  <2>1. CASE m = n
    BY <1>2, <1>3, <1>5, <2>1 DEF Vale
  <2>2. CASE m # n
    BY <1>2, <1>3, <1>6, <2>2 DEF Vale
  <2> QED
    BY <2>1, <2>2
<1>7. \A m \in Notas : NotaVale(m)'
  BY <1>3, <1>6 DEF InvImpacto, NotaVale
<1>8. ASSUME NEW t \in Sesiones PROVE SesionVale(t)'
  <2>1. CASE t = s
    <3>1. sesion'[t] = r
      BY <1>2, <2>1 DEF TipoReal
    <3>2. Vale(nc[n].monto)'
      BY <1>6
    <3> QED
      BY <1>1, <3>1, <3>2 DEF SesionVale, Vale, Creando, Pagando
  <2>2. CASE t # s
    <3>1. sesion'[t] = sesion[t]
      BY <1>2, <2>2 DEF TipoReal
    <3>2. sesion[t].paso = "crear_detallar" => sesion[t].nota \in Notas
      BY EnMano DEF Apta, PasosConNota, PasosNota
    <3>3. SesionVale(t)
      BY DEF InvImpacto
    <3>4. sesion[t].paso = "crear_detallar" => Vale(nc[sesion[t].nota].monto)'
      BY <1>6, <3>1, <3>2, <3>3 DEF SesionVale, Vale
    <3>5. sesion[t].paso \in Creando => Vale(sesion[t].monto)'
      BY <1>2, <3>1, <3>3 DEF SesionVale, Vale
    <3>6. sesion[t].paso \in Pagando /\ ~ sesion[t].vieja => sesion[t].leida = factura
      BY <3>3 DEF SesionVale
    <3> QED
      BY <1>2, <3>1, <3>4, <3>5, <3>6 DEF SesionVale, Vale
  <2> QED
    BY <2>1, <2>2
<1>9. Unica'
  BY <1>3, <1>4, UnicaSigue DEF InvImpacto
<1> QED
  BY <1>7, <1>8, <1>9 DEF InvImpacto

LEMMA ImpactoDetallarNc ==
  ASSUME TipoReal, TipoReal', InvImpacto, ~ pisado, NEW s \in Sesiones, DetallarNc(s)
  PROVE  InvImpacto'
<1>1. factura' = factura
  BY DEF DetallarNc
<1>2. \A t \in Sesiones : Continua(t)
  BY <1>1, IrContinua, SeguirContinua DEF DetallarNc, Vigilados, Pagando, Creando
<1>3. CASE nc' = nc
  BY <1>1, <1>2, <1>3, MismasNotas, PasoEnFactura
<1>4. CASE nc' = [nc EXCEPT ![N(s)].ne = "sin_envio"]
  <2>1. N(s) \in Notas /\ Vale(nc[N(s)].monto)
    BY EnMano DEF DetallarNc, En, Apta, PasosConNota, PasosNota, N, InvImpacto, SesionVale
  <2>2. /\ \A m \in Notas : nc'[m].monto = nc[m].monto /\ nc'[m].impactos = nc[m].impactos
        /\ \A m \in Notas \ {N(s)} : nc'[m].ne = nc[m].ne
    BY <1>4, <2>1 DEF TipoReal, NotaReal
  <2>3. SaldoBaja
    BY <1>1, SaldoIgual
  <2>4. \A m \in Notas : NotaVale(m)'
    BY <1>1, <2>1, <2>2 DEF InvImpacto, NotaVale, Vale
  <2>5. \A t \in Sesiones : SesionVale(t)'
    BY <1>2, <2>2, <2>3, SesionValeSigue DEF InvImpacto
  <2>6. Unica'
    BY <2>2, <2>3, UnicaSigue DEF InvImpacto
  <2> QED
    BY <2>4, <2>5, <2>6 DEF InvImpacto
<1> QED
  BY <1>3, <1>4 DEF DetallarNc

LEMMA ImpactoCrear ==
  ASSUME TipoReal, TipoReal', InvImpacto, ~ pisado, NEW s \in Sesiones, Crear(s)
  PROVE  InvImpacto'
<1>1. CASE ValidarCrear(s)
  <2>1. \A t \in Sesiones : Continua(t)
    BY <1>1, AvanzarContinua DEF ValidarCrear, En, Creando
  <2> QED
    BY <1>1, <2>1, MismasNotas, PasoEnFactura DEF ValidarCrear
<1>2. CASE BorrarNc(s)
  <2>1. \A t \in Sesiones : Continua(t)
    BY <1>2, IrContinua DEF BorrarNc, Vigilados, Pagando, Creando
  <2>2. N(s) \in Notas
    BY <1>2, NotaDe DEF BorrarNc, En, PasosConNota, PasosNota
  <2>3. \A m \in Notas : NotaQuieta(m)
    BY <1>2, <2>2, MismasNotas, BorradaQuieta DEF BorrarNc
  <2> QED
    BY <1>2, <2>1, <2>3, PasoEnFactura DEF BorrarNc
<1> QED
  BY <1>1, <1>2, ImpactoLeerCrear, ImpactoDetallarNc, ImpactoInsertarNc DEF Crear

-----------------------------------------------------------------------------
(* An ordinary step: it neither begins nor ends anything the invariants    *)
(* watch, in the invoice, the payments, the notes or the other requests.   *)
PorAplicar == {"pago_aplicar", "pago_borrar"}

Atentos == Vigilados \cup {"pago_borrar", "baja_anular", "cancelar_fila", "cancelar_factura"}

SoloEsta(s) ==
    /\ sesion'[s].paso \notin Atentos
    /\ \A t \in Sesiones \ {s} : sesion'[t] = sesion[t]

Ordinario(s) ==
    /\ SoloEsta(s)
    /\ sesion[s].paso \notin PorAplicar
    /\ \A n \in Notas : NotaQuieta(n)
    /\ UNCHANGED <<factura, plazo, pagos, acreditado, pisado, huerfano>>

LEMMA MoverSolo ==
  ASSUME TipoReal, NEW s \in Sesiones, NEW r, r.paso \notin Atentos,
         sesion' = [sesion EXCEPT ![s] = r]
  PROVE  SoloEsta(s)
<1>1. sesion'[s] = r /\ \A t \in Sesiones \ {s} : sesion'[t] = sesion[t]
  BY DEF TipoReal
<1> QED
  BY <1>1 DEF SoloEsta

LEMMA IrSolo ==
  ASSUME TipoReal, NEW s \in Sesiones, NEW p, p \notin Atentos, Ir(s, p)
  PROVE  SoloEsta(s)
<1>1. Pasar(s, p).paso \notin Atentos
  BY PasoDePasar
<1> QED
  BY <1>1, MoverSolo DEF Ir

LEMMA SeguirSolo ==
  ASSUME TipoReal, NEW s \in Sesiones, NEW ps, \A p \in ps : p \notin Atentos, Seguir(s, ps)
  PROVE  SoloEsta(s)
BY IrSolo DEF Seguir

LEMMA ImpactoOrdinario ==
  ASSUME TipoReal, TipoReal', InvImpacto, ~ pisado, NEW s \in Sesiones, Ordinario(s)
  PROVE  InvImpacto'
<1>1. ASSUME NEW t \in Sesiones PROVE Continua(t)
  <2>1. CASE t = s
    BY <2>1 DEF Ordinario, SoloEsta, Continua, Atentos
  <2>2. CASE t # s
    BY <2>2, MismaContinua DEF Ordinario, SoloEsta
  <2> QED
    BY <2>1, <2>2
<1> QED
  BY <1>1, PasoEnFactura DEF Ordinario

-----------------------------------------------------------------------------
(* The document of a note.                                                 *)
LEMMA OrdinarioLeerNota ==
  ASSUME TipoReal, NEW s \in Sesiones, NEW n, NEW p,
         p \notin Atentos, LeerNota(s, n, p)
  PROVE  Ordinario(s)
<1> DEFINE r == [Libre EXCEPT !.paso = p, !.nota = n, !.ne = nc[n].ne,
                   !.prot = IF p \in {"enviar_soap", "consulta_soap"} THEN nc[n].prot ELSE 0]
<1>1. r.paso = p
  BY DEF Libre
<1>2. Empezar(s, r)
  BY DEF LeerNota
<1> HIDE DEF r
<1> QED
  BY <1>1, <1>2, MoverSolo, MismasNotas DEF Empezar, En, PorAplicar, Ordinario

LEMMA OrdinarioGuardarNe ==
  ASSUME TipoReal, NEW s \in Sesiones, NEW e, NEW p,
         sesion[s].paso \in PasosConNota, p \notin Atentos, GuardarNe(s, e, p)
  PROVE  Ordinario(s)
<1>1. SoloEsta(s)
  BY SeguirSolo DEF GuardarNe, Atentos, Vigilados, Pagando, Creando
<1>2. \A m \in Notas : NotaQuieta(m)
  BY NotaDe, NeQuieto DEF GuardarNe
<1> QED
  BY <1>1, <1>2 DEF GuardarNe, PasosConNota, PasosNota, PorAplicar, Ordinario

LEMMA OrdinarioMarcarErp ==
  ASSUME TipoReal, NEW s \in Sesiones, NEW d, NEW a, NEW ps,
         sesion[s].paso \in PasosConNota, \A p \in ps : p \notin Atentos,
         MarcarErp(s, d, a, ps)
  PROVE  Ordinario(s)
<1>1. SoloEsta(s)
  BY SeguirSolo DEF MarcarErp
<1>2. PICK e : nc' = nc \/ nc' = [nc EXCEPT ![N(s)].erp = e]
  <2>1. N(s) \in Notas
    BY NotaDe
  <2>2. [nc EXCEPT ![N(s)].erp = IF @ \in d THEN a ELSE @] =
        [nc EXCEPT ![N(s)].erp = IF nc[N(s)].erp \in d THEN a ELSE nc[N(s)].erp]
    BY <2>1 DEF TipoReal, NotaReal
  <2> QED
    BY <2>2 DEF MarcarErp
<1>3. \A m \in Notas : NotaQuieta(m)
  BY <1>2, NotaDe, MismasNotas, ErpQuieto
<1> QED
  BY <1>1, <1>3 DEF MarcarErp, PasosConNota, PasosNota, PorAplicar, Ordinario

LEMMA OrdinarioDocumento ==
  ASSUME TipoReal, NEW s \in Sesiones, Documento(s)
  PROVE  Ordinario(s)
<1>v. \A p \in {"libre", "reponer"} \cup (PasosNota \ (Creando \cup {"crear_detallar"})) :
        p \notin Atentos
  BY DEF Atentos, Vigilados, Pagando, Creando, PasosNota
<1>p. {"xml_fila", "xml_erp", "firmar_fila", "enviar_soap", "enviar_fila", "enviar_erp",
       "enviar_reponer", "reponer"} \subseteq
         PasosConNota \cap (PasosNota \ (Creando \cup {"crear_detallar"}))
  BY DEF PasosConNota, PasosNota, Creando
<1>1. ASSUME NEW n \in Notas, LeerXmlNc(s, n) \/ LeerFirmarNc(s, n) \/ LeerEnviarNc(s, n)
      PROVE  Ordinario(s)
  <2>1. PICK p \in {"xml_fila", "firmar_fila", "enviar_soap"} : LeerNota(s, n, p)
    BY <1>1 DEF LeerXmlNc, LeerFirmarNc, LeerEnviarNc, LeerConGate
  <2> QED
    BY <1>v, <1>p, <2>1, OrdinarioLeerNota
<1>2. CASE GuardarXmlNc(s)
  BY <1>v, <1>p, <1>2, OrdinarioGuardarNe DEF GuardarXmlNc, En
<1>3. CASE PasarPendiente(s)
  BY <1>v, <1>p, <1>3, OrdinarioMarcarErp DEF PasarPendiente, En
<1>4. CASE GuardarFirmaNc(s)
  BY <1>v, <1>p, <1>4, OrdinarioGuardarNe DEF GuardarFirmaNc, En
<1>5. CASE ReponerNe(s)
  <2>1. N(s) \in Notas
    BY <1>p, <1>5, NotaDe DEF ReponerNe, En
  <2>2. \A m \in Notas : NotaQuieta(m)
    BY <1>5, <2>1, MismasNotas, NeQuieto DEF ReponerNe
  <2>3. SoloEsta(s)
    BY <1>v, <1>5, IrSolo DEF ReponerNe
  <2> QED
    BY <1>5, <2>2, <2>3 DEF ReponerNe, En, PorAplicar, Ordinario
<1>6. CASE RecibirNc(s)
  <2>1. SoloEsta(s)
    <3>1. CASE Ir(s, "libre")
      BY <1>v, <1>6, <3>1, IrSolo DEF RecibirNc
    <3>2. CASE ~ Ir(s, "libre")
      <4>1. PICK r : r = [sesion[s] EXCEPT !.paso = "enviar_fila", !.resp = "encolado",
                                           !.monto = Len(lotes) + 1]
        OBVIOUS
      <4>2. sesion' = [sesion EXCEPT ![s] = r]
        BY <1>6, <3>2, <4>1 DEF RecibirNc, TipoReal
      <4>3. r.paso = "enviar_fila"
        BY <4>1, EnMano DEF Registro
      <4> QED
        BY <1>v, <1>p, <1>6, <4>2, <4>3, MoverSolo DEF RecibirNc
    <3> QED
      BY <3>1, <3>2
  <2> QED
    BY <1>6, <2>1, MismasNotas DEF RecibirNc, En, PorAplicar, Ordinario
<1>7. CASE NoRecibirNc(s)
  <2>1. SoloEsta(s)
    BY <1>v, <1>p, <1>7, IrSolo DEF NoRecibirNc
  <2> QED
    BY <1>7, <2>1, MismasNotas DEF NoRecibirNc, En, PorAplicar, Ordinario
<1>8. CASE GuardarEnvioNc(s)
  <2>1. PICK e : nc' = [nc EXCEPT ![N(s)].ne = e, ![N(s)].prot = sesion[s].monto]
    BY <1>8 DEF GuardarEnvioNc
  <2>2. N(s) \in Notas /\ nc[N(s)].ne # "nada"
    BY <1>p, <1>8, NotaDe DEF GuardarEnvioNc, En
  <2>3. \A m \in Notas : NotaQuieta(m)
    BY <2>1, <2>2, EnvioQuieto
  <2>4. PICK p \in {"enviar_reponer", "libre", "enviar_erp"} : Ir(s, p)
    BY <1>8 DEF GuardarEnvioNc, Seguir
  <2>5. SoloEsta(s)
    BY <1>v, <1>p, <1>8, <2>4, IrSolo DEF GuardarEnvioNc
  <2> QED
    BY <1>8, <2>3, <2>5 DEF GuardarEnvioNc, En, PorAplicar, Ordinario
<1>9. CASE ReponerEnvio(s)
  <2>1. N(s) \in Notas
    BY <1>p, <1>9, NotaDe DEF ReponerEnvio, En
  <2>2. \A m \in Notas : NotaQuieta(m)
    BY <1>9, <2>1, MismasNotas, EnvioQuieto DEF ReponerEnvio
  <2>3. SoloEsta(s)
    BY <1>v, <1>9, IrSolo DEF ReponerEnvio
  <2> QED
    BY <1>9, <2>2, <2>3 DEF ReponerEnvio, En, PorAplicar, Ordinario
<1>10. CASE MarcarError(s)
  BY <1>v, <1>p, <1>10, OrdinarioMarcarErp DEF MarcarError, En
<1> QED
  BY <1>1, <1>2, <1>3, <1>4, <1>5, <1>6, <1>7, <1>8, <1>9, <1>10 DEF Documento

LEMMA OrdinarioConsulta ==
  ASSUME TipoReal, NEW s \in Sesiones, Consulta(s), ~ AplicarAprobacion(s)
  PROVE  Ordinario(s)
<1>v. \A p \in {"libre", "reponer", "consulta_soap", "consulta_rpc", "consulta_rechazo",
                "consulta_erp", "consulta_fila"} : p \notin Atentos
  BY DEF Atentos, Vigilados, Pagando, Creando
<1>p. {"consulta_soap", "consulta_rechazo", "consulta_erp", "consulta_fila"}
         \subseteq PasosConNota
  BY DEF PasosConNota, PasosNota
<1>1. ASSUME NEW n \in Notas, LeerConsultaNc(s, n)
      PROVE  Ordinario(s)
  BY <1>v, <1>1, OrdinarioLeerNota DEF LeerConsultaNc
<1>2. CASE ConsultarNc(s)
  <2>1. SoloEsta(s)
    <3>1. CASE Ir(s, "libre")
      BY <1>v, <1>2, <3>1, IrSolo DEF ConsultarNc
    <3>2. CASE ~ Ir(s, "libre")
      <4>1. PICK q \in {sesion[s].ne, InferirNc(sesion[s].ne, lotes[sesion[s].prot].res)},
                 r \in Registro :
              sesion' = [sesion EXCEPT ![s] = r] /\ r.paso = Destino(sesion[s].ne, q)
        BY <1>2, <3>2, ConsultarDestino
      <4>2. r.paso \notin Atentos
        BY <1>v, <4>1 DEF Destino
      <4> QED
        BY <1>2, <4>1, <4>2, MoverSolo DEF ConsultarNc
    <3> QED
      BY <3>1, <3>2
  <2> QED
    BY <1>2, <2>1, MismasNotas DEF ConsultarNc, En, PorAplicar, Ordinario
<1>4. CASE GuardarRechazo(s)
  BY <1>v, <1>p, <1>4, OrdinarioGuardarNe DEF GuardarRechazo, En
<1>5. CASE MarcarRechazada(s)
  BY <1>v, <1>p, <1>5, OrdinarioMarcarErp DEF MarcarRechazada, En
<1>6. CASE GuardarConsultaNc(s)
  BY <1>v, <1>p, <1>6, OrdinarioGuardarNe DEF GuardarConsultaNc, En
<1> QED
  BY <1>1, <1>2, <1>4, <1>5, <1>6 DEF Consulta

(* The rest of the ordinary steps: undoing, refusing, failing, dying.      *)
LEMMA OrdinarioResto ==
  ASSUME TipoReal, NEW s \in Sesiones,
         \/ BorrarNc(s) \/ DeshacerCancelar(s) \/ Fallar(s)
         \/ (CancelarFila(s) \/ AnularPorCancelar(s)) /\ Ir(s, "cancelar_deshacer")
         \/ Caer(s) /\ sesion[s].paso \notin PorAplicar
  PROVE  Ordinario(s)
<1>1. PICK p \in {"libre", "cancelar_deshacer"} : Ir(s, p)
  BY DEF BorrarNc, DeshacerCancelar, Fallar, Caer
<1>2. SoloEsta(s)
  BY <1>1, IrSolo DEF Atentos, Vigilados, Pagando, Creando
<1>3. sesion[s].paso \notin PorAplicar
  BY DEF BorrarNc, DeshacerCancelar, Fallar, CancelarFila, AnularPorCancelar, En, PorAplicar
<1>4. \A n \in Notas : NotaQuieta(n)
  <2>1. CASE nc' = nc
    BY <2>1, MismasNotas
  <2>2. CASE nc' # nc
    <3>1. BorrarNc(s)
      BY <2>2 DEF DeshacerCancelar, Fallar, CancelarFila, AnularPorCancelar, Caer
    <3>2. N(s) \in Notas
      BY <3>1, NotaDe DEF BorrarNc, En, PasosConNota, PasosNota
    <3> QED
      BY <2>2, <3>1, <3>2, BorradaQuieta DEF BorrarNc
  <2> QED
    BY <2>1, <2>2
<1>5. UNCHANGED <<factura, plazo, pagos, acreditado, pisado, huerfano>>
  <2>1. CASE BorrarNc(s) \/ DeshacerCancelar(s) \/ Fallar(s) \/ CancelarFila(s)
    BY <2>1 DEF BorrarNc, DeshacerCancelar, Fallar, CancelarFila
  <2>2. CASE Caer(s) /\ sesion[s].paso \notin PorAplicar
    BY <2>2 DEF Caer, PorAplicar, TipoReal
  <2>3. CASE AnularPorCancelar(s) /\ Ir(s, "cancelar_deshacer")
    <3>1. ~ Envejecer(s, "libre")
      <4>1. sesion'[s].paso = "cancelar_deshacer"
        BY <2>3, PasoDePasar DEF Ir, TipoReal
      <4>2. ASSUME Envejecer(s, "libre") PROVE sesion'[s] = Pasar(s, "libre")
        BY <4>2 DEF Envejecer
      <4> QED
        BY <4>1, <4>2, PasoDePasar
    <3> QED
      BY <2>3, <3>1 DEF AnularPorCancelar, EscribirFactura
  <2> QED
    BY <2>1, <2>2, <2>3
<1> QED
  BY <1>2, <1>3, <1>4, <1>5 DEF Ordinario

-----------------------------------------------------------------------------
(* The approval.  The note is for the balance exactly, so none came before *)
(* and nothing is left for another.                                        *)
LEMMA ImpactoAplicar ==
  ASSUME TipoReal, TipoReal', InvImpacto, ~ pisado, NEW s \in Sesiones, AplicarAprobacion(s)
  PROVE  InvImpacto'
<1>1. PICK n \in Notas : n = N(s)
  BY NotaDe DEF AplicarAprobacion, En, PasosConNota, PasosNota
<1>2. /\ nc[n].ne # "nada" /\ nc[n].monto <= factura.saldo
      /\ factura' = ConNota(factura, nc[n].monto) /\ Envejecer(s, "libre")
      /\ nc' = [nc EXCEPT ![n].ne = "aprobado", ![n].impactos = @ + 1,
                          ![n].erp = IF @ = "anulada_borrador" THEN @ ELSE "aprobada"]
  BY <1>1 DEF AplicarAprobacion, Aplicable
<1>3. factura.saldo \in Nat /\ nc[n].monto \in Nat
  BY SaldoTipo, NotaMontoTipo DEF TipoReal
<1>4. nc[n].monto = factura.saldo /\ factura.saldo > 0
  BY <1>2, <1>3 DEF InvImpacto, NotaVale, Vale
<1>5. factura'.saldo = 0
  <2>1. ASSUME NEW m \in Nat, m = factura.saldo PROVE ConNota(factura, m).saldo = 0
    BY <1>3, <2>1 DEF ConNota
  <2> QED
    BY <1>2, <1>3, <1>4, <2>1
<1>6. SaldoBaja
  BY <1>3, <1>5 DEF SaldoBaja
<1>7. \A m \in Notas : nc[m].impactos = 0
  BY <1>3, <1>4, NotaMontoTipo DEF InvImpacto, Unica
<1>8. /\ \A m \in Notas : nc'[m].monto = nc[m].monto
      /\ \A m \in Notas \ {n} : nc'[m].ne = nc[m].ne /\ nc'[m].impactos = nc[m].impactos
      /\ nc'[n].impactos = nc[n].impactos + 1
  BY <1>2 DEF TipoReal, NotaReal
<1>9. ASSUME NEW m \in Notas PROVE NotaVale(m)'
  <2>1. nc[m].ne # "nada" => nc[m].monto > 0
    BY DEF InvImpacto, NotaVale, Vale
  <2>2. nc'[m].ne # "nada" => nc'[m].monto > 0 /\ nc'[m].monto \in Nat
    BY <1>2, <1>8, <2>1, NotaMontoTipo
  <2> QED
    BY <1>5, <2>2 DEF NotaVale, Vale
<1>10. \A t \in Sesiones : SesionVale(t)'
  BY <1>2, <1>6, <1>8, EnvejecerContinua, SesionValeSigue DEF InvImpacto
<1>11. Unica'
  BY <1>5, <1>7, <1>8 DEF Unica
<1> QED
  BY <1>9, <1>10, <1>11 DEF InvImpacto

(* What was written over stays so.                                         *)
LEMMA PisadoQueda == [Next]_vars => (pisado => pisado')
<1> SUFFICES ASSUME [Next]_vars PROVE pisado => pisado'
  OBVIOUS
<1>1. ASSUME NEW s \in Sesiones, Pago(s) PROVE pisado => pisado'
  BY <1>1 DEF Pago, LeerPago, InsertarPago, AplicarPago, NoAplicarPago, BorrarPago,
     EscribirFactura, Empezar
<1>2. ASSUME NEW s \in Sesiones, Anular(s) PROVE pisado => pisado'
  BY <1>2 DEF Anular, LeerBaja, AnularPorBaja, LeerCancelar, CancelarFila,
     AnularPorCancelar, DeshacerCancelar, EscribirFactura, Empezar
<1>3. ASSUME NEW s \in Sesiones, Crear(s) PROVE pisado => pisado'
  BY <1>3 DEF Crear, LeerCrear, ValidarCrear, DetallarNc, BorrarNc, InsertarNc, Empezar
<1>4. ASSUME NEW s \in Sesiones, Documento(s) PROVE pisado' = pisado
  BY <1>4 DEF Documento, LeerXmlNc, LeerFirmarNc, LeerEnviarNc, LeerConGate, LeerNota,
     GuardarXmlNc, PasarPendiente, GuardarFirmaNc, ReponerNe, RecibirNc, NoRecibirNc,
     GuardarEnvioNc, ReponerEnvio, MarcarError, GuardarNe, MarcarErp, Empezar
<1>5. ASSUME NEW s \in Sesiones, Consulta(s) PROVE pisado' = pisado
  BY <1>5 DEF Consulta, LeerConsultaNc, LeerNota, ConsultarNc, AplicarAprobacion,
     GuardarRechazo, MarcarRechazada, GuardarConsultaNc, GuardarNe, MarcarErp, Empezar
<1>6. ASSUME NEW s \in Sesiones, Fallar(s) \/ Caer(s) PROVE pisado' = pisado
  BY <1>6 DEF Fallar, Caer
<1>7. CASE UNCHANGED vars \/ VencerPlazo
  BY <1>7 DEF vars, VencerPlazo
<1> QED
  BY <1>1, <1>2, <1>3, <1>4, <1>5, <1>6, <1>7 DEF Next, AnularBorrador, Dictaminar

LEMMA ImpactoPaso == TipoReal /\ TipoReal' /\ InvImpacto /\ [Next]_vars => InvImpacto'
<1> SUFFICES ASSUME TipoReal, TipoReal', InvImpacto, [Next]_vars PROVE InvImpacto'
  OBVIOUS
<1>p. pisado => pisado'
  BY PisadoQueda
<1>0. CASE pisado
  BY <1>0, <1>p DEF InvImpacto
<1> SUFFICES ASSUME ~ pisado PROVE InvImpacto'
  BY <1>0
<1>1. CASE UNCHANGED <<factura, nc, sesion>>
  BY <1>1, MismasNotas, MismaContinua, PasoEnFactura
<1>2. ASSUME NEW s \in Sesiones, Fallar(s) \/ Caer(s)
      PROVE  InvImpacto'
  <2>1. \A t \in Sesiones : Continua(t)
    BY <1>2, IrContinua DEF Fallar, Caer, Vigilados, Pagando, Creando
  <2> QED
    BY <1>2, <2>1, MismasNotas, PasoEnFactura DEF Fallar, Caer
<1>3. ASSUME NEW n \in Notas, AnularBorrador(n)
      PROVE  InvImpacto'
  BY <1>3, ErpQuieto, MismaContinua, PasoEnFactura DEF AnularBorrador
<1>4. ASSUME NEW i \in 1..Len(lotes), Dictaminar(i)
      PROVE  InvImpacto'
  BY <1>1, <1>4 DEF Dictaminar
<1>5. CASE VencerPlazo \/ UNCHANGED vars
  BY <1>1, <1>5 DEF VencerPlazo, vars
<1>6. ASSUME NEW s \in Sesiones, Documento(s) \/ Consulta(s)
      PROVE  InvImpacto'
  BY <1>6, OrdinarioDocumento, OrdinarioConsulta, ImpactoOrdinario, ImpactoAplicar
<1> QED
  BY <1>2, <1>3, <1>4, <1>5, <1>6, ImpactoPago, ImpactoAnular, ImpactoCrear DEF Next

(* The invariant: notes and drafts under way are for no less than the      *)
(* balance, and a settled invoice owes nothing.                            *)
THEOREM InvarianteDeImpacto == Spec => [](TipoReal /\ InvImpacto)
<1>1. Init => TipoReal /\ InvImpacto
  BY TipoInicial, ImpactoInicial
<1>2. TipoReal /\ InvImpacto /\ [Next]_vars => (TipoReal /\ InvImpacto)'
  BY TipoPaso, ImpactoPaso
<1> QED
  BY <1>1, <1>2, PTL DEF Spec

(* Whatever requests, payments and queries interleave, at most one note is *)
(* taken off the balance, and once, unless a request wrote the invoice     *)
(* over a change it had not seen.                                          *)
THEOREM NotaUnica == Spec => []ImpactoUnico
BY InvarianteDeImpacto, ImpactoBasta, PTL

(***************************************************************************)
(* Payments under way and firm ones.                                       *)
(***************************************************************************)
Cerrados == {"Anulado", "Corregida NC"}

EnVuelo ==
    [t \in Sesiones |-> IF sesion[t].paso \in PorAplicar THEN sesion[t].monto ELSE 0]
FilasEnVuelo ==
    [t \in Sesiones |-> IF sesion[t].paso \in PorAplicar THEN 1 ELSE 0]

Firmes    == pagos.n - SumFunction(FilasEnVuelo)
SumaFirme == pagos.suma - SumFunction(EnVuelo)

PagoSabe(s) ==
    /\ sesion[s].paso \in Pagando \cup PorAplicar => sesion[s].monto > 0
    /\ sesion[s].paso \in Pagando => sesion[s].leida.estado \notin Cerrados

InvFirmes ==
    /\ 0 <= Firmes /\ Firmes <= SumaFirme
    /\ \A s \in Sesiones : PagoSabe(s)

SaldoFirme ==
    ~ pisado /\ ~ huerfano /\ factura.estado # "Anulado" =>
        factura.saldo = Monto - SumaFirme - acreditado

(* What the closing of the invoice rests on, while nothing was written     *)
(* over: without firm payments it owes all or nothing, and a note made     *)
(* within the term to cancel has a firm payment under it.                  *)
CierreSabe(s) ==
    LET r == sesion[s]
    IN  /\ r.paso = "crear_validar" /\ Firmes = 0 => r.monto = Monto
        /\ r.paso \in {"crear_insertar", "crear_detallar"} /\ plazo => Firmes > 0
        /\ r.paso \in {"cancelar_fila", "cancelar_factura"} /\ ~ r.vieja =>
              factura.estado # "Corregida NC"
        /\ r.paso = "baja_anular" /\ ~ r.vieja => factura.estado \notin Cerrados

SaldoEntero     == Firmes = 0 => factura.saldo \in {0, Monto}
NotaFirme(n)    == plazo /\ nc[n].ne # "nada" => Firmes > 0
CorregidaFirme  == plazo /\ factura.estado = "Corregida NC" => Firmes > 0

InvCierre ==
    ~ pisado => /\ SaldoEntero
                /\ CorregidaFirme
                /\ \A n \in Notas : NotaFirme(n)
                /\ \A s \in Sesiones : CierreSabe(s)

-----------------------------------------------------------------------------
LEMMA VueloTipo ==
  ASSUME TipoReal
  PROVE  /\ EnVuelo \in [Sesiones -> Nat] /\ FilasEnVuelo \in [Sesiones -> Nat]
         /\ SumFunction(EnVuelo) \in Nat /\ SumFunction(FilasEnVuelo) \in Nat
         /\ Firmes \in Int /\ SumaFirme \in Int
<1>1. \A t \in Sesiones : sesion[t].monto \in Nat
  BY EnMano DEF Registro
<1>2. EnVuelo \in [Sesiones -> Nat] /\ FilasEnVuelo \in [Sesiones -> Nat]
  BY <1>1 DEF EnVuelo, FilasEnVuelo
<1>3. SumFunction(EnVuelo) \in Nat /\ SumFunction(FilasEnVuelo) \in Nat
  BY <1>2, FacturasAssumption, SumaCota
<1>4. pagos.n \in Int /\ pagos.suma \in Int
  BY DEF TipoReal
<1> QED
  BY <1>2, <1>3, <1>4 DEF Firmes, SumaFirme

(* The other requests of a step: they keep step, amount and copy, and know *)
(* when the invoice was written.                                           *)
Igual(t) ==
    /\ sesion'[t].paso = sesion[t].paso /\ sesion'[t].monto = sesion[t].monto
    /\ sesion'[t].leida = sesion[t].leida
    /\ sesion[t].vieja => sesion'[t].vieja
    /\ ~ sesion'[t].vieja /\ sesion[t].paso \in PasosFactura => factura' = factura

LEMMA MismaIgual ==
  ASSUME NEW t \in Sesiones, sesion'[t] = sesion[t], factura' = factura
  PROVE  Igual(t)
BY DEF Igual

LEMMA MoverIguales ==
  ASSUME TipoReal, NEW s \in Sesiones, NEW r, sesion' = [sesion EXCEPT ![s] = r],
         factura' = factura
  PROVE  (\A t \in Sesiones \ {s} : Igual(t)) /\ sesion'[s] = r
<1>1. sesion'[s] = r /\ \A t \in Sesiones \ {s} : sesion'[t] = sesion[t]
  BY DEF TipoReal
<1> QED
  BY <1>1, MismaIgual

LEMMA IrIguales ==
  ASSUME TipoReal, NEW s \in Sesiones, NEW p, Ir(s, p), factura' = factura
  PROVE  (\A t \in Sesiones \ {s} : Igual(t)) /\ sesion'[s].paso = p
<1>1. (\A t \in Sesiones \ {s} : Igual(t)) /\ sesion'[s] = Pasar(s, p)
  BY MoverIguales DEF Ir
<1> QED
  BY <1>1, PasoDePasar

LEMMA EnvejecerIguales ==
  ASSUME TipoReal, NEW s \in Sesiones, Envejecer(s, "libre")
  PROVE  (\A t \in Sesiones \ {s} : Igual(t)) /\ sesion'[s].paso = "libre"
<1>1. ASSUME NEW t \in Sesiones \ {s} PROVE Igual(t)
  <2>1. CASE sesion[t].paso \in PasosFactura
    <3>1. PICK r : r = [sesion[t] EXCEPT !.vieja = TRUE]
      OBVIOUS
    <3>2. sesion'[t] = r
      BY <2>1, <3>1 DEF Envejecer
    <3>3. /\ r.paso = sesion[t].paso /\ r.monto = sesion[t].monto
          /\ r.leida = sesion[t].leida /\ r.vieja = TRUE
      BY <3>1, EnMano DEF Registro
    <3> QED
      BY <3>2, <3>3 DEF Igual
  <2>2. CASE sesion[t].paso \notin PasosFactura
    <3>1. sesion'[t] = sesion[t]
      BY <2>2 DEF Envejecer
    <3> QED
      BY <2>2, <3>1 DEF Igual
  <2> QED
    BY <2>1, <2>2
<1>2. sesion'[s] = Pasar(s, "libre")
  BY DEF Envejecer
<1> QED
  BY <1>1, <1>2, PasoDePasar

(* How a step of s moves the firm payments: by what it does to the rows,   *)
(* less what it takes under way.                                           *)
DeltaFilas(s) == (pagos'.n - pagos.n) - (FilasEnVuelo'[s] - FilasEnVuelo[s])
DeltaSuma(s)  == (pagos'.suma - pagos.suma) - (EnVuelo'[s] - EnVuelo[s])

LEMMA FirmesMueve ==
  ASSUME TipoReal, TipoReal', NEW s \in Sesiones, \A t \in Sesiones \ {s} : Igual(t)
  PROVE  Firmes' = Firmes + DeltaFilas(s) /\ SumaFirme' = SumaFirme + DeltaSuma(s)
<1> DEFINE f == EnVuelo
           g == EnVuelo'
           m == FilasEnVuelo
           k == FilasEnVuelo'
<1>1. /\ f \in [Sesiones -> Int] /\ g \in [Sesiones -> Int]
      /\ m \in [Sesiones -> Int] /\ k \in [Sesiones -> Int]
  <2>1. f \in [Sesiones -> Nat] /\ m \in [Sesiones -> Nat]
    BY VueloTipo
  <2>2. g \in [Sesiones -> Nat] /\ k \in [Sesiones -> Nat]
    <3>1. \A t \in Sesiones : sesion'[t].monto \in Nat
      BY DEF TipoReal, Peticion, Registro
    <3> QED
      BY <3>1 DEF EnVuelo, FilasEnVuelo
  <2> QED
    BY <2>1, <2>2
<1>2. \A t \in Sesiones \ {s} : g[t] = f[t] /\ k[t] = m[t]
  BY DEF Igual, EnVuelo, FilasEnVuelo
<1>3. /\ pagos.n \in Int /\ pagos.suma \in Int /\ pagos'.n \in Int /\ pagos'.suma \in Int
  BY DEF TipoReal
<1>4. /\ Firmes = pagos.n - SumFunction(m) /\ Firmes' = pagos'.n - SumFunction(k)
      /\ SumaFirme = pagos.suma - SumFunction(f)
      /\ SumaFirme' = pagos'.suma - SumFunction(g)
      /\ DeltaFilas(s) = (pagos'.n - pagos.n) - (k[s] - m[s])
      /\ DeltaSuma(s) = (pagos'.suma - pagos.suma) - (g[s] - f[s])
  BY DEF Firmes, SumaFirme, DeltaFilas, DeltaSuma
<1> HIDE DEF f, g, m, k
<1>5. SumFunction(g) = SumFunction(f) + (g[s] - f[s])
  BY <1>1, <1>2, FacturasAssumption, SumaCambia
<1>6. SumFunction(k) = SumFunction(m) + (k[s] - m[s])
  BY <1>1, <1>2, FacturasAssumption, SumaCambia
<1>7. SumFunction(f) \in Int /\ SumFunction(m) \in Int
  BY <1>1, FacturasAssumption, SumaTipo
<1>8. f[s] \in Int /\ g[s] \in Int /\ m[s] \in Int /\ k[s] \in Int
  BY <1>1
<1> QED
  BY <1>3, <1>4, <1>5, <1>6, <1>7, <1>8

LEMMA FirmesPaso ==
  ASSUME TipoReal, TipoReal', InvFirmes, NEW s \in Sesiones,
         \A t \in Sesiones \ {s} : Igual(t), PagoSabe(s)',
         0 <= DeltaFilas(s), DeltaFilas(s) <= DeltaSuma(s),
         DeltaFilas(s) \in Int, DeltaSuma(s) \in Int
  PROVE  InvFirmes' /\ Firmes <= Firmes'
<1>1. Firmes' = Firmes + DeltaFilas(s) /\ SumaFirme' = SumaFirme + DeltaSuma(s)
  BY FirmesMueve
<1>2. Firmes \in Int /\ SumaFirme \in Int
  BY VueloTipo
<1>3. 0 <= Firmes /\ Firmes <= SumaFirme
  BY DEF InvFirmes
<1>4. 0 <= Firmes' /\ Firmes' <= SumaFirme' /\ Firmes <= Firmes'
  BY <1>1, <1>2, <1>3
<1>5. \A t \in Sesiones : PagoSabe(t)'
  BY DEF InvFirmes, PagoSabe, Igual
<1> QED
  BY <1>4, <1>5 DEF InvFirmes

(* A step of a request that has no payment under way, before or after.     *)
SinPago(s) ==
    /\ \A t \in Sesiones \ {s} : Igual(t)
    /\ sesion[s].paso \notin PorAplicar
    /\ sesion'[s].paso \notin Pagando \cup PorAplicar
    /\ pagos' = pagos

LEMMA SinPagoPaso ==
  ASSUME TipoReal, TipoReal', InvFirmes, NEW s \in Sesiones, SinPago(s)
  PROVE  InvFirmes' /\ Firmes' = Firmes /\ SumaFirme' = SumaFirme
<1>1. /\ EnVuelo[s] = 0 /\ EnVuelo'[s] = 0 /\ FilasEnVuelo[s] = 0 /\ FilasEnVuelo'[s] = 0
  BY DEF SinPago, EnVuelo, FilasEnVuelo
<1>2. pagos.n \in Int /\ pagos.suma \in Int /\ pagos' = pagos
  BY DEF TipoReal, SinPago
<1>3. DeltaFilas(s) = 0 /\ DeltaSuma(s) = 0
  BY <1>1, <1>2 DEF DeltaFilas, DeltaSuma
<1>4. PagoSabe(s)'
  BY DEF SinPago, PagoSabe
<1>5. Firmes \in Int /\ SumaFirme \in Int
  BY VueloTipo
<1>6. InvFirmes'
  BY <1>3, <1>4, FirmesPaso DEF SinPago
<1> QED
  BY <1>3, <1>5, <1>6, FirmesMueve DEF SinPago

LEMMA OrdinarioSinPago ==
  ASSUME TipoReal, NEW s \in Sesiones, Ordinario(s)
  PROVE  SinPago(s)
<1>1. \A t \in Sesiones \ {s} : Igual(t)
  BY MismaIgual DEF Ordinario, SoloEsta
<1>2. sesion'[s].paso \notin Pagando \cup PorAplicar
  BY DEF Ordinario, SoloEsta, Atentos, Vigilados, Pagando, PorAplicar
<1> QED
  BY <1>1, <1>2 DEF Ordinario, SinPago

-----------------------------------------------------------------------------
(* The steps of a payment.  What they make of the firm payments is the     *)
(* same everywhere: nothing while the row is under way, the row and its    *)
(* amount when nobody is to apply or delete it any more.                   *)
LEMMA VueloDe ==
  ASSUME TipoReal, NEW s \in Sesiones
  PROVE  /\ sesion[s].monto \in Nat
         /\ pagos.n \in Int /\ pagos.suma \in Int
         /\ sesion[s].paso \in PorAplicar =>
               EnVuelo[s] = sesion[s].monto /\ FilasEnVuelo[s] = 1
         /\ sesion[s].paso \notin PorAplicar => EnVuelo[s] = 0 /\ FilasEnVuelo[s] = 0
BY EnMano DEF TipoReal, Registro, EnVuelo, FilasEnVuelo

LEMMA VueloTras ==
  ASSUME NEW s \in Sesiones
  PROVE  /\ sesion'[s].paso \in PorAplicar =>
               EnVuelo'[s] = sesion'[s].monto /\ FilasEnVuelo'[s] = 1
         /\ sesion'[s].paso \notin PorAplicar => EnVuelo'[s] = 0 /\ FilasEnVuelo'[s] = 0
BY DEF EnVuelo, FilasEnVuelo

LEMMA FirmaPaso ==
  ASSUME TipoReal, TipoReal', InvFirmes, NEW s \in Sesiones,
         sesion[s].paso \in PorAplicar, sesion'[s].paso = "libre", pagos' = pagos,
         \A t \in Sesiones \ {s} : Igual(t)
  PROVE  /\ InvFirmes' /\ Firmes' = Firmes + 1
         /\ SumaFirme' = SumaFirme + sesion[s].monto
<1>1. EnVuelo'[s] = 0 /\ FilasEnVuelo'[s] = 0
  BY VueloTras DEF PorAplicar
<1>2. DeltaFilas(s) = 1 /\ DeltaSuma(s) = sesion[s].monto /\ sesion[s].monto \in Nat
  BY <1>1, VueloDe DEF DeltaFilas, DeltaSuma
<1>3. sesion[s].monto > 0
  BY DEF InvFirmes, PagoSabe
<1>4. PagoSabe(s)'
  BY DEF PagoSabe, Pagando, PorAplicar
<1>5. 0 <= DeltaFilas(s) /\ DeltaFilas(s) <= DeltaSuma(s)
  BY <1>2, <1>3
<1>6. InvFirmes'
  BY <1>2, <1>4, <1>5, FirmesPaso
<1> QED
  BY <1>2, <1>6, FirmesMueve

(* The row comes, changes hands or goes while it is under way.             *)
LEMMA EnCursoPaso ==
  ASSUME TipoReal, TipoReal', InvFirmes, NEW s \in Sesiones, PagoSabe(s)',
         \A t \in Sesiones \ {s} : Igual(t),
         pagos'.n - pagos.n = FilasEnVuelo'[s] - FilasEnVuelo[s],
         pagos'.suma - pagos.suma = EnVuelo'[s] - EnVuelo[s]
  PROVE  InvFirmes' /\ Firmes' = Firmes /\ SumaFirme' = SumaFirme
<1>1. /\ pagos.n \in Int /\ pagos.suma \in Int /\ pagos'.n \in Int /\ pagos'.suma \in Int
  BY DEF TipoReal
<1>2. DeltaFilas(s) = 0 /\ DeltaSuma(s) = 0
  BY <1>1 DEF DeltaFilas, DeltaSuma
<1>3. InvFirmes'
  BY <1>2, FirmesPaso
<1>4. Firmes \in Int /\ SumaFirme \in Int
  BY VueloTipo
<1> QED
  BY <1>2, <1>3, <1>4, FirmesMueve

LEMMA PagoEmpieza ==
  ASSUME TipoReal, TipoReal', InvFirmes, NEW s \in Sesiones, NEW m \in Importes,
         LeerPago(s, m)
  PROVE  /\ InvFirmes' /\ Firmes' = Firmes /\ SumaFirme' = SumaFirme
         /\ \A t \in Sesiones \ {s} : Igual(t)
         /\ sesion'[s].paso = "pago_insertar"
<1> DEFINE r == [Libre EXCEPT !.paso = "pago_insertar", !.leida = factura, !.monto = m]
<1>1. r.paso = "pago_insertar" /\ r.leida = factura /\ r.monto = m
  BY DEF Libre
<1>2. /\ sesion' = [sesion EXCEPT ![s] = r] /\ factura' = factura /\ pagos' = pagos
      /\ sesion[s].paso = "libre" /\ factura.estado \notin Cerrados
  BY DEF LeerPago, Empezar, En, Cerrados
<1> HIDE DEF r
<1>3. (\A t \in Sesiones \ {s} : Igual(t)) /\ sesion'[s] = r
  BY <1>2, MoverIguales
<1>4. m > 0
  BY FacturasAssumption
<1>5. PagoSabe(s)'
  BY <1>1, <1>2, <1>3, <1>4 DEF PagoSabe
<1>6. /\ FilasEnVuelo[s] = 0 /\ EnVuelo[s] = 0
      /\ FilasEnVuelo'[s] = 0 /\ EnVuelo'[s] = 0
  BY <1>1, <1>2, <1>3, VueloDe, VueloTras DEF PorAplicar
<1>7. pagos'.n - pagos.n = 0 /\ pagos'.suma - pagos.suma = 0
  BY <1>2 DEF TipoReal
<1> QED
  BY <1>1, <1>3, <1>5, <1>6, <1>7, EnCursoPaso

LEMMA PagoInserta ==
  ASSUME TipoReal, TipoReal', InvFirmes, NEW s \in Sesiones,
         InsertarPago(s) \/ NoAplicarPago(s)
  PROVE  /\ InvFirmes' /\ Firmes' = Firmes /\ SumaFirme' = SumaFirme
         /\ \A t \in Sesiones \ {s} : Igual(t)
         /\ sesion'[s].paso \in PorAplicar
<1>1. PICK p \in PorAplicar : /\ Ir(s, p) /\ factura' = factura
                              /\ p = "pago_aplicar" => sesion[s].paso \in Pagando
  BY DEF InsertarPago, NoAplicarPago, PorAplicar, En, Pagando
<1>2. sesion[s].paso \in Pagando
  BY DEF InsertarPago, NoAplicarPago, En, Pagando
<1>3. (\A t \in Sesiones \ {s} : Igual(t)) /\ sesion'[s] = Pasar(s, p)
  BY <1>1, MoverIguales DEF Ir
<1>4. PICK r : r = [sesion[s] EXCEPT !.paso = p]
  OBVIOUS
<1>5. sesion'[s] = r
  BY <1>1, <1>3, <1>4 DEF Pasar, PorAplicar
<1>6. r.paso = p /\ r.monto = sesion[s].monto /\ r.leida = sesion[s].leida
  BY <1>4, EnMano DEF Registro
<1>7. PagoSabe(s)'
  BY <1>2, <1>5, <1>6 DEF InvFirmes, PagoSabe
<1>8. EnVuelo'[s] = sesion[s].monto /\ FilasEnVuelo'[s] = 1
  BY <1>1, <1>5, <1>6, VueloTras
<1>9. CASE InsertarPago(s)
  <2>1. EnVuelo[s] = 0 /\ FilasEnVuelo[s] = 0
    BY <1>9, VueloDe DEF InsertarPago, En, PorAplicar
  <2>2. pagos'.n - pagos.n = 1 /\ pagos'.suma - pagos.suma = sesion[s].monto
    BY <1>9, VueloDe DEF InsertarPago
  <2>3. 1 - 0 = 1 /\ sesion[s].monto - 0 = sesion[s].monto
    BY VueloDe
  <2> QED
    BY <1>1, <1>3, <1>5, <1>6, <1>7, <1>8, <2>1, <2>2, <2>3, EnCursoPaso
<1>10. CASE NoAplicarPago(s)
  <2>1. EnVuelo[s] = sesion[s].monto /\ FilasEnVuelo[s] = 1
    BY <1>10, VueloDe DEF NoAplicarPago, En, PorAplicar
  <2>2. pagos'.n - pagos.n = 0 /\ pagos'.suma - pagos.suma = 0
    BY <1>10, VueloDe DEF NoAplicarPago
  <2>3. 1 - 1 = 0 /\ sesion[s].monto - sesion[s].monto = 0
    BY VueloDe
  <2> QED
    BY <1>1, <1>3, <1>5, <1>6, <1>7, <1>8, <2>1, <2>2, <2>3, EnCursoPaso
<1> QED
  BY <1>9, <1>10

LEMMA PagoBorra ==
  ASSUME TipoReal, TipoReal', InvFirmes, NEW s \in Sesiones, BorrarPago(s), pagos' # pagos
  PROVE  /\ InvFirmes' /\ Firmes' = Firmes /\ SumaFirme' = SumaFirme
         /\ \A t \in Sesiones \ {s} : Igual(t)
         /\ sesion'[s].paso = "libre"
<1>1. (\A t \in Sesiones \ {s} : Igual(t)) /\ sesion'[s].paso = "libre"
  BY IrIguales DEF BorrarPago
<1>2. /\ EnVuelo[s] = sesion[s].monto /\ FilasEnVuelo[s] = 1
      /\ EnVuelo'[s] = 0 /\ FilasEnVuelo'[s] = 0
  BY <1>1, VueloDe, VueloTras DEF BorrarPago, En, PorAplicar
<1>3. pagos'.n - pagos.n = 0 - 1 /\ pagos'.suma - pagos.suma = 0 - sesion[s].monto
  BY VueloDe DEF BorrarPago
<1>4. PagoSabe(s)'
  BY <1>1 DEF PagoSabe, Pagando, PorAplicar
<1> QED
  BY <1>1, <1>2, <1>3, <1>4, EnCursoPaso

(* A row nobody will apply or delete: applied, or left behind.             *)
LEMMA PagoQueda ==
  ASSUME TipoReal, TipoReal', InvFirmes, NEW s \in Sesiones,
         \/ AplicarPago(s)
         \/ BorrarPago(s) /\ pagos' = pagos
         \/ Caer(s) /\ sesion[s].paso \in PorAplicar
  PROVE  /\ InvFirmes' /\ Firmes' = Firmes + 1
         /\ SumaFirme' = SumaFirme + sesion[s].monto
         /\ \A t \in Sesiones \ {s} : Igual(t)
         /\ sesion'[s].paso = "libre"
<1>1. (\A t \in Sesiones \ {s} : Igual(t)) /\ sesion'[s].paso = "libre"
  BY IrIguales, EnvejecerIguales DEF AplicarPago, EscribirFactura, BorrarPago, Caer
<1>2. sesion[s].paso \in PorAplicar /\ pagos' = pagos
  BY DEF AplicarPago, BorrarPago, Caer, En, PorAplicar
<1> QED
  BY <1>1, <1>2, FirmaPaso

-----------------------------------------------------------------------------
(* The other steps have no payment under way.                              *)
LEMMA AnularSinPago ==
  ASSUME TipoReal, NEW s \in Sesiones, Anular(s)
  PROVE  SinPago(s)
<1>1. CASE LeerBaja(s) \/ LeerCancelar(s)
  <2>1. PICK r : /\ r.paso \in {"baja_anular", "cancelar_fila"} /\ Empezar(s, r)
    BY <1>1 DEF LeerBaja, LeerCancelar, Libre
  <2>2. (\A t \in Sesiones \ {s} : Igual(t)) /\ sesion'[s] = r
    BY <2>1, MoverIguales DEF Empezar
  <2> QED
    BY <2>1, <2>2 DEF Empezar, En, SinPago, Pagando, PorAplicar
<1>2. CASE \/ AnularPorBaja(s)
           \/ AnularPorCancelar(s) /\ Envejecer(s, "libre")
  <2>1. (\A t \in Sesiones \ {s} : Igual(t)) /\ sesion'[s].paso = "libre"
    BY <1>2, EnvejecerIguales DEF AnularPorBaja, EscribirFactura
  <2> QED
    BY <1>2, <2>1 DEF AnularPorBaja, AnularPorCancelar, En, SinPago, Pagando, PorAplicar
<1>3. CASE \/ CancelarFila(s) \/ DeshacerCancelar(s)
           \/ AnularPorCancelar(s) /\ ~ Envejecer(s, "libre")
  <2>1. PICK p \in {"libre", "cancelar_factura", "cancelar_deshacer"} :
            Ir(s, p) /\ factura' = factura
    BY <1>3 DEF CancelarFila, DeshacerCancelar, AnularPorCancelar, EscribirFactura, Seguir
  <2>2. (\A t \in Sesiones \ {s} : Igual(t)) /\ sesion'[s].paso = p
    BY <2>1, IrIguales
  <2> QED
    BY <1>3, <2>2 DEF CancelarFila, DeshacerCancelar, AnularPorCancelar, En, SinPago,
       Pagando, PorAplicar
<1> QED
  BY <1>1, <1>2, <1>3 DEF Anular

LEMMA CrearSinPago ==
  ASSUME TipoReal, NEW s \in Sesiones, Crear(s)
  PROVE  SinPago(s)
<1>1. CASE LeerCrear(s)
  <2> DEFINE r == [Libre EXCEPT !.paso = "crear_validar", !.monto = factura.saldo]
  <2>1. r.paso \in {"crear_validar", "crear_detallar"}
    BY DEF Libre
  <2>2. /\ sesion' = [sesion EXCEPT ![s] = r] /\ factura' = factura /\ pagos' = pagos
        /\ sesion[s].paso \notin PorAplicar
    BY <1>1 DEF LeerCrear, Empezar, En, PorAplicar
  <2> HIDE DEF r
  <2>3. (\A t \in Sesiones \ {s} : Igual(t)) /\ sesion'[s] = r
    BY <2>2, MoverIguales
  <2> QED
    BY <2>1, <2>2, <2>3 DEF SinPago, Pagando, PorAplicar
<1>3. ASSUME NEW n \in Notas, InsertarNc(s, n)
      PROVE  SinPago(s)
  <2> DEFINE r == [Libre EXCEPT !.paso = "crear_detallar", !.nota = n]
  <2>1. r.paso \in {"crear_validar", "crear_detallar"}
    BY DEF Libre
  <2>2. /\ sesion' = [sesion EXCEPT ![s] = r] /\ factura' = factura /\ pagos' = pagos
        /\ sesion[s].paso \notin PorAplicar
    BY <1>3 DEF InsertarNc, En, PorAplicar
  <2> HIDE DEF r
  <2>3. (\A t \in Sesiones \ {s} : Igual(t)) /\ sesion'[s] = r
    BY <2>2, MoverIguales
  <2> QED
    BY <2>1, <2>2, <2>3 DEF SinPago, Pagando, PorAplicar
<1>2. CASE ValidarCrear(s) \/ DetallarNc(s) \/ BorrarNc(s)
  <2>1. PICK p \in {"libre", "crear_insertar", "crear_borrar"} :
            Ir(s, p) /\ factura' = factura
    BY <1>2 DEF ValidarCrear, DetallarNc, BorrarNc, Seguir
  <2>2. (\A t \in Sesiones \ {s} : Igual(t)) /\ sesion'[s].paso = p
    BY <2>1, IrIguales
  <2> QED
    BY <1>2, <2>2 DEF ValidarCrear, DetallarNc, BorrarNc, En, SinPago, Pagando, PorAplicar
<1> QED
  BY <1>1, <1>2, <1>3 DEF Crear

LEMMA AplicarSinPago ==
  ASSUME TipoReal, NEW s \in Sesiones, AplicarAprobacion(s)
  PROVE  SinPago(s)
<1>1. (\A t \in Sesiones \ {s} : Igual(t)) /\ sesion'[s].paso = "libre"
  BY EnvejecerIguales DEF AplicarAprobacion
<1> QED
  BY <1>1 DEF AplicarAprobacion, En, SinPago, Pagando, PorAplicar

-----------------------------------------------------------------------------
(* Every step: the rows that are firm stay, and weigh no less than one     *)
(* each.                                                                   *)
LEMMA FirmesQuietas ==
  ASSUME TipoReal, TipoReal', InvFirmes, sesion' = sesion, pagos' = pagos
  PROVE  InvFirmes' /\ Firmes' = Firmes /\ SumaFirme' = SumaFirme
<1>1. EnVuelo' = EnVuelo /\ FilasEnVuelo' = FilasEnVuelo
  BY DEF EnVuelo, FilasEnVuelo
<1>2. Firmes' = Firmes /\ SumaFirme' = SumaFirme
  BY <1>1 DEF Firmes, SumaFirme
<1> QED
  BY <1>2 DEF InvFirmes, PagoSabe

LEMMA SinPagoPasos ==
  ASSUME TipoReal, NEW s \in Sesiones,
         \/ Anular(s) \/ Crear(s) \/ Documento(s) \/ Consulta(s) \/ Fallar(s)
         \/ Caer(s) /\ sesion[s].paso \notin PorAplicar
  PROVE  SinPago(s)
<1>1. CASE Documento(s) \/ Consulta(s)
  BY <1>1, OrdinarioDocumento, OrdinarioConsulta, OrdinarioSinPago, AplicarSinPago
<1>2. CASE Fallar(s) \/ (Caer(s) /\ sesion[s].paso \notin PorAplicar)
  BY <1>2, OrdinarioResto, OrdinarioSinPago
<1> QED
  BY <1>1, <1>2, AnularSinPago, CrearSinPago

LEMMA FirmesSiguen ==
  ASSUME TipoReal, TipoReal', InvFirmes, [Next]_vars
  PROVE  InvFirmes' /\ Firmes <= Firmes'
<1>t. Firmes \in Int /\ Firmes + 1 \in Int
  BY VueloTipo
<1>1. ASSUME NEW s \in Sesiones, Pago(s) PROVE InvFirmes' /\ Firmes <= Firmes'
  <2>1. CASE BorrarPago(s)
    BY <1>t, <2>1, PagoBorra, PagoQueda
  <2>2. CASE AplicarPago(s)
    BY <1>t, <2>2, PagoQueda
  <2>3. CASE InsertarPago(s) \/ NoAplicarPago(s) \/ \E m \in Importes : LeerPago(s, m)
    BY <1>t, <2>3, PagoEmpieza, PagoInserta
  <2> QED
    BY <1>1, <2>1, <2>2, <2>3 DEF Pago
<1>2. ASSUME NEW s \in Sesiones, Anular(s) \/ Crear(s) \/ Documento(s) \/ Consulta(s)
      PROVE  InvFirmes' /\ Firmes <= Firmes'
  BY <1>t, <1>2, SinPagoPasos, SinPagoPaso
<1>3. ASSUME NEW s \in Sesiones, Fallar(s) \/ Caer(s)
      PROVE  InvFirmes' /\ Firmes <= Firmes'
  <2>1. CASE Caer(s) /\ sesion[s].paso \in PorAplicar
    BY <1>t, <2>1, PagoQueda
  <2>2. CASE Fallar(s) \/ (Caer(s) /\ sesion[s].paso \notin PorAplicar)
    BY <1>t, <2>2, SinPagoPasos, SinPagoPaso
  <2> QED
    BY <1>3, <2>1, <2>2
<1>4. CASE UNCHANGED <<sesion, pagos>>
  BY <1>t, <1>4, FirmesQuietas
<1>5. CASE VencerPlazo \/ UNCHANGED vars
  BY <1>4, <1>5 DEF VencerPlazo, vars
<1>6. ASSUME NEW n \in Notas, AnularBorrador(n) PROVE InvFirmes' /\ Firmes <= Firmes'
  BY <1>4, <1>6 DEF AnularBorrador
<1>7. ASSUME NEW i \in 1..Len(lotes), Dictaminar(i) PROVE InvFirmes' /\ Firmes <= Firmes'
  BY <1>4, <1>7 DEF Dictaminar
<1> QED
  BY <1>1, <1>2, <1>3, <1>5, <1>6, <1>7 DEF Next

-----------------------------------------------------------------------------
(* The balance and the firm payments.                                      *)
LEMMA HuerfanoQueda == [Next]_vars => (huerfano => huerfano')
<1> SUFFICES ASSUME [Next]_vars, huerfano PROVE huerfano'
  OBVIOUS
<1>1. ASSUME NEW s \in Sesiones, Pago(s) PROVE huerfano'
  BY <1>1 DEF Pago, LeerPago, InsertarPago, AplicarPago, NoAplicarPago, BorrarPago, Empezar
<1>2. ASSUME NEW s \in Sesiones, Anular(s) PROVE huerfano'
  BY <1>2 DEF Anular, LeerBaja, AnularPorBaja, LeerCancelar, CancelarFila,
     AnularPorCancelar, DeshacerCancelar, Empezar
<1>3. ASSUME NEW s \in Sesiones, Crear(s) PROVE huerfano'
  BY <1>3 DEF Crear, LeerCrear, ValidarCrear, DetallarNc, BorrarNc, InsertarNc, Empezar
<1>4. ASSUME NEW s \in Sesiones, Documento(s) PROVE huerfano'
  BY <1>4 DEF Documento, LeerXmlNc, LeerFirmarNc, LeerEnviarNc, LeerConGate, LeerNota,
     GuardarXmlNc, PasarPendiente, GuardarFirmaNc, ReponerNe, RecibirNc, NoRecibirNc,
     GuardarEnvioNc, ReponerEnvio, MarcarError, GuardarNe, MarcarErp, Empezar
<1>5. ASSUME NEW s \in Sesiones, Consulta(s) PROVE huerfano'
  BY <1>5 DEF Consulta, LeerConsultaNc, LeerNota, ConsultarNc, AplicarAprobacion,
     GuardarRechazo, MarcarRechazada, GuardarConsultaNc, GuardarNe, MarcarErp, Empezar
<1>6. ASSUME NEW s \in Sesiones, Fallar(s) \/ Caer(s) PROVE huerfano'
  BY <1>6 DEF Fallar, Caer
<1>7. CASE UNCHANGED vars \/ VencerPlazo
  BY <1>7 DEF vars, VencerPlazo
<1> QED
  BY <1>1, <1>2, <1>3, <1>4, <1>5, <1>6, <1>7 DEF Next, AnularBorrador, Dictaminar

LEMMA SaldoQuieto ==
  ASSUME SaldoFirme, [Next]_vars, SumaFirme' = SumaFirme, UNCHANGED <<factura, acreditado>>
  PROVE  SaldoFirme'
<1>1. (pisado => pisado') /\ (huerfano => huerfano')
  BY PisadoQueda, HuerfanoQueda
<1> QED
  BY <1>1 DEF SaldoFirme

LEMMA SaldoAplicarPago ==
  ASSUME TipoReal, TipoReal', InvImpacto, InvFirmes, SaldoFirme, NEW s \in Sesiones,
         AplicarPago(s)
  PROVE  SaldoFirme'
<1> SUFFICES ASSUME ~ pisado', ~ huerfano'
             PROVE  factura'.saldo = Monto - SumaFirme' - acreditado'
  BY DEF SaldoFirme
<1>1. /\ ~ pisado /\ ~ sesion[s].vieja /\ ~ huerfano /\ acreditado' = acreditado
      /\ factura' = ConPago(sesion[s].leida, sesion[s].monto)
  BY DEF AplicarPago, EscribirFactura
<1>2. sesion[s].paso = "pago_aplicar"
  BY DEF AplicarPago, En
<1>3. sesion[s].leida = factura /\ factura.estado \notin Cerrados
  BY <1>1, <1>2 DEF InvImpacto, SesionVale, InvFirmes, PagoSabe, Pagando
<1>4. factura'.saldo = factura.saldo - sesion[s].monto
  BY <1>1, <1>3 DEF ConPago
<1>5. factura.saldo = Monto - SumaFirme - acreditado
  BY <1>1, <1>3 DEF SaldoFirme, Cerrados
<1>6. SumaFirme' = SumaFirme + sesion[s].monto
  BY PagoQueda
<1>7. /\ SumaFirme \in Int /\ sesion[s].monto \in Int /\ acreditado \in Int /\ Monto \in Int
  BY VueloTipo, EnMano, MontoNatural DEF Registro, TipoReal
<1> QED
  BY <1>1, <1>4, <1>5, <1>6, <1>7

LEMMA SaldoAplicarAprobacion ==
  ASSUME TipoReal, TipoReal', InvFirmes, SaldoFirme, NEW s \in Sesiones,
         AplicarAprobacion(s)
  PROVE  SaldoFirme'
<1>1. PICK n \in Notas : n = N(s)
  BY NotaDe DEF AplicarAprobacion, En, PasosConNota, PasosNota
<1>2. PICK m : m = nc[n].monto
  OBVIOUS
<1>3. /\ m <= factura.saldo /\ factura' = ConNota(factura, m)
      /\ acreditado' = acreditado + m /\ pisado' = pisado /\ huerfano' = huerfano
  BY <1>1, <1>2 DEF AplicarAprobacion, Aplicable
<1>4. /\ factura.saldo \in Nat /\ m \in Nat /\ SumaFirme \in Int /\ acreditado \in Int
      /\ Monto \in Int
  BY <1>2, SaldoTipo, NotaMontoTipo, VueloTipo, MontoNatural DEF TipoReal
<1>5. factura'.saldo = factura.saldo - m
  <2>1. (IF m > factura.saldo THEN 0 ELSE factura.saldo - m) = factura.saldo - m
    BY <1>3, <1>4
  <2>2. ConNota(factura, m).saldo = IF m > factura.saldo THEN 0 ELSE factura.saldo - m
    BY DEF ConNota
  <2> QED
    BY <1>3, <2>1, <2>2
<1>6. factura'.estado # "Anulado" => factura.estado # "Anulado"
  BY <1>3 DEF ConNota
<1>7. SumaFirme' = SumaFirme
  BY AplicarSinPago, SinPagoPaso
<1> QED
  BY <1>3, <1>4, <1>5, <1>6, <1>7 DEF SaldoFirme

LEMMA SaldoPago ==
  ASSUME TipoReal, TipoReal', InvImpacto, InvFirmes, SaldoFirme, [Next]_vars,
         NEW s \in Sesiones, Pago(s)
  PROVE  SaldoFirme'
<1>1. CASE InsertarPago(s) \/ NoAplicarPago(s) \/ \E m \in Importes : LeerPago(s, m)
  <2>1. SumaFirme' = SumaFirme
    BY <1>1, PagoEmpieza, PagoInserta
  <2>2. UNCHANGED <<factura, acreditado>>
    BY <1>1 DEF InsertarPago, NoAplicarPago, LeerPago, Empezar
  <2> QED
    BY <2>1, <2>2, SaldoQuieto
<1>2. CASE BorrarPago(s) /\ pagos' # pagos
  <2>1. SumaFirme' = SumaFirme
    BY <1>2, PagoBorra
  <2>2. UNCHANGED <<factura, acreditado>>
    BY <1>2 DEF BorrarPago
  <2> QED
    BY <2>1, <2>2, SaldoQuieto
<1>3. CASE BorrarPago(s) /\ pagos' = pagos
  <2>1. huerfano'
    BY <1>3, VueloDe DEF BorrarPago
  <2> QED
    BY <2>1 DEF SaldoFirme
<1> QED
  BY <1>1, <1>2, <1>3, SaldoAplicarPago DEF Pago

LEMMA SaldoPaso ==
  ASSUME TipoReal, TipoReal', InvImpacto, InvFirmes, SaldoFirme, [Next]_vars
  PROVE  SaldoFirme'
<1>1. ASSUME NEW s \in Sesiones, Ordinario(s) PROVE SaldoFirme'
  BY <1>1, OrdinarioSinPago, SinPagoPaso, SaldoQuieto DEF Ordinario
<1>2. ASSUME NEW s \in Sesiones, Anular(s) PROVE SaldoFirme'
  <2>1. CASE factura'.estado = "Anulado"
    BY <2>1 DEF SaldoFirme
  <2>2. CASE factura' = factura
    <3>1. acreditado' = acreditado
      BY <1>2 DEF Anular, LeerBaja, AnularPorBaja, LeerCancelar, CancelarFila,
         AnularPorCancelar, DeshacerCancelar, Empezar
    <3> QED
      BY <1>2, <2>2, <3>1, AnularSinPago, SinPagoPaso, SaldoQuieto
  <2> QED
    BY <1>2, <2>1, <2>2 DEF Anular, LeerBaja, AnularPorBaja, LeerCancelar, CancelarFila,
       AnularPorCancelar, DeshacerCancelar, EscribirFactura, Empezar
<1>3. ASSUME NEW s \in Sesiones, Crear(s) PROVE SaldoFirme'
  <2>1. UNCHANGED <<factura, acreditado>>
    BY <1>3 DEF Crear, LeerCrear, ValidarCrear, DetallarNc, BorrarNc, InsertarNc, Empezar
  <2> QED
    BY <1>3, <2>1, CrearSinPago, SinPagoPaso, SaldoQuieto
<1>4. ASSUME NEW s \in Sesiones, Documento(s) \/ Consulta(s) PROVE SaldoFirme'
  BY <1>1, <1>4, OrdinarioDocumento, OrdinarioConsulta, SaldoAplicarAprobacion
<1>5. ASSUME NEW s \in Sesiones, Fallar(s) \/ Caer(s) PROVE SaldoFirme'
  <2>1. CASE Caer(s) /\ sesion[s].paso \in PorAplicar
    BY <2>1 DEF Caer, PorAplicar, SaldoFirme
  <2> QED
    BY <1>1, <1>5, <2>1, OrdinarioResto
<1>6. CASE UNCHANGED <<factura, pagos, sesion, acreditado>>
  BY <1>6, FirmesQuietas, SaldoQuieto
<1>7. CASE VencerPlazo \/ UNCHANGED vars
  BY <1>6, <1>7 DEF VencerPlazo, vars
<1>8. ASSUME NEW n \in Notas, AnularBorrador(n) PROVE SaldoFirme'
  BY <1>6, <1>8 DEF AnularBorrador
<1>9. ASSUME NEW i \in 1..Len(lotes), Dictaminar(i) PROVE SaldoFirme'
  BY <1>6, <1>9 DEF Dictaminar
<1> QED
  BY <1>2, <1>3, <1>4, <1>5, <1>7, <1>8, <1>9, SaldoPago DEF Next

-----------------------------------------------------------------------------
(* What the closing rests on.  Nothing of it is lost by the requests that  *)
(* do not step, nor by the notes that get no electronic row.               *)
Avanza == Firmes <= Firmes' /\ (plazo' => plazo)

LEMMA FirmesEntero == TipoReal => Firmes \in Int
BY VueloTipo

LEMMA FirmesEnteroTras == TipoReal' => (Firmes \in Int)'
BY FirmesEntero, PTL

LEMMA FirmesCrecen ==
  ASSUME TipoReal, TipoReal', InvFirmes, Avanza
  PROVE  (Firmes' = 0 => Firmes = 0) /\ (Firmes > 0 => Firmes' > 0)
<1>1. Firmes \in Int /\ Firmes' \in Int
  BY FirmesEntero, FirmesEnteroTras
<1> QED
  BY <1>1 DEF InvFirmes, Avanza

LEMMA OtraSabe ==
  ASSUME TipoReal, TipoReal', InvFirmes, Avanza, NEW t \in Sesiones, Igual(t), CierreSabe(t)
  PROVE  CierreSabe(t)'
<1>1. (Firmes' = 0 => Firmes = 0) /\ (Firmes > 0 => Firmes' > 0) /\ (plazo' => plazo)
  BY FirmesCrecen DEF Avanza
<1>2. sesion[t].paso \in {"cancelar_fila", "cancelar_factura", "baja_anular"} =>
         sesion'[t].vieja \/ (factura' = factura /\ ~ sesion[t].vieja)
  BY DEF Igual, PasosFactura
<1> QED
  BY <1>1, <1>2 DEF Igual, CierreSabe

LEMMA NotasFirmes ==
  ASSUME TipoReal, TipoReal', InvFirmes, Avanza, \A n \in Notas : NotaQuieta(n),
         \A n \in Notas : NotaFirme(n)
  PROVE  \A n \in Notas : NotaFirme(n)'
BY FirmesCrecen DEF NotaFirme, NotaQuieta, Avanza

LEMMA FacturaFirme ==
  ASSUME TipoReal, TipoReal', InvFirmes, Avanza, factura' = factura,
         SaldoEntero, CorregidaFirme
  PROVE  SaldoEntero' /\ CorregidaFirme'
BY FirmesCrecen DEF SaldoEntero, CorregidaFirme, Avanza

(* A step of s that leaves the invoice alone.                              *)
LEMMA CierreSigue ==
  ASSUME TipoReal, TipoReal', InvFirmes, InvCierre, ~ pisado, Avanza, factura' = factura,
         NEW s \in Sesiones, \A t \in Sesiones \ {s} : Igual(t), CierreSabe(s)',
         \A n \in Notas : NotaQuieta(n)
  PROVE  InvCierre'
<1>1. \A t \in Sesiones : CierreSabe(t)'
  BY OtraSabe DEF InvCierre
<1> QED
  BY <1>1, NotasFirmes, FacturaFirme DEF InvCierre

(* A step that leaves nothing to know.                                     *)
Sabedores == {"crear_validar", "crear_insertar", "crear_detallar", "cancelar_fila",
              "cancelar_factura", "baja_anular"}

LEMMA NadaQueSaber ==
  ASSUME NEW s, sesion'[s].paso \notin Sabedores
  PROVE  CierreSabe(s)'
BY DEF CierreSabe, Sabedores

(* A firm payment settles the question.                                    *)
LEMMA CierrePagado ==
  ASSUME TipoReal, TipoReal', InvFirmes, InvCierre, ~ pisado, Avanza, Firmes' > 0,
         NEW s \in Sesiones, \A t \in Sesiones \ {s} : Igual(t), CierreSabe(s)'
  PROVE  InvCierre'
<1>1. \A t \in Sesiones : CierreSabe(t)'
  BY OtraSabe DEF InvCierre
<1>2. Firmes' # 0
  BY FirmesEnteroTras
<1> QED
  BY <1>1, <1>2 DEF InvCierre, SaldoEntero, CorregidaFirme, NotaFirme

LEMMA CierreOrdinario ==
  ASSUME TipoReal, TipoReal', InvFirmes, InvCierre, ~ pisado, NEW s \in Sesiones,
         Ordinario(s)
  PROVE  InvCierre'
<1>1. Firmes' = Firmes /\ Firmes \in Int
  BY OrdinarioSinPago, SinPagoPaso, FirmesEntero
<1>2. Avanza
  BY <1>1 DEF Avanza, Ordinario
<1>3. CierreSabe(s)'
  BY NadaQueSaber DEF Ordinario, SoloEsta, Atentos, Vigilados, Creando, Sabedores
<1> QED
  BY <1>2, <1>3, MismaIgual, CierreSigue DEF Ordinario, SoloEsta

LEMMA CierrePago ==
  ASSUME TipoReal, TipoReal', InvFirmes, InvCierre, ~ pisado, NEW s \in Sesiones,
         Pago(s) \/ (Caer(s) /\ sesion[s].paso \in PorAplicar)
  PROVE  InvCierre'
<1>i. Firmes \in Int /\ 0 <= Firmes /\ plazo' = plazo /\ nc' = nc
  BY FirmesEntero DEF InvFirmes, Pago, LeerPago, InsertarPago, AplicarPago,
     NoAplicarPago, BorrarPago, Caer, Empezar
<1>1. CASE \/ AplicarPago(s)
           \/ BorrarPago(s) /\ pagos' = pagos
           \/ Caer(s) /\ sesion[s].paso \in PorAplicar
  <2>1. /\ Firmes' = Firmes + 1
        /\ \A t \in Sesiones \ {s} : Igual(t)
        /\ sesion'[s].paso = "libre"
    BY <1>1, PagoQueda
  <2>2. Avanza /\ Firmes' > 0
    BY <1>i, <2>1 DEF Avanza
  <2>3. CierreSabe(s)'
    BY <2>1, NadaQueSaber DEF Sabedores
  <2> QED
    BY <2>1, <2>2, <2>3, CierrePagado
<1>2. CASE \/ InsertarPago(s) \/ NoAplicarPago(s) \/ \E m \in Importes : LeerPago(s, m)
           \/ BorrarPago(s) /\ pagos' # pagos
  <2>1. /\ Firmes' = Firmes
        /\ \A t \in Sesiones \ {s} : Igual(t)
        /\ sesion'[s].paso \in {"libre", "pago_insertar"} \cup PorAplicar
    BY <1>2, PagoEmpieza, PagoInserta, PagoBorra
  <2>2. factura' = factura
    BY <1>2 DEF InsertarPago, NoAplicarPago, LeerPago, BorrarPago, Empezar
  <2>3. Avanza
    BY <1>i, <2>1 DEF Avanza
  <2>4. CierreSabe(s)'
    BY <2>1, NadaQueSaber DEF Sabedores, PorAplicar
  <2> QED
    BY <1>i, <2>1, <2>2, <2>3, <2>4, MismasNotas, CierreSigue
<1> QED
  BY <1>1, <1>2 DEF Pago

(* A step with no payment under way.                                       *)
LEMMA AvanzaSinPago ==
  ASSUME TipoReal, TipoReal', InvFirmes, NEW s \in Sesiones, SinPago(s), plazo' = plazo
  PROVE  Avanza /\ Firmes' = Firmes /\ \A t \in Sesiones \ {s} : Igual(t)
<1>1. Firmes' = Firmes /\ Firmes \in Int
  BY SinPagoPaso, FirmesEntero
<1> QED
  BY <1>1 DEF Avanza, SinPago

(* What voids the invoice.                                                 *)
LEMMA CierreEmpezar ==
  ASSUME TipoReal, TipoReal', InvFirmes, InvCierre, ~ pisado, NEW s \in Sesiones,
         LeerBaja(s) \/ LeerCancelar(s)
  PROVE  InvCierre'
<1>1. PICK p \in {"baja_anular", "cancelar_fila"} :
          /\ Empezar(s, [Libre EXCEPT !.paso = p])
          /\ p = "baja_anular" => LeerBaja(s)
          /\ p = "cancelar_fila" => LeerCancelar(s)
  BY DEF LeerBaja, LeerCancelar
<1> DEFINE r == [Libre EXCEPT !.paso = p]
<1>2. r.paso = p
  BY DEF Libre
<1>3. /\ sesion' = [sesion EXCEPT ![s] = r]
      /\ UNCHANGED <<factura, plazo, pagos, nc>>
  BY <1>1 DEF Empezar
<1> HIDE DEF r
<1>4. sesion'[s] = r
  BY <1>3, MoverIguales
<1>5. Avanza /\ Firmes' = Firmes /\ \A t \in Sesiones \ {s} : Igual(t)
  BY <1>3, AnularSinPago, AvanzaSinPago DEF Anular
<1>6. p = "baja_anular" => factura.estado \notin Cerrados
  <2>1. LeerBaja(s) => factura.saldo # 0
    BY SaldoTipo DEF LeerBaja, TipoReal
  <2> QED
    BY <1>1, <2>1 DEF TipoReal, Cuadra, Cerrados
<1>7. p = "cancelar_fila" => factura.estado # "Corregida NC"
  <2>1. LeerCancelar(s) => plazo /\ pagos.n = 0
    BY DEF LeerCancelar, Cancelable
  <2>2. pagos.n = 0 => ~ (Firmes > 0)
    BY VueloTipo DEF Firmes
  <2> QED
    BY <1>1, <2>1, <2>2 DEF InvCierre, CorregidaFirme
<1>8. CierreSabe(s)'
  BY <1>2, <1>3, <1>4, <1>6, <1>7 DEF CierreSabe
<1> QED
  BY <1>3, <1>5, <1>8, MismasNotas, CierreSigue

LEMMA CierreAnulada ==
  ASSUME TipoReal, TipoReal', InvFirmes, InvCierre, ~ pisado, NEW s \in Sesiones,
         SinPago(s), plazo' = plazo, nc' = nc,
         EscribirFactura(s, [estado |-> "Anulado", saldo |-> 0], "libre")
  PROVE  InvCierre'
<1>1. Avanza /\ \A t \in Sesiones \ {s} : Igual(t)
  BY AvanzaSinPago
<1>2. sesion'[s].paso = "libre"
  BY EnvejecerIguales DEF EscribirFactura
<1>3. \A t \in Sesiones : CierreSabe(t)'
  BY <1>1, <1>2, OtraSabe, NadaQueSaber DEF InvCierre, Sabedores
<1>4. factura'.saldo = 0 /\ factura'.estado = "Anulado"
  BY DEF EscribirFactura
<1>5. \A n \in Notas : NotaFirme(n)'
  BY <1>1, MismasNotas, NotasFirmes DEF InvCierre
<1> QED
  BY <1>3, <1>4, <1>5 DEF InvCierre, SaldoEntero, CorregidaFirme

LEMMA CierreCancelarFila ==
  ASSUME TipoReal, TipoReal', InvFirmes, InvCierre, ~ pisado, NEW s \in Sesiones,
         CancelarFila(s), Ir(s, "cancelar_factura")
  PROVE  InvCierre'
<1>1. UNCHANGED <<factura, plazo, pagos, nc>> /\ sesion[s].paso = "cancelar_fila"
  BY DEF CancelarFila, En
<1>2. Avanza /\ \A t \in Sesiones \ {s} : Igual(t)
  BY <1>1, AnularSinPago, AvanzaSinPago DEF Anular
<1>3. PICK r : r = [sesion[s] EXCEPT !.paso = "cancelar_factura"]
  OBVIOUS
<1>4. sesion'[s] = r
  BY <1>3 DEF Ir, Pasar, TipoReal
<1>5. r.paso = "cancelar_factura" /\ r.vieja = sesion[s].vieja
  BY <1>3, EnMano DEF Registro
<1>6. CierreSabe(s)'
  BY <1>1, <1>4, <1>5 DEF CierreSabe, InvCierre
<1> QED
  BY <1>1, <1>2, <1>6, MismasNotas, CierreSigue

LEMMA CierreAnular ==
  ASSUME TipoReal, TipoReal', InvFirmes, InvCierre, ~ pisado, NEW s \in Sesiones, Anular(s)
  PROVE  InvCierre'
<1>1. CASE AnularPorBaja(s)
  BY <1>1, AnularSinPago, CierreAnulada DEF Anular, AnularPorBaja
<1>2. CASE CancelarFila(s)
  BY <1>2, CierreCancelarFila, OrdinarioResto, CierreOrdinario DEF CancelarFila, Seguir
<1>3. CASE AnularPorCancelar(s)
  <2>1. CASE Ir(s, "cancelar_deshacer")
    BY <1>3, <2>1, OrdinarioResto, CierreOrdinario
  <2>2. CASE EscribirFactura(s, [estado |-> "Anulado", saldo |-> 0], "libre")
    BY <1>3, <2>2, AnularSinPago, CierreAnulada DEF Anular, AnularPorCancelar
  <2> QED
    BY <1>3, <2>1, <2>2 DEF AnularPorCancelar
<1>4. CASE DeshacerCancelar(s)
  BY <1>4, OrdinarioResto, CierreOrdinario
<1> QED
  BY <1>1, <1>2, <1>3, <1>4, CierreEmpezar DEF Anular

(* The draft of a note.  A payment under way weighs at least one.          *)
LEMMA VueloPesa ==
  ASSUME TipoReal, InvFirmes
  PROVE  SumFunction(FilasEnVuelo) <= SumFunction(EnVuelo)
<1> DEFINE f == FilasEnVuelo
           h == EnVuelo
           d == [t \in Sesiones |-> h[t] - f[t]]
<1>1. f \in [Sesiones -> Nat] /\ h \in [Sesiones -> Nat]
  BY VueloTipo
<1>2. ASSUME NEW t \in Sesiones PROVE h[t] - f[t] \in Nat
  <2>1. CASE sesion[t].paso \in PorAplicar
    <3>1. h[t] = sesion[t].monto /\ f[t] = 1 /\ sesion[t].monto \in Nat
      BY <2>1, VueloDe
    <3>2. sesion[t].monto > 0
      BY <2>1 DEF InvFirmes, PagoSabe
    <3> QED
      BY <3>1, <3>2
  <2>2. CASE sesion[t].paso \notin PorAplicar
    BY <2>2, VueloDe
  <2> QED
    BY <2>1, <2>2
<1> HIDE DEF f, h
<1>3. d \in [Sesiones -> Nat] /\ d \in [Sesiones -> Int]
  BY <1>2
<1>4. \A t \in Sesiones : h[t] = f[t] + d[t]
  BY <1>1
<1>5. f \in [Sesiones -> Int] /\ h \in [Sesiones -> Int]
  BY <1>1
<1> HIDE DEF d
<1>6. SumFunction(h) = SumFunction(f) + SumFunction(d)
  BY <1>3, <1>4, <1>5, FacturasAssumption, SumaMas
<1>7. SumFunction(d) \in Nat
  BY <1>3, FacturasAssumption, SumaCota
<1>8. SumFunction(f) \in Int
  BY <1>5, FacturasAssumption, SumaTipo
<1>9. SumFunction(f) <= SumFunction(h)
  BY <1>6, <1>7, <1>8
<1> QED
  BY <1>9 DEF f, h

LEMMA CierreLeerCrear ==
  ASSUME TipoReal, TipoReal', InvFirmes, InvCierre, ~ pisado, NEW s \in Sesiones,
         LeerCrear(s)
  PROVE  InvCierre'
<1> DEFINE r == [Libre EXCEPT !.paso = "crear_validar", !.monto = factura.saldo]
<1>1. r.paso = "crear_validar" /\ r.monto = factura.saldo
  BY DEF Libre
<1>2. /\ sesion' = [sesion EXCEPT ![s] = r] /\ factura.saldo > 0
      /\ UNCHANGED <<factura, plazo, pagos, nc>>
  BY DEF LeerCrear, Empezar
<1> HIDE DEF r
<1>3. sesion'[s] = r
  BY <1>2, MoverIguales
<1>4. Avanza /\ Firmes' = Firmes /\ \A t \in Sesiones \ {s} : Igual(t)
  BY <1>2, CrearSinPago, AvanzaSinPago DEF Crear
<1>5. Firmes' = 0 => factura.saldo = Monto
  BY <1>2, <1>4 DEF InvCierre, SaldoEntero
<1>6. CierreSabe(s)'
  BY <1>1, <1>3, <1>5 DEF CierreSabe
<1> QED
  BY <1>2, <1>4, <1>6, MismasNotas, CierreSigue

(* Within the term a note needs a payment, and the amount says that it is  *)
(* firm: one still under way would have made the amount differ.            *)
LEMMA CierreValidarCrear ==
  ASSUME TipoReal, TipoReal', InvFirmes, InvCierre, ~ pisado, NEW s \in Sesiones,
         ValidarCrear(s)
  PROVE  InvCierre'
<1>1. /\ UNCHANGED <<factura, plazo, pagos, nc>> /\ sesion[s].paso = "crear_validar"
      /\ Ir(s, "crear_insertar") /\ (plazo => pagos.n # 0)
      /\ sesion[s].monto = IF pagos.suma > Monto THEN 0 ELSE Monto - pagos.suma
  BY DEF ValidarCrear, En
<1>2. Avanza /\ Firmes' = Firmes /\ \A t \in Sesiones \ {s} : Igual(t)
  BY <1>1, CrearSinPago, AvanzaSinPago DEF Crear
<1>3. sesion'[s].paso = "crear_insertar"
  BY <1>1, PasoDePasar DEF Ir, TipoReal
<1>4. ASSUME plazo, Firmes = 0 PROVE FALSE
  <2> DEFINE filas == SumFunction(FilasEnVuelo)
             suma == SumFunction(EnVuelo)
  <2>1. filas \in Nat /\ suma \in Nat /\ filas <= suma
    BY VueloTipo, VueloPesa
  <2>2. pagos.n \in Int /\ pagos.suma \in Int /\ Monto \in Nat \ {0}
    BY FacturasAssumption DEF TipoReal
  <2>3. pagos.n - filas = 0 /\ 0 <= pagos.suma - suma
    BY <1>4 DEF Firmes, InvFirmes, SumaFirme
  <2> HIDE DEF filas, suma
  <2>4. pagos.suma > 0
    BY <1>1, <1>4, <2>1, <2>2, <2>3
  <2>5. sesion[s].monto = Monto
    BY <1>1, <1>4 DEF InvCierre, CierreSabe
  <2> QED
    BY <1>1, <2>2, <2>4, <2>5
<1>5. plazo => Firmes > 0
  BY <1>4, FirmesEntero DEF InvFirmes
<1>6. CierreSabe(s)'
  BY <1>1, <1>2, <1>3, <1>5 DEF CierreSabe
<1> QED
  BY <1>1, <1>2, <1>6, MismasNotas, CierreSigue

LEMMA CierreInsertarNc ==
  ASSUME TipoReal, TipoReal', InvFirmes, InvCierre, ~ pisado, NEW s \in Sesiones,
         NEW n \in Notas, InsertarNc(s, n)
  PROVE  InvCierre'
<1> DEFINE r == [Libre EXCEPT !.paso = "crear_detallar", !.nota = n]
<1>1. r.paso = "crear_detallar"
  BY DEF Libre
<1>2. /\ sesion' = [sesion EXCEPT ![s] = r] /\ sesion[s].paso = "crear_insertar"
      /\ UNCHANGED <<factura, plazo, pagos>>
  BY DEF InsertarNc, En
<1> HIDE DEF r
<1>3. sesion'[s] = r
  BY <1>2, MoverIguales
<1>4. Avanza /\ Firmes' = Firmes /\ \A t \in Sesiones \ {s} : Igual(t)
  BY <1>2, CrearSinPago, AvanzaSinPago DEF Crear
<1>5. CierreSabe(s)'
  BY <1>1, <1>2, <1>3, <1>4 DEF CierreSabe, InvCierre
<1>6. \A t \in Sesiones : CierreSabe(t)'
  BY <1>4, <1>5, OtraSabe DEF InvCierre
<1>7. \A m \in Notas : nc'[m].ne = nc[m].ne
  BY DEF InsertarNc, TipoReal, NotaReal
<1>8. \A m \in Notas : NotaFirme(m)'
  BY <1>2, <1>4, <1>7 DEF InvCierre, NotaFirme
<1> QED
  BY <1>2, <1>4, <1>6, <1>8, FacturaFirme DEF InvCierre

LEMMA CierreDetallarNc ==
  ASSUME TipoReal, TipoReal', InvFirmes, InvCierre, ~ pisado, NEW s \in Sesiones,
         DetallarNc(s)
  PROVE  InvCierre'
<1>1. /\ sesion[s].paso = "crear_detallar" /\ UNCHANGED <<factura, plazo, pagos>>
      /\ nc' = nc \/ nc' = [nc EXCEPT ![N(s)].ne = "sin_envio"]
  BY DEF DetallarNc, En
<1>2. PICK p \in {"libre", "crear_borrar"} : Ir(s, p)
  BY DEF DetallarNc, Seguir
<1>3. sesion'[s].paso \notin Sabedores
  BY <1>1, <1>2, IrIguales DEF Sabedores
<1>4. Avanza /\ Firmes' = Firmes /\ \A t \in Sesiones \ {s} : Igual(t)
  BY <1>1, CrearSinPago, AvanzaSinPago DEF Crear
<1>5. \A t \in Sesiones : CierreSabe(t)'
  BY <1>3, <1>4, OtraSabe, NadaQueSaber DEF InvCierre
<1>6. plazo => Firmes > 0
  BY <1>1 DEF InvCierre, CierreSabe
<1>7. \A m \in Notas : NotaFirme(m)'
  BY <1>1, <1>4, <1>6 DEF NotaFirme
<1> QED
  BY <1>1, <1>4, <1>5, <1>7, FacturaFirme DEF InvCierre

LEMMA CierreCrear ==
  ASSUME TipoReal, TipoReal', InvFirmes, InvCierre, ~ pisado, NEW s \in Sesiones, Crear(s)
  PROVE  InvCierre'
BY CierreLeerCrear, CierreValidarCrear, CierreInsertarNc, CierreDetallarNc, OrdinarioResto,
   CierreOrdinario DEF Crear

-----------------------------------------------------------------------------
(* The approval settles the invoice for good: the note is for the balance. *)
LEMMA CierreAplicar ==
  ASSUME TipoReal, TipoReal', InvImpacto, InvFirmes, InvCierre, ~ pisado,
         NEW s \in Sesiones, AplicarAprobacion(s)
  PROVE  InvCierre'
<1>1. PICK n \in Notas : n = N(s)
  BY NotaDe DEF AplicarAprobacion, En, PasosConNota, PasosNota
<1>2. /\ nc[n].ne # "nada" /\ nc[n].monto <= factura.saldo /\ plazo' = plazo
      /\ factura' = ConNota(factura, nc[n].monto) /\ Envejecer(s, "libre")
      /\ nc' = [nc EXCEPT ![n].ne = "aprobado", ![n].impactos = @ + 1,
                          ![n].erp = IF @ = "anulada_borrador" THEN @ ELSE "aprobada"]
  BY <1>1 DEF AplicarAprobacion, Aplicable
<1>3. factura.saldo \in Nat /\ nc[n].monto \in Nat
  BY SaldoTipo, NotaMontoTipo DEF TipoReal
<1>4. nc[n].monto = factura.saldo
  BY <1>2, <1>3 DEF InvImpacto, NotaVale, Vale
<1>5. factura'.saldo = 0
  <2>1. ASSUME NEW m \in Nat, m = factura.saldo PROVE ConNota(factura, m).saldo = 0
    BY <1>3, <2>1 DEF ConNota
  <2> QED
    BY <1>2, <1>3, <1>4, <2>1
<1>6. Avanza /\ Firmes' = Firmes /\ \A t \in Sesiones \ {s} : Igual(t)
  BY <1>2, AplicarSinPago, AvanzaSinPago
<1>7. sesion'[s].paso = "libre"
  BY <1>2, EnvejecerIguales
<1>8. \A t \in Sesiones : CierreSabe(t)'
  BY <1>6, <1>7, OtraSabe, NadaQueSaber DEF InvCierre, Sabedores
<1>9. plazo => Firmes > 0
  BY <1>2 DEF InvCierre, NotaFirme
<1>10. (\A m \in Notas : NotaFirme(m)') /\ CorregidaFirme'
  BY <1>2, <1>6, <1>9 DEF NotaFirme, CorregidaFirme
<1> QED
  BY <1>5, <1>8, <1>10 DEF InvCierre, SaldoEntero

LEMMA CierrePaso ==
  ASSUME TipoReal, TipoReal', InvImpacto, InvFirmes, InvCierre, [Next]_vars
  PROVE  InvCierre'
<1> SUFFICES ASSUME ~ pisado PROVE InvCierre'
  BY PisadoQueda DEF InvCierre
<1>1. ASSUME NEW s \in Sesiones, Documento(s) \/ Consulta(s) PROVE InvCierre'
  BY <1>1, OrdinarioDocumento, OrdinarioConsulta, CierreOrdinario, CierreAplicar
<1>2. ASSUME NEW s \in Sesiones, Fallar(s) \/ Caer(s) PROVE InvCierre'
  BY <1>2, OrdinarioResto, CierreOrdinario, CierrePago
<1>3. CASE UNCHANGED <<factura, pagos, sesion>> /\ (plazo' => plazo)
           /\ \A n \in Notas : NotaQuieta(n)
  <2>1. Avanza
    BY <1>3, FirmesQuietas, FirmesEntero DEF Avanza
  <2>2. \A t \in Sesiones : CierreSabe(t)'
    BY <1>3, <2>1, MismaIgual, OtraSabe DEF InvCierre
  <2> QED
    BY <1>3, <2>1, <2>2, NotasFirmes, FacturaFirme DEF InvCierre
<1>4. CASE VencerPlazo \/ UNCHANGED vars
  BY <1>3, <1>4, MismasNotas DEF VencerPlazo, vars
<1>5. ASSUME NEW n \in Notas, AnularBorrador(n) PROVE InvCierre'
  BY <1>3, <1>5, ErpQuieto DEF AnularBorrador
<1>6. ASSUME NEW i \in 1..Len(lotes), Dictaminar(i) PROVE InvCierre'
  BY <1>3, <1>6, MismasNotas DEF Dictaminar
<1> QED
  BY <1>1, <1>2, <1>4, <1>5, <1>6, CierrePago, CierreAnular, CierreCrear DEF Next

-----------------------------------------------------------------------------
InvSaldo == InvImpacto /\ InvFirmes /\ SaldoFirme /\ InvCierre

LEMMA SaldoInicial == Init => InvSaldo
<1> SUFFICES ASSUME Init PROVE InvSaldo
  OBVIOUS
<1>1. /\ \A s \in Sesiones : sesion[s].paso = "libre"
      /\ \A n \in Notas : nc[n].ne = "nada"
      /\ factura = Abierta /\ pagos.n = 0 /\ pagos.suma = 0 /\ acreditado = 0
  BY DEF Init, Libre, SinNota
<1>2. /\ EnVuelo \in [Sesiones -> Int] /\ FilasEnVuelo \in [Sesiones -> Int]
      /\ \A t \in Sesiones : EnVuelo[t] = 0 /\ FilasEnVuelo[t] = 0
  BY <1>1 DEF EnVuelo, FilasEnVuelo, PorAplicar
<1>3. SumFunction(EnVuelo) = 0 /\ SumFunction(FilasEnVuelo) = 0
  BY <1>2, FacturasAssumption, SumaCero
<1>4. Firmes = 0 /\ SumaFirme = 0
  BY <1>1, <1>3 DEF Firmes, SumaFirme
<1>5. InvFirmes
  BY <1>1, <1>4 DEF InvFirmes, PagoSabe, Pagando, PorAplicar
<1>6. SaldoFirme
  BY <1>1, <1>4, FacturasAssumption DEF SaldoFirme, Abierta
<1>7. InvCierre
  BY <1>1, <1>4 DEF InvCierre, SaldoEntero, CorregidaFirme, NotaFirme, CierreSabe, Abierta
<1> QED
  BY <1>5, <1>6, <1>7, ImpactoInicial DEF InvSaldo

(* The invariant: the balance is the total less the firm payments and the  *)
(* credit, and what is closed while the term runs has a firm payment.      *)
THEOREM InvarianteDelSaldo == Spec => [](TipoReal /\ InvSaldo)
<1>1. Init => TipoReal /\ InvSaldo
  BY TipoInicial, SaldoInicial
<1>2. TipoReal /\ InvSaldo /\ [Next]_vars => (TipoReal /\ InvSaldo)'
  <2> SUFFICES ASSUME TipoReal, InvSaldo, [Next]_vars PROVE (TipoReal /\ InvSaldo)'
    OBVIOUS
  <2>1. TipoReal'
    BY TipoPaso
  <2> QED
    BY <2>1, ImpactoPaso, FirmesSiguen, SaldoPaso, CierrePaso DEF InvSaldo
<1> QED
  BY <1>1, <1>2, PTL DEF Spec

LEMMA SaldoBasta == TipoReal /\ SaldoFirme => SaldoCuadra
<1> SUFFICES ASSUME TipoReal, SaldoFirme, factura.estado # "Anulado", ~ pisado, ~ huerfano,
                    \A s \in Sesiones : sesion[s].paso \notin PorAplicar
             PROVE  factura.saldo = Monto - pagos.suma - acreditado
  BY DEF SaldoCuadra, PorAplicar
<1>1. EnVuelo \in [Sesiones -> Int] /\ \A t \in Sesiones : EnVuelo[t] = 0
  BY DEF EnVuelo
<1>2. SumFunction(EnVuelo) = 0
  BY <1>1, FacturasAssumption, SumaCero
<1>3. SumaFirme = pagos.suma
  BY <1>2 DEF SumaFirme, TipoReal
<1> QED
  BY <1>3 DEF SaldoFirme

(* With no payment under way, the balance of an invoice in force is its    *)
(* total less its payments and the credit, unless a payment row was left   *)
(* behind or a request wrote the invoice over a change it had not seen.    *)
THEOREM ElSaldoCuadra == Spec => []SaldoCuadra
<1>1. TipoReal /\ InvSaldo => SaldoCuadra
  BY SaldoBasta DEF InvSaldo
<1> QED
  BY <1>1, InvarianteDelSaldo, PTL

-----------------------------------------------------------------------------
(* Who writes a closed invoice had not seen it closed.                     *)
LEMMA CerradaPaso ==
  ASSUME TipoReal, TipoReal', InvSaldo, [Next]_vars, factura.estado \in Cerrados, ~ pisado'
  PROVE  factura' = factura
<1>p. ~ pisado
  BY PisadoQueda
<1>s. factura.saldo = 0 /\ factura \in Factura
  BY DEF TipoReal, Cuadra, Cerrados
<1>1. ASSUME NEW s \in Sesiones, AplicarPago(s) PROVE FALSE
  <2>1. ~ sesion[s].vieja /\ sesion[s].paso = "pago_aplicar"
    BY <1>1 DEF AplicarPago, EscribirFactura, En
  <2>2. sesion[s].leida = factura /\ sesion[s].leida.estado \notin Cerrados
    BY <1>p, <2>1 DEF InvSaldo, InvImpacto, SesionVale, InvFirmes, PagoSabe, Pagando
  <2> QED
    BY <2>2
<1>2. ASSUME NEW s \in Sesiones, AnularPorBaja(s) PROVE FALSE
  <2>1. ~ sesion[s].vieja /\ sesion[s].paso = "baja_anular"
    BY <1>2 DEF AnularPorBaja, EscribirFactura, En
  <2> QED
    BY <1>p, <2>1 DEF InvSaldo, InvCierre, CierreSabe
<1>3. ASSUME NEW s \in Sesiones, AnularPorCancelar(s) PROVE factura' = factura
  <2>1. CASE factura' = [estado |-> "Anulado", saldo |-> 0] /\ ~ sesion[s].vieja
    <3>1. factura.estado # "Corregida NC"
      BY <1>3, <1>p, <2>1 DEF InvSaldo, InvCierre, CierreSabe, AnularPorCancelar, En
    <3>2. factura.estado = "Anulado"
      BY <3>1 DEF Cerrados
    <3> QED
      BY <1>s, <2>1, <3>2 DEF Factura
  <2> QED
    BY <1>3, <2>1 DEF AnularPorCancelar, EscribirFactura
<1>4. ASSUME NEW s \in Sesiones, AplicarAprobacion(s) PROVE FALSE
  <2>1. PICK n \in Notas : n = N(s)
    BY <1>4, NotaDe DEF AplicarAprobacion, En, PasosConNota, PasosNota
  <2>2. nc[n].ne # "nada" /\ nc[n].monto <= factura.saldo /\ nc[n].monto \in Nat
    BY <1>4, <2>1, NotaMontoTipo DEF AplicarAprobacion, Aplicable
  <2>3. nc[n].monto > 0
    BY <1>p, <2>2 DEF InvSaldo, InvImpacto, NotaVale, Vale
  <2> QED
    BY <1>s, <2>2, <2>3
<1>5. ASSUME NEW s \in Sesiones, Ordinario(s) PROVE factura' = factura
  BY <1>5 DEF Ordinario
<1>6. ASSUME NEW s \in Sesiones, Pago(s) PROVE factura' = factura
  BY <1>1, <1>6 DEF Pago, LeerPago, InsertarPago, NoAplicarPago, BorrarPago, Empezar
<1>7. ASSUME NEW s \in Sesiones, Anular(s) PROVE factura' = factura
  BY <1>2, <1>3, <1>7 DEF Anular, LeerBaja, LeerCancelar, CancelarFila, DeshacerCancelar,
     Empezar
<1>8. ASSUME NEW s \in Sesiones, Crear(s) PROVE factura' = factura
  BY <1>8 DEF Crear, LeerCrear, ValidarCrear, DetallarNc, BorrarNc, InsertarNc, Empezar
<1>9. ASSUME NEW s \in Sesiones, Documento(s) \/ Consulta(s) PROVE factura' = factura
  BY <1>4, <1>5, <1>9, OrdinarioDocumento, OrdinarioConsulta
<1>10. ASSUME NEW s \in Sesiones, Fallar(s) \/ Caer(s) PROVE factura' = factura
  BY <1>10 DEF Fallar, Caer
<1>11. CASE VencerPlazo \/ UNCHANGED vars
  BY <1>11 DEF VencerPlazo, vars
<1> QED
  BY <1>6, <1>7, <1>8, <1>9, <1>10, <1>11 DEF Next, AnularBorrador, Dictaminar

(* What voids or settles the invoice is the last word on it: no step       *)
(* changes it afterwards, except a write over a change not seen.           *)
THEOREM LoCerradoNoReabre == Spec => CerradaNoReabre
<1>1. TipoReal /\ TipoReal' /\ InvSaldo /\ [Next]_vars =>
        [factura.estado \in {"Anulado", "Corregida NC"} /\ factura' # factura => pisado']_vars
  BY CerradaPaso DEF Cerrados
<1> QED
  BY <1>1, InvarianteDelSaldo, PTL DEF Spec, CerradaNoReabre

=============================================================================
