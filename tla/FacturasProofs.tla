--------------------------- MODULE FacturasProofs ---------------------------
(***************************************************************************)
(* What TLAPS proves of Facturas, for any number of sessions, notes,       *)
(* payments and lots: the types, with the agreement of state and balance,  *)
(* and that only a note SET approved is ever taken off the balance.        *)
(***************************************************************************)
EXTENDS Facturas, SequenceTheorems, TLAPS

(***************************************************************************)
(* Types.  A request reuses its field monto: the amount of a payment, the  *)
(* total of a note or the lot SET numbered; Apta says which at which step. *)
(***************************************************************************)
Lotes == 0..Len(lotes)

Lote == [nota : Notas, res : {"pendiente", "aprobado", "rechazado"}]

NotaReal == [erp : EstadosErp, monto : 0..Monto, ne : EstadosNe, prot : Lotes,
             impactos : Nat]

PasosConNota == PasosNota \ {"crear_validar", "crear_insertar"}

Apta(r) ==
    /\ r.paso \in PasosConNota => r.nota \in Notas
    /\ r.paso \in {"pago_insertar", "pago_aplicar"} => r.monto <= r.leida.saldo
    /\ r.paso \in {"crear_validar", "crear_insertar"} => r.monto <= Monto
    /\ r.paso \in {"enviar_soap", "enviar_fila"} => r.monto \in Lotes
    /\ r.paso = "consulta_soap" => r.prot # 0
    /\ r.paso = "consulta_fila" => r.resp \in EstadosNe

Registro == [paso : Pasos, nota : Notas \cup {Ninguna}, leida : Factura, ne : EstadosNe,
             prot : Lotes, monto : Nat, resp : EstadosNe \cup {"encolado"},
             vieja : BOOLEAN]

Peticion == {r \in Registro : Apta(r)}

Cuadra(f) == f.saldo = 0 <=> f.estado \in {"Pagado", "Anulado", "Corregida NC"}

TipoReal ==
    /\ factura \in Factura /\ Cuadra(factura)
    /\ fe \in {"aprobado", "cancelado"}
    /\ plazo \in BOOLEAN
    /\ pagos \in [n : Int, suma : Int]
    /\ nc \in [Notas -> NotaReal]
    /\ lotes \in Seq(Lote) /\ Len(lotes) <= MaxLotes
    /\ sesion \in [Sesiones -> Peticion]
    /\ acreditado \in Nat
    /\ pisado \in BOOLEAN /\ huerfano \in BOOLEAN

LEMMA TipoBasta == TipoReal => TypeOK /\ EstadoSegunSaldo
<1> SUFFICES ASSUME TipoReal PROVE TypeOK /\ EstadoSegunSaldo
  OBVIOUS
<1>1. Lotes \subseteq 0..MaxLotes
  BY FacturasAssumption DEF TipoReal, Lotes
<1>2. NotaReal \subseteq Nota
  BY <1>1 DEF NotaReal, Nota
<1>3. Peticion \subseteq
          [paso : Pasos, nota : Notas \cup {Ninguna}, leida : Factura, ne : EstadosNe,
           prot : 0..MaxLotes, monto : Nat, resp : EstadosNe \cup {"encolado"},
           vieja : BOOLEAN]
  BY <1>1 DEF Peticion, Registro
<1> QED
  BY <1>2, <1>3 DEF TipoReal, TypeOK, EstadoSegunSaldo, Cuadra, Lote

LEMMA MontoNatural == Monto \in Nat /\ 0 \in 0..Monto
BY FacturasAssumption

LEMMA SaldoTipo ==
  ASSUME NEW f \in Factura
  PROVE  f.saldo \in 0..Monto /\ f.saldo \in Nat
<1>1. f.saldo \in 0..Monto
  BY DEF Factura
<1> QED
  BY <1>1, MontoNatural

LEMMA CeroEsLote ==
  ASSUME TipoReal
  PROVE  0 \in Lotes /\ Len(lotes) \in Nat
BY DEF TipoReal, Lotes

LEMMA AbiertaTipo == Abierta \in Factura /\ Cuadra(Abierta)
BY FacturasAssumption DEF Abierta, Factura, Cuadra

LEMMA LibreTipo ==
  ASSUME TipoReal
  PROVE  Libre \in Peticion
<1>1. Libre \in Registro
  BY CeroEsLote, AbiertaTipo DEF Libre, Registro, Pasos, EstadosNe
<1>2. Apta(Libre)
  BY DEF Libre, Apta, PasosConNota, PasosNota
<1> QED
  BY <1>1, <1>2 DEF Peticion

(* What a request holds.                                                   *)
LEMMA EnMano ==
  ASSUME TipoReal, NEW s \in Sesiones
  PROVE  /\ sesion[s] \in Peticion
         /\ sesion[s] \in Registro
         /\ Apta(sesion[s])
BY DEF TipoReal, Peticion

(* The steps a handler goes through with Ir, from one to the next.         *)
Sigue(a, p) ==
    /\ p \in Pasos \ {"pago_insertar", "crear_validar", "enviar_soap", "consulta_soap",
                      "consulta_rpc", "consulta_fila"}
    /\ p = "pago_aplicar" => a = "pago_insertar"
    /\ p = "crear_insertar" => a = "crear_validar"
    /\ p = "enviar_fila" => a = "enviar_soap"
    /\ p \in PasosConNota => a \in PasosConNota

LEMMA PasarTipo ==
  ASSUME TipoReal, NEW s \in Sesiones, NEW p, Sigue(sesion[s].paso, p)
  PROVE  Pasar(s, p) \in Peticion
<1>z. sesion[s] \in Registro /\ Apta(sesion[s])
  BY EnMano
<1>p. p \in Pasos
  BY DEF Sigue
<1>l. Libre \in Registro
  BY LibreTipo DEF Peticion
<1>1. CASE p = "libre"
  BY <1>1, LibreTipo DEF Pasar
<1>2. CASE p \in {"reponer", "consulta_erp"}
  <2> DEFINE r == [Libre EXCEPT !.paso = p, !.nota = N(s), !.ne = sesion[s].ne]
  <2>1. Pasar(s, p) = r
    BY <1>2 DEF Pasar
  <2>2. r \in Registro /\ r.paso = p /\ r.nota = sesion[s].nota
    BY <1>z, <1>p, <1>l DEF Registro, N
  <2> HIDE DEF r
  <2>3. sesion[s].nota \in Notas
    BY <1>2, <1>z DEF Sigue, Apta, PasosConNota, PasosNota
  <2>4. Apta(r)
    BY <1>2, <2>2, <2>3 DEF Apta
  <2> QED
    BY <2>1, <2>2, <2>4 DEF Peticion
<1>3. CASE p \in {"xml_erp", "enviar_erp"}
  <2> DEFINE r == [Libre EXCEPT !.paso = p, !.nota = N(s)]
  <2>1. Pasar(s, p) = r
    BY <1>3 DEF Pasar
  <2>2. r \in Registro /\ r.paso = p /\ r.nota = sesion[s].nota
    BY <1>z, <1>p, <1>l DEF Registro, N
  <2> HIDE DEF r
  <2>3. sesion[s].nota \in Notas
    BY <1>3, <1>z DEF Sigue, Apta, PasosConNota, PasosNota
  <2>4. Apta(r)
    BY <1>3, <2>2, <2>3 DEF Apta
  <2> QED
    BY <2>1, <2>2, <2>4 DEF Peticion
<1>4. CASE p \notin {"libre", "reponer", "consulta_erp", "xml_erp", "enviar_erp"}
  <2> DEFINE r == [sesion[s] EXCEPT !.paso = p]
  <2>1. Pasar(s, p) = r
    BY <1>4 DEF Pasar, Sigue
  <2>2. /\ r \in Registro /\ r.paso = p /\ r.nota = sesion[s].nota
        /\ r.monto = sesion[s].monto /\ r.leida = sesion[s].leida
        /\ r.prot = sesion[s].prot /\ r.resp = sesion[s].resp
    BY <1>z, <1>p DEF Registro
  <2> HIDE DEF r
  <2>3. Apta(r)
    BY <1>z, <2>2 DEF Apta, Sigue
  <2> QED
    BY <2>1, <2>2, <2>3 DEF Peticion
<1> QED
  BY <1>1, <1>2, <1>3, <1>4

(* A request that goes on.                                                 *)
LEMMA MoverTipo ==
  ASSUME TipoReal, NEW s \in Sesiones, NEW r \in Peticion,
         sesion' = [sesion EXCEPT ![s] = r]
  PROVE  sesion' \in [Sesiones -> Peticion]
BY DEF TipoReal

LEMMA IrTipo ==
  ASSUME TipoReal, NEW s \in Sesiones, NEW p, Sigue(sesion[s].paso, p), Ir(s, p)
  PROVE  sesion' \in [Sesiones -> Peticion]
<1>1. Pasar(s, p) \in Peticion
  BY PasarTipo
<1> QED
  BY <1>1, MoverTipo DEF Ir

LEMMA SeguirTipo ==
  ASSUME TipoReal, NEW s \in Sesiones, NEW ps, \A p \in ps : Sigue(sesion[s].paso, p),
         Seguir(s, ps)
  PROVE  sesion' \in [Sesiones -> Peticion]
BY IrTipo DEF Seguir

(* The types after a step that leaves the lots alone, and after one that   *)
(* leaves alone the invoice too.                                           *)
LEMMA TipoResto ==
  ASSUME TipoReal, lotes' = lotes, factura' \in Factura, Cuadra(factura'),
         fe' \in {"aprobado", "cancelado"}, plazo' \in BOOLEAN,
         pagos' \in [n : Int, suma : Int], nc' \in [Notas -> NotaReal],
         sesion' \in [Sesiones -> Peticion], acreditado' \in Nat,
         pisado' \in BOOLEAN, huerfano' \in BOOLEAN
  PROVE  TipoReal'
<1>1. Lotes' = Lotes
  BY DEF Lotes
<1>2. NotaReal' = NotaReal
  BY <1>1 DEF NotaReal
<1>3. Peticion' = Peticion
  BY <1>1 DEF Peticion, Registro, Apta
<1> QED
  BY <1>2, <1>3 DEF TipoReal, Cuadra

LEMMA TipoNotas ==
  ASSUME TipoReal, UNCHANGED <<factura, fe, plazo, pagos, lotes, acreditado, pisado, huerfano>>,
         nc' \in [Notas -> NotaReal], sesion' \in [Sesiones -> Peticion]
  PROVE  TipoReal'
BY TipoResto DEF TipoReal

LEMMA TipoQuieto ==
  ASSUME TipoReal, sesion' \in [Sesiones -> Peticion],
         UNCHANGED <<factura, fe, plazo, pagos, nc, lotes, acreditado, pisado, huerfano>>
  PROVE  TipoReal'
BY TipoNotas DEF TipoReal

(* A request that begins.                                                  *)
LEMMA EmpezarTipo ==
  ASSUME TipoReal, NEW s \in Sesiones, NEW r \in Peticion, Empezar(s, r)
  PROVE  TipoReal'
BY MoverTipo, TipoQuieto DEF Empezar

(* A request that writes the invoice.                                      *)
LEMMA EnvejecerTipo ==
  ASSUME TipoReal, NEW s \in Sesiones, Envejecer(s, "libre")
  PROVE  sesion' \in [Sesiones -> Peticion]
<1>1. ASSUME NEW t \in Sesiones
      PROVE  [sesion[t] EXCEPT !.vieja = TRUE] \in Peticion
  <2> DEFINE r == [sesion[t] EXCEPT !.vieja = TRUE]
  <2>1. sesion[t] \in Registro /\ Apta(sesion[t])
    BY EnMano
  <2>2. /\ r \in Registro /\ r.paso = sesion[t].paso /\ r.nota = sesion[t].nota
        /\ r.monto = sesion[t].monto /\ r.leida = sesion[t].leida
        /\ r.prot = sesion[t].prot /\ r.resp = sesion[t].resp
    BY <2>1 DEF Registro
  <2> HIDE DEF r
  <2>3. Apta(r)
    BY <2>1, <2>2 DEF Apta
  <2> QED
    BY <2>2, <2>3 DEF Peticion, r
<1>2. Pasar(s, "libre") \in Peticion
  BY LibreTipo DEF Pasar
<1>3. \A t \in Sesiones : sesion[t] \in Peticion
  BY EnMano
<1> QED
  BY <1>1, <1>2, <1>3 DEF Envejecer

LEMMA EscribirFacturaTipo ==
  ASSUME TipoReal, NEW s \in Sesiones, NEW fila \in Factura, Cuadra(fila),
         EscribirFactura(s, fila, "libre"),
         UNCHANGED <<fe, plazo, pagos, nc, lotes, acreditado, huerfano>>
  PROVE  TipoReal'
<1>1. sesion' \in [Sesiones -> Peticion]
  BY EnvejecerTipo DEF EscribirFactura
<1>2. sesion[s].vieja \in BOOLEAN /\ pisado \in BOOLEAN
  BY EnMano DEF Registro, TipoReal
<1>3. pisado' \in BOOLEAN
  BY <1>2 DEF EscribirFactura
<1>4. factura' = fila
  BY DEF EscribirFactura
<1>5. Cuadra(factura')
  BY <1>4 DEF Cuadra
<1> QED
  BY <1>1, <1>3, <1>4, <1>5, TipoResto DEF TipoReal

LEMMA TipoPago ==
  ASSUME TipoReal, NEW s \in Sesiones, Pago(s)
  PROVE  TipoReal'
<1>z. sesion[s] \in Registro /\ Apta(sesion[s])
  BY EnMano
<1>p. /\ Sigue("pago_insertar", "pago_aplicar")
      /\ \A a \in Pasos : Sigue(a, "pago_borrar") /\ Sigue(a, "libre")
  BY DEF Sigue, Pasos, PasosFactura, PasosNota, PasosConNota
<1>i. sesion[s].paso \in Pasos /\ sesion[s].monto \in Nat
  BY <1>z DEF Registro
<1>1. ASSUME NEW m \in Importes, LeerPago(s, m)
      PROVE  TipoReal'
  <2> DEFINE r == [Libre EXCEPT !.paso = "pago_insertar", !.leida = factura, !.monto = m]
  <2>1. Libre \in Registro /\ factura \in Factura /\ m \in Nat
    BY LibreTipo, FacturasAssumption DEF Peticion, TipoReal
  <2>2. /\ r \in Registro /\ r.paso = "pago_insertar" /\ r.leida = factura /\ r.monto = m
    BY <2>1 DEF Registro, Pasos, PasosFactura
  <2>3. Empezar(s, r) /\ m <= factura.saldo
    BY <1>1 DEF LeerPago
  <2> HIDE DEF r
  <2>4. Apta(r)
    BY <2>2, <2>3 DEF Apta, PasosConNota, PasosNota
  <2>5. r \in Peticion
    BY <2>2, <2>4 DEF Peticion
  <2> QED
    BY <2>3, <2>5, EmpezarTipo
<1>2. CASE InsertarPago(s)
  <2>1. sesion' \in [Sesiones -> Peticion]
    BY <1>p, <1>2, IrTipo DEF InsertarPago, En
  <2>2. pagos' \in [n : Int, suma : Int]
    BY <1>i, <1>2 DEF InsertarPago, TipoReal
  <2> QED
    BY <1>2, <2>1, <2>2, TipoResto DEF InsertarPago, TipoReal
<1>3. CASE AplicarPago(s)
  <2> DEFINE f == ConPago(sesion[s].leida, sesion[s].monto)
  <2>1. /\ sesion[s].leida \in Factura
        /\ sesion[s].monto <= sesion[s].leida.saldo
    BY <1>z, <1>3 DEF AplicarPago, En, Registro, Apta
  <2>2. sesion[s].leida.saldo - sesion[s].monto \in 0..Monto
    <3>1. sesion[s].leida.saldo \in 0..Monto
      BY <2>1, SaldoTipo
    <3> QED
      BY <1>i, <2>1, <3>1, MontoNatural
  <2>3. f \in Factura /\ Cuadra(f)
    BY <2>2 DEF ConPago, Factura, Cuadra
  <2>4. EscribirFactura(s, f, "libre")
    BY <1>3 DEF AplicarPago
  <2> HIDE DEF f
  <2> QED
    BY <1>3, <2>3, <2>4, EscribirFacturaTipo DEF AplicarPago
<1>4. CASE NoAplicarPago(s)
  <2>1. sesion' \in [Sesiones -> Peticion]
    BY <1>p, <1>i, <1>4, IrTipo DEF NoAplicarPago
  <2> QED
    BY <1>4, <2>1, TipoQuieto DEF NoAplicarPago
<1>5. CASE BorrarPago(s)
  <2>1. sesion' \in [Sesiones -> Peticion]
    BY <1>p, <1>i, <1>5, IrTipo DEF BorrarPago
  <2>2. pagos' \in [n : Int, suma : Int]
    BY <1>i, <1>5 DEF BorrarPago, TipoReal
  <2>3. huerfano' \in BOOLEAN
    BY <1>5 DEF BorrarPago, TipoReal
  <2> QED
    BY <1>5, <2>1, <2>2, <2>3, TipoResto DEF BorrarPago, TipoReal
<1> QED
  BY <1>1, <1>2, <1>3, <1>4, <1>5 DEF Pago

(* A request that begins with no amount and nothing read of the invoice.   *)
LEMMA SoloPasoTipo ==
  ASSUME TipoReal, NEW s \in Sesiones, NEW p \in {"baja_anular", "cancelar_fila"},
         Empezar(s, [Libre EXCEPT !.paso = p])
  PROVE  TipoReal'
<1> DEFINE r == [Libre EXCEPT !.paso = p]
<1>1. Libre \in Registro
  BY LibreTipo DEF Peticion
<1>2. r \in Registro /\ r.paso = p
  BY <1>1 DEF Registro, Pasos, PasosFactura
<1> HIDE DEF r
<1>3. Apta(r)
  BY <1>2 DEF Apta, PasosConNota, PasosNota
<1> QED
  BY <1>2, <1>3, EmpezarTipo DEF Peticion, r

LEMMA TipoAnular ==
  ASSUME TipoReal, NEW s \in Sesiones, Anular(s)
  PROVE  TipoReal'
<1>p. \A a \in Pasos, p \in {"libre", "cancelar_factura", "cancelar_deshacer"} : Sigue(a, p)
  BY DEF Sigue, Pasos, PasosFactura, PasosNota, PasosConNota
<1>i. sesion[s].paso \in Pasos
  BY EnMano DEF Registro
<1>0. LET f == [estado |-> "Anulado", saldo |-> 0] IN f \in Factura /\ Cuadra(f)
  BY FacturasAssumption DEF Factura, Cuadra
<1>1. CASE LeerBaja(s) \/ LeerCancelar(s)
  BY <1>1, SoloPasoTipo DEF LeerBaja, LeerCancelar
<1>2. CASE AnularPorBaja(s)
  BY <1>0, <1>2, EscribirFacturaTipo DEF AnularPorBaja
<1>3. CASE CancelarFila(s)
  <2>1. sesion' \in [Sesiones -> Peticion]
    BY <1>p, <1>i, <1>3, SeguirTipo DEF CancelarFila
  <2> QED
    BY <1>3, <2>1, TipoResto DEF CancelarFila, TipoReal
<1>4. CASE AnularPorCancelar(s)
  <2>1. CASE EscribirFactura(s, [estado |-> "Anulado", saldo |-> 0], "libre")
    <3>1. UNCHANGED <<fe, plazo, pagos, nc, lotes, acreditado, huerfano>>
      BY <1>4 DEF AnularPorCancelar
    <3> QED
      BY <1>0, <2>1, <3>1, EscribirFacturaTipo
  <2>2. CASE Ir(s, "cancelar_deshacer") /\ UNCHANGED <<factura, pisado>>
    <3>1. sesion' \in [Sesiones -> Peticion]
      BY <1>p, <1>i, <2>2, IrTipo
    <3> QED
      BY <1>4, <2>2, <3>1, TipoQuieto DEF AnularPorCancelar
  <2> QED
    BY <1>4, <2>1, <2>2 DEF AnularPorCancelar
<1>5. CASE DeshacerCancelar(s)
  <2>1. sesion' \in [Sesiones -> Peticion]
    BY <1>p, <1>i, <1>5, IrTipo DEF DeshacerCancelar
  <2> QED
    BY <1>5, <2>1, TipoResto DEF DeshacerCancelar, TipoReal
<1> QED
  BY <1>1, <1>2, <1>3, <1>4, <1>5 DEF Anular

LEMMA TipoCrear ==
  ASSUME TipoReal, NEW s \in Sesiones, Crear(s)
  PROVE  TipoReal'
<1>z. sesion[s] \in Registro /\ Apta(sesion[s])
  BY EnMano
<1>p. /\ Sigue("crear_validar", "crear_insertar") /\ Sigue("crear_detallar", "crear_borrar")
      /\ \A a \in Pasos : Sigue(a, "libre")
  BY DEF Sigue, Pasos, PasosFactura, PasosNota, PasosConNota
<1>i. sesion[s].paso \in Pasos /\ sesion[s].monto \in Nat
  BY <1>z DEF Registro
<1>c. nc \in [Notas -> NotaReal]
  BY DEF TipoReal
<1>1. CASE LeerCrear(s)
  <2> DEFINE r == [Libre EXCEPT !.paso = "crear_validar", !.monto = factura.saldo]
  <2>1. Libre \in Registro /\ factura.saldo \in 0..Monto /\ factura.saldo \in Nat
    BY LibreTipo, SaldoTipo DEF Peticion, TipoReal
  <2>2. r \in Registro /\ r.paso = "crear_validar" /\ r.monto = factura.saldo
    BY <2>1 DEF Registro, Pasos, PasosNota
  <2>3. Empezar(s, r)
    BY <1>1 DEF LeerCrear
  <2> HIDE DEF r
  <2>4. Apta(r)
    BY <2>1, <2>2 DEF Apta, PasosConNota, PasosNota
  <2> QED
    BY <2>2, <2>3, <2>4, EmpezarTipo DEF Peticion
<1>2. CASE ValidarCrear(s)
  <2>1. sesion' \in [Sesiones -> Peticion]
    BY <1>p, <1>2, IrTipo DEF ValidarCrear, En
  <2> QED
    BY <1>2, <2>1, TipoQuieto DEF ValidarCrear
<1>3. ASSUME NEW n \in Notas, InsertarNc(s, n)
      PROVE  TipoReal'
  <2> DEFINE r == [Libre EXCEPT !.paso = "crear_detallar", !.nota = n]
  <2>1. Libre \in Registro
    BY LibreTipo DEF Peticion
  <2>2. r \in Registro /\ r.paso = "crear_detallar" /\ r.nota = n
    BY <2>1 DEF Registro, Pasos, PasosNota
  <2>3. sesion' = [sesion EXCEPT ![s] = r]
    BY <1>3 DEF InsertarNc
  <2> HIDE DEF r
  <2>4. Apta(r)
    BY <2>2 DEF Apta
  <2>5. sesion' \in [Sesiones -> Peticion]
    BY <2>2, <2>3, <2>4, MoverTipo DEF Peticion
  <2>6. sesion[s].monto \in 0..Monto
    BY <1>z, <1>i, <1>3, MontoNatural DEF InsertarNc, En, Apta
  <2>7. nc' \in [Notas -> NotaReal]
    BY <1>c, <1>3, <2>6 DEF InsertarNc, NotaReal, EstadosErp
  <2> QED
    BY <1>3, <2>5, <2>7, TipoNotas DEF InsertarNc
<1>4. CASE DetallarNc(s)
  <2>1. sesion' \in [Sesiones -> Peticion]
    <3>1. \A p \in {"libre", "crear_borrar"} : Sigue(sesion[s].paso, p)
      BY <1>p, <1>i, <1>4 DEF DetallarNc, En
    <3>2. Seguir(s, {"libre", "crear_borrar"})
      BY <1>4 DEF DetallarNc, Seguir
    <3> QED
      BY <3>1, <3>2, SeguirTipo
  <2>2. nc' \in [Notas -> NotaReal]
    BY <1>c, <1>4 DEF DetallarNc, NotaReal, EstadosNe
  <2> QED
    BY <1>4, <2>1, <2>2, TipoNotas DEF DetallarNc
<1>5. CASE BorrarNc(s)
  <2>1. sesion' \in [Sesiones -> Peticion]
    BY <1>p, <1>i, <1>5, IrTipo DEF BorrarNc
  <2>2. nc' \in [Notas -> NotaReal]
    BY <1>c, <1>5 DEF BorrarNc, NotaReal, EstadosErp, EstadosNe
  <2> QED
    BY <1>5, <2>1, <2>2, TipoNotas DEF BorrarNc
<1> QED
  BY <1>1, <1>2, <1>3, <1>4, <1>5 DEF Crear

LEMMA LeerNotaTipo ==
  ASSUME TipoReal, NEW s \in Sesiones, NEW n \in Notas,
         NEW p \in {"xml_fila", "firmar_fila", "enviar_soap", "consulta_soap"},
         p = "consulta_soap" => nc[n].prot # 0, LeerNota(s, n, p)
  PROVE  TipoReal'
<1> DEFINE q == IF p \in {"enviar_soap", "consulta_soap"} THEN nc[n].prot ELSE 0
           r == [Libre EXCEPT !.paso = p, !.nota = n, !.ne = nc[n].ne, !.prot = q]
<1>1. Libre \in Registro /\ nc[n] \in NotaReal /\ 0 \in Lotes
  BY LibreTipo, CeroEsLote DEF Peticion, TipoReal
<1>2. nc[n].ne \in EstadosNe /\ q \in Lotes
  BY <1>1 DEF NotaReal
<1>3. p = "consulta_soap" => q # 0
  OBVIOUS
<1>4. Libre.monto = 0
  BY DEF Libre
<1>5. Empezar(s, r)
  BY DEF LeerNota
<1> HIDE DEF q
<1>6. /\ r \in Registro /\ r.paso = p /\ r.nota = n /\ r.prot = q /\ r.monto = 0
  BY <1>1, <1>2, <1>4 DEF Registro, Pasos, PasosNota
<1> HIDE DEF r
<1>7. Apta(r)
  BY <1>1, <1>3, <1>6 DEF Apta
<1> QED
  BY <1>5, <1>6, <1>7, EmpezarTipo DEF Peticion

LEMMA GuardarNeTipo ==
  ASSUME TipoReal, NEW s \in Sesiones, NEW e \in EstadosNe, NEW p,
         Sigue(sesion[s].paso, p), Sigue(sesion[s].paso, "reponer"), GuardarNe(s, e, p)
  PROVE  TipoReal'
<1>1. nc' \in [Notas -> NotaReal]
  BY DEF GuardarNe, TipoReal, NotaReal
<1>2. \A q \in {p, "reponer"} : Sigue(sesion[s].paso, q)
  OBVIOUS
<1>3. Seguir(s, {p, "reponer"})
  BY DEF GuardarNe
<1>4. sesion' \in [Sesiones -> Peticion]
  BY <1>2, <1>3, SeguirTipo
<1> QED
  BY <1>1, <1>4, TipoNotas DEF GuardarNe

LEMMA MarcarErpTipo ==
  ASSUME TipoReal, NEW s \in Sesiones, NEW desde, NEW a \in EstadosErp, NEW ps,
         \A p \in ps : Sigue(sesion[s].paso, p), MarcarErp(s, desde, a, ps)
  PROVE  TipoReal'
<1>1. nc' \in [Notas -> NotaReal]
  <2>0. nc \in [Notas -> NotaReal]
    BY DEF TipoReal
  <2>1. PICK e : /\ e = IF nc[N(s)].erp \in desde THEN a ELSE nc[N(s)].erp
                 /\ nc' = nc \/ nc' = [nc EXCEPT ![N(s)].erp = e]
    BY DEF MarcarErp
  <2>2. N(s) \in Notas => e \in EstadosErp
    BY <2>0, <2>1 DEF NotaReal
  <2>3. ASSUME N(s) \in Notas
        PROVE  [nc EXCEPT ![N(s)].erp = e] \in [Notas -> NotaReal]
    BY <2>0, <2>2, <2>3 DEF NotaReal
  <2>4. ASSUME N(s) \notin Notas
        PROVE  [nc EXCEPT ![N(s)].erp = e] \in [Notas -> NotaReal]
    BY <2>0, <2>4
  <2> QED
    BY <2>0, <2>1, <2>3, <2>4
<1>2. sesion' \in [Sesiones -> Peticion]
  BY SeguirTipo DEF MarcarErp
<1> QED
  BY <1>1, <1>2, TipoNotas DEF MarcarErp

(* The lots only grow: what was typed with the old ones still is.          *)
LEMMA LotesCrecen ==
  ASSUME TipoReal, NEW n \in Nat, Len(lotes) <= n, Len(lotes') = n
  PROVE  NotaReal \subseteq NotaReal' /\ Peticion \subseteq Peticion' /\ Lotes \subseteq Lotes'
<1>1. Lotes \subseteq Lotes'
  BY CeroEsLote DEF Lotes
<1>2. NotaReal \subseteq NotaReal'
  BY <1>1 DEF NotaReal
<1>3. Registro \subseteq Registro'
  BY <1>1 DEF Registro
<1>4. ASSUME NEW r, Apta(r)
      PROVE  Apta(r)'
  BY <1>1, <1>4 DEF Apta
<1> QED
  BY <1>1, <1>2, <1>3, <1>4 DEF Peticion

LEMMA TipoRecibir ==
  ASSUME TipoReal, NEW s \in Sesiones, RecibirNc(s)
  PROVE  TipoReal'
<1> DEFINE n == Len(lotes) + 1
           nuevo == [nota |-> N(s), res |-> "pendiente"]
<1>z. sesion[s] \in Registro /\ sesion[s].nota \in Notas
  BY EnMano DEF RecibirNc, En, Apta, PasosConNota, PasosNota
<1>1. nuevo \in Lote
  BY <1>z DEF Lote, N
<1>2. lotes' = Append(lotes, nuevo)
  BY DEF RecibirNc
<1> HIDE DEF nuevo
<1>3. /\ lotes' \in Seq(Lote)
      /\ Len(lotes') = n
      /\ n <= MaxLotes /\ n \in Nat /\ Len(lotes) <= n
  BY <1>1, <1>2, FacturasAssumption DEF RecibirNc, TipoReal
<1>4. NotaReal \subseteq NotaReal' /\ Peticion \subseteq Peticion' /\ Lotes \subseteq Lotes'
  BY <1>3, LotesCrecen
<1>5. n \in Lotes'
  BY <1>3 DEF Lotes
<1>6. sesion' \in [Sesiones -> Peticion']
  <2>1. CASE Ir(s, "libre")
    <3>1. Pasar(s, "libre") \in Peticion
      BY LibreTipo DEF Pasar
    <3>2. sesion' \in [Sesiones -> Peticion]
      BY <2>1, <3>1, MoverTipo DEF Ir
    <3> QED
      BY <1>4, <3>2
  <2>2. CASE sesion' = [sesion EXCEPT ![s].paso = "enviar_fila", ![s].resp = "encolado",
                                      ![s].monto = Len(lotes) + 1]
    <3>1. PICK r : r = [sesion[s] EXCEPT !.paso = "enviar_fila", !.resp = "encolado",
                                         !.monto = n]
      OBVIOUS
    <3>2. /\ r \in Registro
          /\ r.paso = "enviar_fila" /\ r.nota = sesion[s].nota /\ r.monto = n
      BY <1>z, <1>3, <3>1 DEF Registro, Pasos, PasosNota
    <3>3. sesion' = [sesion EXCEPT ![s] = r]
      BY <2>2, <3>1
    <3>4. r \in Registro'
      BY <1>4, <3>2 DEF Registro
    <3>5. r \in Peticion'
      BY <1>z, <1>5, <3>2, <3>4 DEF Peticion, Apta
    <3> QED
      BY <1>4, <3>3, <3>5 DEF TipoReal
  <2> QED
    BY <2>1, <2>2 DEF RecibirNc
<1>7. nc' \in [Notas -> NotaReal']
  BY <1>4 DEF RecibirNc, TipoReal
<1> QED
  BY <1>3, <1>6, <1>7 DEF RecibirNc, TipoReal, Cuadra

LEMMA TipoNoRecibir ==
  ASSUME TipoReal, NEW s \in Sesiones, NoRecibirNc(s)
  PROVE  TipoReal'
<1>z. sesion[s] \in Registro /\ sesion[s].nota \in Notas
  BY EnMano DEF NoRecibirNc, En, Apta, PasosConNota, PasosNota
<1>1. sesion' \in [Sesiones -> Peticion]
  <2>1. Sigue(sesion[s].paso, "libre") /\ Sigue(sesion[s].paso, "enviar_fila")
    BY DEF NoRecibirNc, En, Sigue, Pasos, PasosFactura, PasosNota, PasosConNota
  <2> QED
    BY <2>1, IrTipo DEF NoRecibirNc
<1>2. CASE lotes' = lotes
  BY <1>1, <1>2, TipoQuieto DEF NoRecibirNc
<1>3. CASE lotes' # lotes
  <2> DEFINE nuevo == [nota |-> N(s), res |-> "pendiente"]
  <2>1. nuevo \in Lote
    BY <1>z DEF Lote, N
  <2>2. lotes' = Append(lotes, nuevo) /\ Len(lotes) < MaxLotes
    BY <1>3 DEF NoRecibirNc
  <2> HIDE DEF nuevo
  <2>3. /\ lotes' \in Seq(Lote)
        /\ Len(lotes') = Len(lotes) + 1
        /\ Len(lotes') <= MaxLotes
        /\ Len(lotes) + 1 \in Nat /\ Len(lotes) <= Len(lotes) + 1
    BY <2>1, <2>2, FacturasAssumption DEF TipoReal
  <2>4. NotaReal \subseteq NotaReal' /\ Peticion \subseteq Peticion'
    BY <2>3, LotesCrecen
  <2>5. nc' \in [Notas -> NotaReal'] /\ sesion' \in [Sesiones -> Peticion']
    BY <1>1, <2>4 DEF NoRecibirNc, TipoReal
  <2> QED
    BY <2>3, <2>5 DEF NoRecibirNc, TipoReal, Cuadra
<1> QED
  BY <1>2, <1>3

LEMMA TipoDictaminar ==
  ASSUME TipoReal, NEW i \in 1..Len(lotes), Dictaminar(i)
  PROVE  TipoReal'
<1>1. PICK r \in {"aprobado", "rechazado"} : lotes' = [lotes EXCEPT ![i].res = r]
  BY DEF Dictaminar
<1> DEFINE e == [lotes[i] EXCEPT !.res = r]
<1>2. lotes[i] \in Lote /\ lotes \in Seq(Lote)
  BY ElementOfSeq DEF TipoReal
<1>3. e \in Lote
  BY <1>2 DEF Lote
<1>4. lotes' = [lotes EXCEPT ![i] = e]
  BY <1>1
<1> HIDE DEF e
<1>5. lotes' \in Seq(Lote) /\ Len(lotes') = Len(lotes)
  BY <1>2, <1>3, <1>4, ExceptSeq
<1>6. NotaReal \subseteq NotaReal' /\ Peticion \subseteq Peticion'
  BY <1>5, CeroEsLote, LotesCrecen
<1> QED
  BY <1>5, <1>6 DEF Dictaminar, TipoReal, Cuadra

(* A note whose document and lot change at once.                           *)
LEMMA NeYProtTipo ==
  ASSUME TipoReal, NEW n, NEW e \in EstadosNe, NEW l \in Lotes
  PROVE  [nc EXCEPT ![n].ne = e, ![n].prot = l] \in [Notas -> NotaReal]
<1>1. [nc EXCEPT ![n].ne = e] \in [Notas -> NotaReal]
  BY DEF TipoReal, NotaReal
<1>2. ASSUME NEW c \in [Notas -> NotaReal]
      PROVE  [c EXCEPT ![n].prot = l] \in [Notas -> NotaReal]
  BY DEF NotaReal
<1> QED
  BY <1>1, <1>2

LEMMA TipoDocumento ==
  ASSUME TipoReal, NEW s \in Sesiones, Documento(s)
  PROVE  TipoReal'
<1>z. sesion[s] \in Registro /\ Apta(sesion[s])
  BY EnMano
<1>i. sesion[s].paso \in Pasos /\ sesion[s].ne \in EstadosNe /\ sesion[s].prot \in Lotes
  BY <1>z DEF Registro
<1>p. /\ \A a \in Pasos : Sigue(a, "libre")
      /\ \A a \in PasosConNota : /\ Sigue(a, "reponer") /\ Sigue(a, "xml_erp")
                                 /\ Sigue(a, "enviar_reponer") /\ Sigue(a, "enviar_erp")
      /\ Sigue("enviar_soap", "enviar_fila")
      /\ {"xml_fila", "firmar_fila", "enviar_soap", "enviar_fila"} \subseteq PasosConNota
  BY DEF Sigue, Pasos, PasosFactura, PasosNota, PasosConNota
<1>e. {"generado", "firmado", "enviado", "error_envio"} \subseteq EstadosNe
      /\ {"pendiente_envio_sifen", "error"} \subseteq EstadosErp
  BY DEF EstadosNe, EstadosErp
<1>1. ASSUME NEW n \in Notas, LeerXmlNc(s, n) \/ LeerFirmarNc(s, n) \/ LeerEnviarNc(s, n)
      PROVE  TipoReal'
  <2>1. PICK p \in {"xml_fila", "firmar_fila", "enviar_soap"} : LeerNota(s, n, p)
    BY <1>1 DEF LeerXmlNc, LeerFirmarNc, LeerEnviarNc, LeerConGate
  <2> QED
    BY <2>1, LeerNotaTipo
<1>2. CASE GuardarXmlNc(s)
  BY <1>p, <1>e, <1>2, GuardarNeTipo DEF GuardarXmlNc, En
<1>3. CASE PasarPendiente(s)
  <2>1. \A p \in {"libre"} : Sigue(sesion[s].paso, p)
    BY <1>p, <1>i
  <2> QED
    BY <1>e, <1>3, <2>1, MarcarErpTipo DEF PasarPendiente
<1>4. CASE GuardarFirmaNc(s)
  BY <1>p, <1>i, <1>e, <1>4, GuardarNeTipo DEF GuardarFirmaNc, En
<1>5. CASE ReponerNe(s)
  <2>1. nc' \in [Notas -> NotaReal]
    BY <1>i, <1>5 DEF ReponerNe, TipoReal, NotaReal
  <2>2. sesion' \in [Sesiones -> Peticion]
    BY <1>p, <1>i, <1>5, IrTipo DEF ReponerNe
  <2> QED
    BY <1>5, <2>1, <2>2, TipoNotas DEF ReponerNe
<1>6. CASE RecibirNc(s)
  BY <1>6, TipoRecibir
<1>7. CASE NoRecibirNc(s)
  BY <1>7, TipoNoRecibir
<1>8. CASE GuardarEnvioNc(s)
  <2> DEFINE tomado == sesion[s].resp = "encolado"
             e == IF tomado THEN "enviado" ELSE "error_envio"
             ps == {"enviar_reponer", IF tomado THEN "libre" ELSE "enviar_erp"}
  <2>1. sesion[s].monto \in Lotes
    BY <1>z, <1>8 DEF GuardarEnvioNc, En, Apta
  <2>2. nc' = [nc EXCEPT ![N(s)].ne = e, ![N(s)].prot = sesion[s].monto] /\ e \in EstadosNe
    BY <1>8, <1>e DEF GuardarEnvioNc
  <2>3. nc' \in [Notas -> NotaReal]
    BY <2>1, <2>2, NeYProtTipo
  <2>4. \A p \in ps : Sigue(sesion[s].paso, p)
    BY <1>p, <1>i, <1>8 DEF GuardarEnvioNc, En
  <2>5. Seguir(s, ps)
    BY <1>8 DEF GuardarEnvioNc
  <2>6. sesion' \in [Sesiones -> Peticion]
    BY <2>4, <2>5, SeguirTipo
  <2> QED
    BY <1>8, <2>3, <2>6, TipoNotas DEF GuardarEnvioNc
<1>9. CASE ReponerEnvio(s)
  <2>1. nc' \in [Notas -> NotaReal]
    BY <1>i, <1>9, NeYProtTipo DEF ReponerEnvio, TipoReal
  <2>2. sesion' \in [Sesiones -> Peticion]
    BY <1>p, <1>i, <1>9, IrTipo DEF ReponerEnvio
  <2> QED
    BY <1>9, <2>1, <2>2, TipoNotas DEF ReponerEnvio
<1>10. CASE MarcarError(s)
  <2>1. \A p \in {"libre"} : Sigue(sesion[s].paso, p)
    BY <1>p, <1>i
  <2> QED
    BY <1>e, <1>10, <2>1, MarcarErpTipo DEF MarcarError
<1> QED
  BY <1>1, <1>2, <1>3, <1>4, <1>5, <1>6, <1>7, <1>8, <1>9, <1>10 DEF Documento

(* What a consultation takes from SET's answer.                            *)
LEMMA InferirTipo ==
  ASSUME TipoReal, NEW s \in Sesiones, En(s, "consulta_soap"),
         NEW q, q \in {sesion[s].ne, InferirNc(sesion[s].ne, lotes[sesion[s].prot].res)}
  PROVE  /\ q \in EstadosNe
         /\ sesion[s].prot \in 1..Len(lotes)
         /\ q = "aprobado" /\ sesion[s].ne # q => lotes[sesion[s].prot].res = "aprobado"
<1>1. sesion[s] \in Registro /\ sesion[s].prot # 0
  BY EnMano DEF En, Apta
<1>2. sesion[s].prot \in 1..Len(lotes) /\ sesion[s].ne \in EstadosNe
  BY <1>1, CeroEsLote DEF Registro, Lotes
<1>3. lotes[sesion[s].prot] \in Lote
  BY <1>2, ElementOfSeq DEF TipoReal
<1>4. lotes[sesion[s].prot].res \in {"pendiente", "aprobado", "rechazado"}
  BY <1>3 DEF Lote
<1> QED
  BY <1>2, <1>4 DEF InferirNc, EstadosNe

(* The step a consultation goes to.                                        *)
Destino(ne, q) ==
    CASE q = "aprobado" /\ ne # q  -> "consulta_rpc"
      [] q = "rechazado" /\ ne # q -> "consulta_rechazo"
      [] OTHER                     -> "consulta_fila"

LEMMA ConsultarDestino ==
  ASSUME TipoReal, NEW s \in Sesiones, ConsultarNc(s), ~ Ir(s, "libre")
  PROVE  \E q \in {sesion[s].ne, InferirNc(sesion[s].ne, lotes[sesion[s].prot].res)},
             r \in Registro :
            /\ sesion' = [sesion EXCEPT ![s] = r]
            /\ r.paso = Destino(sesion[s].ne, q) /\ r.resp = q
            /\ r.prot = 0 /\ r.nota = sesion[s].nota /\ r.ne = sesion[s].ne
<1>1. PICK q \in {sesion[s].ne, InferirNc(sesion[s].ne, lotes[sesion[s].prot].res)} :
         sesion' = [sesion EXCEPT ![s].resp = q, ![s].prot = 0, ![s].paso =
                CASE q = "aprobado" /\ sesion[s].ne # q  -> "consulta_rpc"
                  [] q = "rechazado" /\ sesion[s].ne # q -> "consulta_rechazo"
                  [] OTHER                               -> "consulta_fila"]
  BY DEF ConsultarNc
<1>2. PICK d : d = Destino(sesion[s].ne, q)
  OBVIOUS
<1>3. d \in Pasos
  BY <1>2 DEF Destino, Pasos, PasosNota
<1>4. q \in EstadosNe /\ 0 \in Lotes
  BY InferirTipo, CeroEsLote DEF ConsultarNc
<1> DEFINE r == [sesion[s] EXCEPT !.resp = q, !.prot = 0, !.paso = d]
<1>5. sesion' = [sesion EXCEPT ![s] = r]
  BY <1>1, <1>2 DEF Destino
<1>6. sesion[s] \in Registro
  BY EnMano
<1>7. /\ r \in Registro /\ r.paso = d /\ r.resp = q
      /\ r.prot = 0 /\ r.nota = sesion[s].nota /\ r.ne = sesion[s].ne
  BY <1>3, <1>4, <1>6 DEF Registro
<1> HIDE DEF r
<1> QED
  BY <1>2, <1>5, <1>7

LEMMA TipoAplicar ==
  ASSUME TipoReal, NEW s \in Sesiones, AplicarAprobacion(s)
  PROVE  TipoReal'
<1> DEFINE n == N(s)
           m == nc[n].monto
           f == ConNota(factura, m)
<1>1. n \in Notas
  BY EnMano DEF AplicarAprobacion, En, Apta, PasosConNota, PasosNota, N
<1>2. nc[n] \in NotaReal
  BY <1>1 DEF TipoReal
<1>3. m \in 0..Monto /\ m \in Nat
  BY <1>2, MontoNatural DEF NotaReal
<1>4. factura.saldo \in 0..Monto
  BY SaldoTipo DEF TipoReal
<1>5. (IF m > factura.saldo THEN 0 ELSE factura.saldo - m) \in 0..Monto
  BY <1>3, <1>4, MontoNatural
<1>6. f.saldo = IF m > factura.saldo THEN 0 ELSE factura.saldo - m
  BY DEF ConNota
<1>7. f \in Factura
  BY <1>5 DEF ConNota, TipoReal, Factura
<1>8. Cuadra(f)
  <2>1. f.estado = IF factura.estado # "Anulado" /\ factura.saldo <= m THEN "Corregida NC"
                   ELSE factura.estado
    BY DEF ConNota
  <2>2. f.saldo = 0 <=> factura.saldo <= m
    BY <1>3, <1>4, <1>6, MontoNatural
  <2>3. factura.saldo = 0 => factura.saldo <= m
    BY <1>3, MontoNatural
  <2>4. Cuadra(factura)
    BY DEF TipoReal
  <2> HIDE DEF f, m
  <2> QED
    BY <2>1, <2>2, <2>3, <2>4 DEF Cuadra
<1>9. factura' = f /\ acreditado' = acreditado + m /\ Envejecer(s, "libre")
      /\ UNCHANGED <<fe, plazo, pagos, lotes, pisado, huerfano>>
  BY DEF AplicarAprobacion
<1>10. sesion' \in [Sesiones -> Peticion]
  BY <1>9, EnvejecerTipo
<1>11. nc' \in [Notas -> NotaReal]
  <2> DEFINE e == IF nc[n].erp = "anulada_borrador" THEN nc[n].erp ELSE "aprobada"
             c == [nc[n] EXCEPT !.ne = "aprobado", !.impactos = @ + 1, !.erp = e]
  <2>1. c \in NotaReal
    <3>1. e \in EstadosErp /\ "aprobado" \in EstadosNe
      BY <1>2 DEF NotaReal, EstadosNe, EstadosErp
    <3>2. nc[n].impactos + 1 \in Nat
      BY <1>2 DEF NotaReal
    <3> HIDE DEF e
    <3> QED
      BY <1>2, <3>1, <3>2 DEF NotaReal
  <2>2. nc' = [nc EXCEPT ![n] = c]
    BY <1>1 DEF AplicarAprobacion, TipoReal
  <2> HIDE DEF c
  <2> QED
    BY <2>1, <2>2 DEF TipoReal
<1>12. Cuadra(factura')
  BY <1>8, <1>9 DEF Cuadra
<1>13. acreditado' \in Nat
  BY <1>3, <1>9 DEF TipoReal
<1> HIDE DEF f, m, n
<1> QED
  BY <1>7, <1>9, <1>10, <1>11, <1>12, <1>13, TipoResto DEF TipoReal

LEMMA TipoConsulta ==
  ASSUME TipoReal, NEW s \in Sesiones, Consulta(s)
  PROVE  TipoReal'
<1>z. sesion[s] \in Registro /\ Apta(sesion[s])
  BY EnMano
<1>i. sesion[s].paso \in Pasos
  BY <1>z DEF Registro
<1>p. /\ \A a \in Pasos : Sigue(a, "libre")
      /\ \A a \in PasosConNota : Sigue(a, "reponer") /\ Sigue(a, "consulta_erp")
      /\ {"consulta_soap", "consulta_rpc", "consulta_rechazo", "consulta_erp",
          "consulta_fila"} \subseteq PasosConNota
  BY DEF Sigue, Pasos, PasosFactura, PasosNota, PasosConNota
<1>1. ASSUME NEW n \in Notas, LeerConsultaNc(s, n)
      PROVE  TipoReal'
  BY <1>1, LeerNotaTipo DEF LeerConsultaNc
<1>2. CASE ConsultarNc(s)
  <2>1. CASE Ir(s, "libre")
    <3>1. sesion' \in [Sesiones -> Peticion]
      BY <1>p, <1>i, <2>1, IrTipo
    <3> QED
      BY <1>2, <3>1, TipoQuieto DEF ConsultarNc
  <2>2. CASE ~ Ir(s, "libre")
    <3>1. PICK q \in {sesion[s].ne, InferirNc(sesion[s].ne, lotes[sesion[s].prot].res)},
               r \in Registro :
            /\ sesion' = [sesion EXCEPT ![s] = r]
            /\ r.paso = Destino(sesion[s].ne, q) /\ r.resp = q
            /\ r.prot = 0 /\ r.nota = sesion[s].nota /\ r.ne = sesion[s].ne
      BY <1>2, <2>2, ConsultarDestino
    <3>2. q \in EstadosNe
      BY <1>2, InferirTipo DEF ConsultarNc
    <3>3. sesion[s].nota \in Notas
      BY <1>p, <1>z, <1>2 DEF ConsultarNc, En, Apta
    <3>4. Apta(r)
      BY <3>1, <3>2, <3>3 DEF Apta, Destino
    <3>5. sesion' \in [Sesiones -> Peticion]
      BY <3>1, <3>4, MoverTipo DEF Peticion
    <3> QED
      BY <1>2, <3>5, TipoQuieto DEF ConsultarNc
  <2> QED
    BY <2>1, <2>2
<1>3. CASE AplicarAprobacion(s)
  BY <1>3, TipoAplicar
<1>4. CASE GuardarRechazo(s)
  <2>1. "rechazado" \in EstadosNe
    BY DEF EstadosNe
  <2> QED
    BY <1>p, <1>4, <2>1, GuardarNeTipo DEF GuardarRechazo, En
<1>5. CASE MarcarRechazada(s)
  <2>1. \A p \in {"libre", "reponer"} : Sigue(sesion[s].paso, p)
    BY <1>p, <1>i, <1>5 DEF MarcarRechazada, En
  <2>2. "rechazada" \in EstadosErp
    BY DEF EstadosErp
  <2> QED
    BY <1>5, <2>1, <2>2, MarcarErpTipo DEF MarcarRechazada
<1>6. CASE GuardarConsultaNc(s)
  <2>1. sesion[s].resp \in EstadosNe /\ sesion[s].paso = "consulta_fila"
    BY <1>z, <1>6 DEF GuardarConsultaNc, En, Apta
  <2> QED
    BY <1>p, <1>i, <1>6, <2>1, GuardarNeTipo DEF GuardarConsultaNc
<1> QED
  BY <1>1, <1>2, <1>3, <1>4, <1>5, <1>6 DEF Consulta

LEMMA TipoParar ==
  ASSUME TipoReal, NEW s \in Sesiones, Fallar(s) \/ Caer(s)
  PROVE  TipoReal'
<1>1. Pasar(s, "libre") \in Peticion
  BY LibreTipo DEF Pasar
<1>2. sesion' \in [Sesiones -> Peticion]
  BY <1>1, MoverTipo DEF Ir, Fallar, Caer
<1>3. CASE Fallar(s)
  BY <1>2, <1>3, TipoQuieto DEF Fallar
<1>4. CASE Caer(s)
  <2>1. huerfano' \in BOOLEAN
    BY <1>4 DEF Caer, TipoReal
  <2> QED
    BY <1>2, <1>4, <2>1, TipoResto DEF Caer, TipoReal
<1> QED
  BY <1>3, <1>4

LEMMA TipoAnularBorrador ==
  ASSUME TipoReal, NEW n \in Notas, AnularBorrador(n)
  PROVE  TipoReal'
<1>1. nc' \in [Notas -> NotaReal]
  BY DEF AnularBorrador, TipoReal, NotaReal, EstadosErp
<1> QED
  BY <1>1, TipoNotas DEF AnularBorrador, TipoReal

LEMMA TipoVencer ==
  ASSUME TipoReal, VencerPlazo
  PROVE  TipoReal'
BY TipoResto DEF VencerPlazo, TipoReal

LEMMA TipoInicial == Init => TipoReal
<1> SUFFICES ASSUME Init PROVE TipoReal
  OBVIOUS
<1>1. lotes \in Seq(Lote) /\ Len(lotes) = 0 /\ Len(lotes) <= MaxLotes
  BY FacturasAssumption DEF Init
<1>2. 0 \in Lotes
  BY <1>1 DEF Lotes
<1>3. SinNota \in NotaReal
  BY <1>2, MontoNatural DEF SinNota, NotaReal, EstadosErp, EstadosNe
<1>4. Libre \in Registro
  BY <1>2, AbiertaTipo DEF Libre, Registro, Pasos, EstadosNe
<1>5. Libre \in Peticion
  BY <1>4 DEF Libre, Apta, PasosConNota, PasosNota, Peticion
<1>6. nc \in [Notas -> NotaReal] /\ sesion \in [Sesiones -> Peticion]
  BY <1>3, <1>5 DEF Init
<1>7. factura \in Factura /\ Cuadra(factura)
  BY AbiertaTipo DEF Init
<1>8. pagos \in [n : Int, suma : Int] /\ acreditado \in Nat
  BY DEF Init
<1> QED
  BY <1>1, <1>6, <1>7, <1>8 DEF Init, TipoReal

LEMMA TipoPaso == TipoReal /\ [Next]_vars => TipoReal'
<1> SUFFICES ASSUME TipoReal, [Next]_vars PROVE TipoReal'
  OBVIOUS
<1>1. CASE UNCHANGED vars
  BY <1>1, TipoResto DEF vars, TipoReal
<1> QED
  BY <1>1, TipoPago, TipoAnular, TipoCrear, TipoDocumento, TipoConsulta, TipoParar,
     TipoAnularBorrador, TipoDictaminar, TipoVencer DEF Next

(* The state keeps its types: no handler takes the balance below zero or   *)
(* above the total, whatever the copy of the invoice it works on.          *)
THEOREM TipoDeFacturas == Spec => []TipoReal
<1>1. Init => TipoReal
  BY TipoInicial
<1>2. TipoReal /\ [Next]_vars => TipoReal'
  BY TipoPaso
<1> QED
  BY <1>1, <1>2, PTL DEF Spec

(* The type invariant the run checks.                                      *)
THEOREM TipoCorrecto == Spec => []TypeOK
BY TipoDeFacturas, TipoBasta, PTL

(* An invoice is closed when it owes nothing and only then, even after a   *)
(* request wrote it over a change it had not seen.                         *)
THEOREM EstadoYSaldo == Spec => []EstadoSegunSaldo
BY TipoDeFacturas, TipoBasta, PTL

(***************************************************************************)
(* A note is taken off the balance only after SET approved it.  The lot a  *)
(* note keeps, the one a request carries and the one it asks about are of  *)
(* that note; a request goes to the function of the database only after it *)
(* saw the approval; and one that read "aprobado" may write it back, for   *)
(* the note was taken off before.                                          *)
(***************************************************************************)
Acreditable(n) == \E i \in 1..Len(lotes) : lotes[i] = [nota |-> n, res |-> "aprobado"]

DeNota(l, n) == l # 0 => lotes[l].nota = n

NotaFiel(n, c) ==
    /\ DeNota(c.prot, n)
    /\ c.ne = "aprobado" => c.impactos > 0
    /\ c.impactos > 0 => Acreditable(n)

Sabe(r) ==
    r.paso \in PasosConNota =>
        /\ r.ne = "aprobado" => nc[r.nota].impactos > 0
        /\ DeNota(r.prot, r.nota)
        /\ r.paso \in {"enviar_soap", "enviar_fila"} => DeNota(r.monto, r.nota)
        /\ r.paso = "consulta_rpc" => Acreditable(r.nota)
        /\ r.paso = "consulta_fila" /\ r.resp = "aprobado" => r.ne = "aprobado"

InvNotas ==
    /\ \A n \in Notas : NotaFiel(n, nc[n])
    /\ \A s \in Sesiones : Sabe(sesion[s])

LEMMA NotasBasta == InvNotas => ImpactoPorSet
BY DEF InvNotas, NotaFiel, Acreditable, ImpactoPorSet

(* What no step undoes: lots keep their note and their approval, notes     *)
(* that were taken off the balance stay so.                                *)
Crece ==
    /\ \A i \in 1..Len(lotes) :
          /\ i \in 1..Len(lotes')
          /\ lotes'[i].nota = lotes[i].nota
          /\ lotes[i].res = "aprobado" => lotes'[i] = lotes[i]
    /\ \A n \in Notas : nc[n].impactos > 0 => nc'[n].impactos > 0

LEMMA AcreditableSigue ==
  ASSUME Crece, NEW n, Acreditable(n)
  PROVE  Acreditable(n)'
<1>1. PICK i \in 1..Len(lotes) : lotes[i] = [nota |-> n, res |-> "aprobado"]
  BY DEF Acreditable
<1>2. lotes[i].res = "aprobado"
  BY <1>1
<1>3. i \in 1..Len(lotes') /\ lotes'[i] = lotes[i]
  BY <1>2 DEF Crece
<1> QED
  BY <1>1, <1>3 DEF Acreditable

LEMMA DeNotaSigue ==
  ASSUME TipoReal, Crece, NEW l \in Lotes, NEW n, DeNota(l, n)
  PROVE  DeNota(l, n)'
<1>1. l # 0 => l \in 1..Len(lotes)
  BY CeroEsLote DEF Lotes
<1> QED
  BY <1>1 DEF DeNota, Crece

LEMMA NotaSigue ==
  ASSUME TipoReal, Crece, NEW n, NEW c \in NotaReal, NotaFiel(n, c)
  PROVE  NotaFiel(n, c)'
<1>1. c.prot \in Lotes
  BY DEF NotaReal
<1> QED
  BY <1>1, AcreditableSigue, DeNotaSigue DEF NotaFiel

LEMMA SabeSigue ==
  ASSUME TipoReal, Crece, NEW r \in Peticion, Sabe(r)
  PROVE  Sabe(r)'
<1>1. CASE r.paso \notin PasosConNota
  BY <1>1 DEF Sabe
<1>2. CASE r.paso \in PasosConNota
  <2>1. r.nota \in Notas /\ r.prot \in Lotes
    BY <1>2 DEF Peticion, Apta, Registro
  <2>2. r.paso \in {"enviar_soap", "enviar_fila"} => r.monto \in Lotes
    BY DEF Peticion, Apta
  <2>3. r.ne = "aprobado" => nc'[r.nota].impactos > 0
    BY <1>2, <2>1 DEF Sabe, Crece
  <2>4. DeNota(r.prot, r.nota)'
    BY <1>2, <2>1, DeNotaSigue DEF Sabe
  <2>5. r.paso \in {"enviar_soap", "enviar_fila"} => DeNota(r.monto, r.nota)'
    BY <1>2, <2>2, DeNotaSigue DEF Sabe
  <2>6. r.paso = "consulta_rpc" => Acreditable(r.nota)'
    BY <1>2, AcreditableSigue DEF Sabe
  <2> QED
    BY <1>2, <2>3, <2>4, <2>5, <2>6 DEF Sabe
<1> QED
  BY <1>1, <1>2

LEMMA Presente ==
  ASSUME TipoReal, InvNotas, NEW s \in Sesiones
  PROVE  sesion[s] \in Peticion /\ sesion[s] \in Registro /\ Apta(sesion[s]) /\ Sabe(sesion[s])
BY EnMano DEF InvNotas

LEMMA NotaPresente ==
  ASSUME TipoReal, InvNotas, NEW n \in Notas
  PROVE  nc[n] \in NotaReal /\ NotaFiel(n, nc[n])
BY DEF TipoReal, InvNotas

(* Sessions and notes after a step.                                        *)
SesionesFieles == \A s \in Sesiones : \E r \in Peticion : sesion'[s] = r /\ Sabe(r)
NotasFieles == \A n \in Notas : \E c \in NotaReal : nc'[n] = c /\ NotaFiel(n, c)

LEMMA Quedan ==
  ASSUME TipoReal, Crece, SesionesFieles, NotasFieles
  PROVE  InvNotas'
<1>1. ASSUME NEW s \in Sesiones PROVE Sabe(sesion[s])'
  <2>1. PICK r \in Peticion : sesion'[s] = r /\ Sabe(r)
    BY DEF SesionesFieles
  <2>2. Sabe(r)'
    BY <2>1, SabeSigue
  <2> QED
    BY <2>1, <2>2 DEF Sabe
<1>2. ASSUME NEW n \in Notas PROVE NotaFiel(n, nc[n])'
  <2>1. PICK c \in NotaReal : nc'[n] = c /\ NotaFiel(n, c)
    BY DEF NotasFieles
  <2>2. NotaFiel(n, c)'
    BY <2>1, NotaSigue
  <2> QED
    BY <2>1, <2>2 DEF NotaFiel
<1> QED
  BY <1>1, <1>2 DEF InvNotas

(* Notes and sessions nobody touched.                                      *)
LEMMA NotasQuietas ==
  ASSUME TipoReal, InvNotas, nc' = nc
  PROVE  NotasFieles
BY NotaPresente DEF NotasFieles

LEMMA SesionesQuietas ==
  ASSUME TipoReal, InvNotas, sesion' = sesion
  PROVE  SesionesFieles
BY Presente DEF SesionesFieles

LEMMA CreceSin ==
  ASSUME TipoReal, lotes' = lotes, nc' = nc
  PROVE  Crece
BY DEF Crece

(* One session, one note.                                                  *)
LEMMA UnaSesion ==
  ASSUME TipoReal, InvNotas, NEW s \in Sesiones, NEW r \in Peticion, Sabe(r),
         sesion' = [sesion EXCEPT ![s] = r]
  PROVE  SesionesFieles
<1>1. ASSUME NEW t \in Sesiones PROVE \E q \in Peticion : sesion'[t] = q /\ Sabe(q)
  <2>1. CASE t = s
    BY <2>1 DEF TipoReal
  <2>2. CASE t # s
    <3>1. sesion'[t] = sesion[t]
      BY <2>2 DEF TipoReal
    <3> QED
      BY <3>1, Presente
  <2> QED
    BY <2>1, <2>2
<1> QED
  BY <1>1 DEF SesionesFieles

LEMMA UnaNota ==
  ASSUME TipoReal, InvNotas, lotes' = lotes, NEW n \in Notas, NEW c \in NotaReal,
         NotaFiel(n, c), nc[n].impactos > 0 => c.impactos > 0, nc' = [nc EXCEPT ![n] = c]
  PROVE  NotasFieles /\ Crece
<1>1. ASSUME NEW m \in Notas
      PROVE  /\ \E q \in NotaReal : nc'[m] = q /\ NotaFiel(m, q)
             /\ nc[m].impactos > 0 => nc'[m].impactos > 0
  <2>1. CASE m = n
    BY <2>1 DEF TipoReal
  <2>2. CASE m # n
    <3>1. nc'[m] = nc[m]
      BY <2>2 DEF TipoReal
    <3> QED
      BY <3>1, NotaPresente
  <2> QED
    BY <2>1, <2>2
<1> QED
  BY <1>1 DEF NotasFieles, Crece

(* A note whose commercial or electronic state changes.                    *)
LEMMA OtroErp ==
  ASSUME TipoReal, InvNotas, lotes' = lotes, NEW n \in Notas, NEW e \in EstadosErp,
         nc' = [nc EXCEPT ![n].erp = e]
  PROVE  NotasFieles /\ Crece
<1> DEFINE c == [nc[n] EXCEPT !.erp = e]
<1>1. nc[n] \in NotaReal /\ NotaFiel(n, nc[n])
  BY NotaPresente
<1>2. /\ c \in NotaReal /\ c.ne = nc[n].ne /\ c.prot = nc[n].prot
      /\ c.impactos = nc[n].impactos
  BY <1>1 DEF NotaReal
<1>3. nc' = [nc EXCEPT ![n] = c]
  OBVIOUS
<1> HIDE DEF c
<1>4. NotaFiel(n, c)
  BY <1>1, <1>2 DEF NotaFiel
<1> QED
  BY <1>2, <1>3, <1>4, UnaNota

LEMMA OtroNe ==
  ASSUME TipoReal, InvNotas, lotes' = lotes, NEW n \in Notas, NEW e \in EstadosNe,
         e = "aprobado" => nc[n].impactos > 0, nc' = [nc EXCEPT ![n].ne = e]
  PROVE  NotasFieles /\ Crece
<1> DEFINE c == [nc[n] EXCEPT !.ne = e]
<1>1. nc[n] \in NotaReal /\ NotaFiel(n, nc[n])
  BY NotaPresente
<1>2. /\ c \in NotaReal /\ c.ne = e /\ c.prot = nc[n].prot /\ c.impactos = nc[n].impactos
  BY <1>1 DEF NotaReal
<1>3. nc' = [nc EXCEPT ![n] = c]
  OBVIOUS
<1> HIDE DEF c
<1>4. NotaFiel(n, c)
  BY <1>1, <1>2 DEF NotaFiel
<1> QED
  BY <1>2, <1>3, <1>4, UnaNota

LEMMA OtroEnvio ==
  ASSUME TipoReal, InvNotas, lotes' = lotes, NEW n \in Notas, NEW e \in EstadosNe,
         NEW l \in Lotes, DeNota(l, n), e = "aprobado" => nc[n].impactos > 0,
         nc' = [nc EXCEPT ![n].ne = e, ![n].prot = l]
  PROVE  NotasFieles /\ Crece
<1> DEFINE c == [nc[n] EXCEPT !.ne = e, !.prot = l]
<1>1. nc[n] \in NotaReal /\ NotaFiel(n, nc[n])
  BY NotaPresente
<1>2. /\ c \in NotaReal /\ c.ne = e /\ c.prot = l /\ c.impactos = nc[n].impactos
  BY <1>1 DEF NotaReal
<1>3. nc' = [nc EXCEPT ![n] = c]
  BY DEF TipoReal
<1> HIDE DEF c
<1>4. NotaFiel(n, c)
  BY <1>1, <1>2 DEF NotaFiel
<1> QED
  BY <1>2, <1>3, <1>4, UnaNota

(* A request that goes on knows what it knew.                              *)
LEMMA SinNotaSabe ==
  ASSUME NEW r, r.paso \notin PasosConNota
  PROVE  Sabe(r)
BY DEF Sabe

LEMMA LibreSabe == Sabe(Libre)
BY SinNotaSabe DEF Libre, PasosConNota, PasosNota

LEMMA PasarSabe ==
  ASSUME TipoReal, InvNotas, NEW s \in Sesiones, NEW p, Sigue(sesion[s].paso, p)
  PROVE  Sabe(Pasar(s, p))
<1>z. sesion[s] \in Registro /\ Apta(sesion[s]) /\ Sabe(sesion[s])
  BY Presente
<1>p. p \in Pasos
  BY DEF Sigue
<1>l. Libre \in Registro /\ Libre.prot = 0 /\ Libre.ne = "nada" /\ Libre.monto = 0
  BY LibreTipo DEF Peticion, Libre
<1>1. CASE p \notin PasosConNota
  <2>1. Pasar(s, p).paso = p
    <3>1. CASE p = "libre"
      BY <3>1 DEF Pasar, Libre
    <3>2. CASE p # "libre"
      <4>1. Pasar(s, p) = [sesion[s] EXCEPT !.paso = p]
        BY <1>1, <1>p, <3>2 DEF Pasar, Sigue, PasosConNota, PasosNota
      <4> QED
        BY <1>z, <4>1 DEF Registro
    <3> QED
      BY <3>1, <3>2
  <2> QED
    BY <1>1, <2>1, SinNotaSabe
<1>2. CASE p \in PasosConNota
  <2>a. sesion[s].paso \in PasosConNota
    BY <1>2 DEF Sigue
  <2>b. p # "libre"
    BY <1>2 DEF PasosConNota, PasosNota
  <2>1. CASE p \in {"reponer", "consulta_erp"}
    <3> DEFINE r == [Libre EXCEPT !.paso = p, !.nota = N(s), !.ne = sesion[s].ne]
    <3>1. Pasar(s, p) = r
      BY <2>1 DEF Pasar
    <3>2. r.paso = p /\ r.nota = sesion[s].nota /\ r.prot = 0 /\ r.ne = sesion[s].ne
      BY <1>l DEF Registro, N
    <3> HIDE DEF r
    <3>3. Sabe(r)
      BY <1>z, <2>1, <2>a, <3>2 DEF Sabe, DeNota
    <3> QED
      BY <3>1, <3>3
  <2>2. CASE p \in {"xml_erp", "enviar_erp"}
    <3> DEFINE r == [Libre EXCEPT !.paso = p, !.nota = N(s)]
    <3>1. Pasar(s, p) = r
      BY <2>2 DEF Pasar
    <3>2. r.paso = p /\ r.prot = 0 /\ r.ne = "nada"
      BY <1>l DEF Registro
    <3> HIDE DEF r
    <3>3. Sabe(r)
      BY <2>2, <3>2 DEF Sabe, DeNota
    <3> QED
      BY <3>1, <3>3
  <2>3. CASE p \notin {"reponer", "consulta_erp", "xml_erp", "enviar_erp"}
    <3> DEFINE r == [sesion[s] EXCEPT !.paso = p]
    <3>1. Pasar(s, p) = r
      BY <2>b, <2>3 DEF Pasar, Sigue
    <3>2. /\ r.paso = p /\ r.nota = sesion[s].nota /\ r.prot = sesion[s].prot
          /\ r.monto = sesion[s].monto /\ r.ne = sesion[s].ne
      BY <1>z DEF Registro
    <3> HIDE DEF r
    <3>3. p \notin {"consulta_rpc", "consulta_fila", "enviar_soap"}
          /\ (p = "enviar_fila" => sesion[s].paso = "enviar_soap")
      BY DEF Sigue
    <3>4. Sabe(r)
      BY <1>z, <2>a, <3>2, <3>3 DEF Sabe
    <3> QED
      BY <3>1, <3>4
  <2> QED
    BY <2>1, <2>2, <2>3
<1> QED
  BY <1>1, <1>2

LEMMA IrSabe ==
  ASSUME TipoReal, InvNotas, NEW s \in Sesiones, NEW p, Sigue(sesion[s].paso, p), Ir(s, p)
  PROVE  SesionesFieles
<1>1. Pasar(s, p) \in Peticion /\ Sabe(Pasar(s, p))
  BY PasarTipo, PasarSabe
<1> QED
  BY <1>1, UnaSesion DEF Ir

LEMMA SeguirSabe ==
  ASSUME TipoReal, InvNotas, NEW s \in Sesiones, NEW ps,
         \A p \in ps : Sigue(sesion[s].paso, p), Seguir(s, ps)
  PROVE  SesionesFieles
BY IrSabe DEF Seguir

LEMMA Quieto ==
  ASSUME TipoReal, InvNotas, nc' = nc, lotes' = lotes, SesionesFieles
  PROVE  InvNotas'
BY CreceSin, NotasQuietas, Quedan

(* The invoice was written.                                                *)
LEMMA EnvejecerSabe ==
  ASSUME TipoReal, InvNotas, NEW s \in Sesiones, Envejecer(s, "libre")
  PROVE  SesionesFieles
<1>1. ASSUME NEW t \in Sesiones PROVE \E q \in Peticion : sesion'[t] = q /\ Sabe(q)
  <2>1. CASE t = s
    <3>1. sesion'[t] = Libre
      BY <2>1 DEF Envejecer, Pasar
    <3> QED
      BY <3>1, LibreTipo, LibreSabe
  <2>2. CASE t # s /\ sesion[t].paso \in PasosFactura
    <3> DEFINE r == [sesion[t] EXCEPT !.vieja = TRUE]
    <3>1. sesion'[t] = r
      BY <2>2 DEF Envejecer
    <3>2. sesion' \in [Sesiones -> Peticion]
      BY EnvejecerTipo
    <3>3. r \in Peticion
      BY <3>1, <3>2
    <3>4. r.paso = sesion[t].paso
      BY Presente DEF Registro
    <3> HIDE DEF r
    <3>5. Sabe(r)
      BY <2>2, <3>4, SinNotaSabe DEF PasosFactura, PasosConNota, PasosNota
    <3> QED
      BY <3>1, <3>3, <3>5
  <2>3. CASE t # s /\ sesion[t].paso \notin PasosFactura
    <3>1. sesion'[t] = sesion[t]
      BY <2>3 DEF Envejecer
    <3> QED
      BY <3>1, Presente
  <2> QED
    BY <2>1, <2>2, <2>3
<1> QED
  BY <1>1 DEF SesionesFieles

LEMMA EscribirFacturaSabe ==
  ASSUME TipoReal, InvNotas, NEW s \in Sesiones, NEW fila, EscribirFactura(s, fila, "libre"),
         nc' = nc, lotes' = lotes
  PROVE  InvNotas'
BY EnvejecerSabe, Quieto DEF EscribirFactura

(* A request that begins without a note.                                   *)
LEMMA EmpezarSabe ==
  ASSUME TipoReal, InvNotas, NEW s \in Sesiones, NEW r \in Peticion, Sabe(r), Empezar(s, r)
  PROVE  InvNotas'
BY UnaSesion, Quieto DEF Empezar

LEMMA SinNotaEmpieza ==
  ASSUME TipoReal, InvNotas, NEW s \in Sesiones, TipoReal', NEW r, Empezar(s, r),
         r.paso \notin PasosConNota, lotes' = lotes
  PROVE  InvNotas'
<1>1. sesion'[s] = r /\ sesion' = [sesion EXCEPT ![s] = r]
  BY DEF Empezar, TipoReal
<1>2. Peticion' = Peticion
  BY DEF Peticion, Registro, Apta, Lotes
<1>3. r \in Peticion
  BY <1>1, <1>2 DEF TipoReal
<1> QED
  BY <1>3, SinNotaSabe, EmpezarSabe

LEMMA SabePago ==
  ASSUME TipoReal, TipoReal', InvNotas, NEW s \in Sesiones, Pago(s)
  PROVE  InvNotas'
<1>i. sesion[s].paso \in Pasos
  BY Presente DEF Registro
<1>p. /\ Sigue("pago_insertar", "pago_aplicar")
      /\ \A a \in Pasos : Sigue(a, "pago_borrar") /\ Sigue(a, "libre")
  BY DEF Sigue, Pasos, PasosFactura, PasosNota, PasosConNota
<1>1. ASSUME NEW m \in Importes, LeerPago(s, m)
      PROVE  InvNotas'
  <2> DEFINE r == [Libre EXCEPT !.paso = "pago_insertar", !.leida = factura, !.monto = m]
  <2>1. Empezar(s, r) /\ lotes' = lotes
    BY <1>1 DEF LeerPago, Empezar
  <2>2. r.paso \notin PasosConNota
    BY DEF Libre, PasosConNota, PasosNota
  <2> HIDE DEF r
  <2> QED
    BY <2>1, <2>2, SinNotaEmpieza
<1>2. CASE AplicarPago(s)
  BY <1>2, EscribirFacturaSabe DEF AplicarPago
<1>3. CASE InsertarPago(s) \/ NoAplicarPago(s) \/ BorrarPago(s)
  <2>1. SesionesFieles
    BY <1>p, <1>i, <1>3, IrSabe DEF InsertarPago, NoAplicarPago, BorrarPago, En
  <2>2. nc' = nc /\ lotes' = lotes
    BY <1>3 DEF InsertarPago, NoAplicarPago, BorrarPago
  <2> QED
    BY <2>1, <2>2, Quieto
<1> QED
  BY <1>1, <1>2, <1>3 DEF Pago

LEMMA SabeAnular ==
  ASSUME TipoReal, TipoReal', InvNotas, NEW s \in Sesiones, Anular(s)
  PROVE  InvNotas'
<1>i. sesion[s].paso \in Pasos
  BY Presente DEF Registro
<1>p. \A a \in Pasos, p \in {"libre", "cancelar_factura", "cancelar_deshacer"} : Sigue(a, p)
  BY DEF Sigue, Pasos, PasosFactura, PasosNota, PasosConNota
<1>1. CASE LeerBaja(s) \/ LeerCancelar(s)
  <2>1. PICK p \in {"baja_anular", "cancelar_fila"} : Empezar(s, [Libre EXCEPT !.paso = p])
    BY <1>1 DEF LeerBaja, LeerCancelar
  <2> DEFINE r == [Libre EXCEPT !.paso = p]
  <2>2. r.paso \notin PasosConNota
    BY DEF Libre, PasosConNota, PasosNota
  <2>3. Empezar(s, r) /\ lotes' = lotes
    BY <2>1 DEF Empezar
  <2> HIDE DEF r
  <2> QED
    BY <2>2, <2>3, SinNotaEmpieza
<1>2. CASE AnularPorBaja(s)
  BY <1>2, EscribirFacturaSabe DEF AnularPorBaja
<1>3. CASE CancelarFila(s)
  BY <1>p, <1>i, <1>3, SeguirSabe, Quieto DEF CancelarFila
<1>4. CASE AnularPorCancelar(s)
  <2>1. nc' = nc /\ lotes' = lotes
    BY <1>4 DEF AnularPorCancelar
  <2>2. CASE EscribirFactura(s, [estado |-> "Anulado", saldo |-> 0], "libre")
    BY <2>1, <2>2, EscribirFacturaSabe
  <2>3. CASE Ir(s, "cancelar_deshacer")
    BY <1>p, <1>i, <2>1, <2>3, IrSabe, Quieto
  <2> QED
    BY <1>4, <2>2, <2>3 DEF AnularPorCancelar
<1>5. CASE DeshacerCancelar(s)
  BY <1>p, <1>i, <1>5, IrSabe, Quieto DEF DeshacerCancelar
<1> QED
  BY <1>1, <1>2, <1>3, <1>4, <1>5 DEF Anular

LEMMA SabeCrear ==
  ASSUME TipoReal, TipoReal', InvNotas, NEW s \in Sesiones, Crear(s)
  PROVE  InvNotas'
<1>z. sesion[s] \in Registro /\ Apta(sesion[s])
  BY Presente
<1>p. /\ Sigue("crear_validar", "crear_insertar") /\ Sigue("crear_detallar", "crear_borrar")
      /\ \A a \in Pasos : Sigue(a, "libre")
      /\ {"crear_detallar", "crear_borrar"} \subseteq PasosConNota
  BY DEF Sigue, Pasos, PasosFactura, PasosNota, PasosConNota
<1>i. sesion[s].paso \in Pasos
  BY <1>z DEF Registro
<1>e. {"borrador", "borrada"} \subseteq EstadosErp /\ {"nada", "sin_envio"} \subseteq EstadosNe
  BY DEF EstadosErp, EstadosNe
<1>1. CASE LeerCrear(s)
  <2> DEFINE r == [Libre EXCEPT !.paso = "crear_validar", !.monto = factura.saldo]
  <2>1. Empezar(s, r) /\ lotes' = lotes
    BY <1>1 DEF LeerCrear, Empezar
  <2>2. r.paso \notin PasosConNota
    BY DEF Libre, PasosConNota, PasosNota
  <2> HIDE DEF r
  <2> QED
    BY <2>1, <2>2, SinNotaEmpieza
<1>2. CASE ValidarCrear(s)
  BY <1>p, <1>2, IrSabe, Quieto DEF ValidarCrear, En
<1>3. ASSUME NEW n \in Notas, InsertarNc(s, n)
      PROVE  InvNotas'
  <2> DEFINE r == [Libre EXCEPT !.paso = "crear_detallar", !.nota = n]
             c == [nc[n] EXCEPT !.erp = "borrador", !.monto = sesion[s].monto]
  <2>1. sesion' = [sesion EXCEPT ![s] = r] /\ lotes' = lotes
    BY <1>3 DEF InsertarNc
  <2>2. nc' = [nc EXCEPT ![n] = c]
    BY <1>3 DEF InsertarNc, TipoReal
  <2>3. NotaReal' = NotaReal /\ Peticion' = Peticion
    BY <2>1 DEF NotaReal, Peticion, Registro, Apta, Lotes
  <2>4. c \in NotaReal
    <3>1. nc'[n] = c
      BY <2>2 DEF TipoReal
    <3> QED
      BY <2>3, <3>1 DEF TipoReal
  <2>5. r \in Peticion
    <3>1. sesion'[s] = r
      BY <2>1 DEF TipoReal
    <3> QED
      BY <2>3, <3>1 DEF TipoReal
  <2>6. c.prot = nc[n].prot /\ c.ne = nc[n].ne /\ c.impactos = nc[n].impactos
    BY NotaPresente DEF NotaReal
  <2>7. r.prot = 0 /\ r.ne = "nada" /\ r.paso = "crear_detallar"
    BY DEF Libre
  <2> HIDE DEF r, c
  <2>8. NotaFiel(n, c)
    BY <2>6, NotaPresente DEF NotaFiel
  <2>9. Sabe(r)
    BY <2>7 DEF Sabe, DeNota
  <2>10. NotasFieles /\ Crece
    BY <2>1, <2>2, <2>4, <2>6, <2>8, UnaNota
  <2>11. SesionesFieles
    BY <2>1, <2>5, <2>9, UnaSesion
  <2> QED
    BY <2>10, <2>11, Quedan
<1>4. CASE DetallarNc(s)
  <2>0. N(s) \in Notas
    BY <1>p, <1>z, <1>4 DEF DetallarNc, En, Apta, N
  <2>1. \A p \in {"libre", "crear_borrar"} : Sigue(sesion[s].paso, p)
    BY <1>p, <1>i, <1>4 DEF DetallarNc, En
  <2>2. Seguir(s, {"libre", "crear_borrar"})
    BY <1>4 DEF DetallarNc, Seguir
  <2>3. SesionesFieles
    BY <2>1, <2>2, SeguirSabe
  <2>4. lotes' = lotes /\ (nc' = nc \/ nc' = [nc EXCEPT ![N(s)].ne = "sin_envio"])
    BY <1>4 DEF DetallarNc
  <2>5. NotasFieles /\ Crece
    BY <1>e, <2>0, <2>4, OtroNe, NotasQuietas, CreceSin
  <2> QED
    BY <2>3, <2>5, Quedan
<1>5. CASE BorrarNc(s)
  <2>0. N(s) \in Notas
    BY <1>p, <1>z, <1>5 DEF BorrarNc, En, Apta, N
  <2>1. SesionesFieles
    BY <1>p, <1>i, <1>5, IrSabe DEF BorrarNc
  <2>2. lotes' = lotes
    BY <1>5 DEF BorrarNc
  <2>3. CASE nc' = nc
    BY <2>1, <2>2, <2>3, Quieto
  <2>4. CASE nc' = [nc EXCEPT ![N(s)].erp = "borrada", ![N(s)].ne = "nada"]
    <3> DEFINE c == [nc[N(s)] EXCEPT !.erp = "borrada", !.ne = "nada"]
    <3>1. nc' = [nc EXCEPT ![N(s)] = c]
      BY <2>0, <2>4 DEF TipoReal
    <3>2. /\ c \in NotaReal /\ c.ne = "nada" /\ c.prot = nc[N(s)].prot
          /\ c.impactos = nc[N(s)].impactos
      BY <1>e, <2>0, NotaPresente DEF NotaReal
    <3> HIDE DEF c
    <3>3. NotaFiel(N(s), c)
      BY <2>0, <3>2, NotaPresente DEF NotaFiel
    <3>4. NotasFieles /\ Crece
      BY <2>0, <2>2, <3>1, <3>2, <3>3, UnaNota
    <3> QED
      BY <2>1, <3>4, Quedan
  <2> QED
    BY <1>5, <2>3, <2>4 DEF BorrarNc
<1> QED
  BY <1>1, <1>2, <1>3, <1>4, <1>5 DEF Crear

LEMMA LeerNotaSabe ==
  ASSUME TipoReal, TipoReal', InvNotas, NEW s \in Sesiones, NEW n \in Notas,
         NEW p \in {"xml_fila", "firmar_fila", "enviar_soap", "consulta_soap"}, LeerNota(s, n, p)
  PROVE  InvNotas'
<1> DEFINE q == IF p \in {"enviar_soap", "consulta_soap"} THEN nc[n].prot ELSE 0
           r == [Libre EXCEPT !.paso = p, !.nota = n, !.ne = nc[n].ne, !.prot = q]
<1>1. Empezar(s, r) /\ lotes' = lotes
  BY DEF LeerNota, Empezar
<1>2. sesion'[s] = r /\ Peticion' = Peticion
  BY <1>1 DEF Empezar, TipoReal, Peticion, Registro, Apta, Lotes
<1>3. r \in Peticion
  BY <1>2 DEF TipoReal
<1>4. DeNota(q, n)
  BY NotaPresente DEF NotaFiel, DeNota
<1> HIDE DEF q
<1>5. r.paso = p /\ r.nota = n /\ r.ne = nc[n].ne /\ r.prot = q /\ r.monto = 0
  BY DEF Libre
<1> HIDE DEF r
<1>6. r.ne = "aprobado" => nc[n].impactos > 0
  BY <1>5, NotaPresente DEF NotaFiel
<1>7. Sabe(r)
  BY <1>4, <1>5, <1>6 DEF Sabe, DeNota
<1> QED
  BY <1>1, <1>3, <1>7, EmpezarSabe

LEMMA GuardarNeSabe ==
  ASSUME TipoReal, InvNotas, NEW s \in Sesiones, NEW e \in EstadosNe, NEW p,
         N(s) \in Notas, e = "aprobado" => nc[N(s)].impactos > 0,
         Sigue(sesion[s].paso, p), Sigue(sesion[s].paso, "reponer"), GuardarNe(s, e, p)
  PROVE  InvNotas'
<1>1. \A q \in {p, "reponer"} : Sigue(sesion[s].paso, q)
  OBVIOUS
<1>2. Seguir(s, {p, "reponer"})
  BY DEF GuardarNe
<1>3. SesionesFieles
  BY <1>1, <1>2, SeguirSabe
<1>4. NotasFieles /\ Crece
  BY OtroNe DEF GuardarNe
<1> QED
  BY <1>3, <1>4, Quedan

LEMMA MarcarErpSabe ==
  ASSUME TipoReal, InvNotas, NEW s \in Sesiones, NEW desde, NEW a \in EstadosErp, NEW ps,
         N(s) \in Notas, \A p \in ps : Sigue(sesion[s].paso, p), MarcarErp(s, desde, a, ps)
  PROVE  InvNotas'
<1>1. SesionesFieles
  BY SeguirSabe DEF MarcarErp
<1>2. PICK e : /\ e = IF nc[N(s)].erp \in desde THEN a ELSE nc[N(s)].erp
               /\ nc' = nc \/ nc' = [nc EXCEPT ![N(s)].erp = e]
  BY DEF MarcarErp
<1>3. e \in EstadosErp
  BY <1>2, NotaPresente DEF NotaReal
<1>4. lotes' = lotes
  BY DEF MarcarErp
<1>5. NotasFieles /\ Crece
  BY <1>2, <1>3, <1>4, OtroErp, NotasQuietas, CreceSin
<1> QED
  BY <1>1, <1>5, Quedan

LEMMA SabeRecibir ==
  ASSUME TipoReal, TipoReal', InvNotas, NEW s \in Sesiones, RecibirNc(s)
  PROVE  InvNotas'
<1> DEFINE k == Len(lotes) + 1
           nuevo == [nota |-> N(s), res |-> "pendiente"]
<1>z. sesion[s] \in Registro /\ sesion[s].nota \in Notas /\ Sabe(sesion[s])
  BY Presente DEF RecibirNc, En, Apta, PasosConNota, PasosNota
<1>1. lotes \in Seq(Lote) /\ nuevo \in Lote /\ lotes' = Append(lotes, nuevo)
  BY <1>z DEF RecibirNc, TipoReal, Lote, N
<1>2. /\ Len(lotes') = k /\ Len(lotes) \in Nat /\ lotes'[k] = nuevo
      /\ \A i \in 1..Len(lotes) : lotes'[i] = lotes[i]
  BY <1>1
<1>3. Crece
  BY <1>2 DEF Crece, RecibirNc
<1>4. NotasFieles
  BY NotasQuietas DEF RecibirNc
<1>5. CASE Ir(s, "libre")
  <2>1. Sigue(sesion[s].paso, "libre")
    BY DEF Sigue, Pasos, PasosConNota, PasosNota
  <2>2. SesionesFieles
    BY <1>5, <2>1, IrSabe
  <2> QED
    BY <1>3, <1>4, <2>2, Quedan
<1>6. CASE sesion' = [sesion EXCEPT ![s].paso = "enviar_fila", ![s].resp = "encolado",
                                    ![s].monto = Len(lotes) + 1]
  <2>1. PICK r : r = [sesion[s] EXCEPT !.paso = "enviar_fila", !.resp = "encolado", !.monto = k]
    OBVIOUS
  <2>2. sesion' = [sesion EXCEPT ![s] = r]
    BY <1>6, <2>1
  <2>3. /\ r.paso = "enviar_fila" /\ r.nota = N(s) /\ r.monto = k
        /\ r.prot = sesion[s].prot /\ r.ne = sesion[s].ne
    BY <1>z, <2>1 DEF Registro, N
  <2>4. DeNota(r.prot, r.nota)' /\ (r.ne = "aprobado" => nc'[r.nota].impactos > 0)
    <3>1. /\ sesion[s].paso \in PasosConNota /\ r.prot \in Lotes
          /\ DeNota(r.prot, r.nota) /\ (r.ne = "aprobado" => nc[r.nota].impactos > 0)
      BY <1>z, <2>3 DEF RecibirNc, En, Registro, PasosConNota, PasosNota, Sabe, N
    <3>2. DeNota(r.prot, r.nota)'
      BY <1>3, <3>1, DeNotaSigue
    <3> QED
      BY <3>1, <3>2 DEF RecibirNc
  <2>5. DeNota(r.monto, r.nota)'
    BY <1>2, <2>3 DEF DeNota
  <2>6. Sabe(r)'
    BY <2>3, <2>4, <2>5 DEF Sabe
  <2>7. ASSUME NEW t \in Sesiones PROVE Sabe(sesion[t])'
    <3>1. CASE t = s
      <4>1. sesion'[t] = r
        BY <2>2, <3>1 DEF TipoReal
      <4> QED
        BY <2>6, <4>1 DEF Sabe
    <3>2. CASE t # s
      <4>1. PICK q \in Peticion : q = sesion[t] /\ Sabe(q)
        BY Presente
      <4>2. sesion'[t] = q
        BY <2>2, <3>2, <4>1 DEF TipoReal
      <4>3. Sabe(q)'
        BY <1>3, <4>1, SabeSigue
      <4> QED
        BY <4>2, <4>3 DEF Sabe
    <3> QED
      BY <3>1, <3>2
  <2>8. ASSUME NEW m \in Notas PROVE NotaFiel(m, nc[m])'
    <3>1. PICK c \in NotaReal : c = nc[m] /\ NotaFiel(m, c)
      BY NotaPresente
    <3>2. nc'[m] = c
      BY <3>1 DEF RecibirNc
    <3>3. NotaFiel(m, c)'
      BY <1>3, <3>1, NotaSigue
    <3> QED
      BY <3>2, <3>3 DEF NotaFiel
  <2> QED
    BY <2>7, <2>8 DEF InvNotas
<1> QED
  BY <1>5, <1>6 DEF RecibirNc

LEMMA SabeNoRecibir ==
  ASSUME TipoReal, InvNotas, NEW s \in Sesiones, NoRecibirNc(s)
  PROVE  InvNotas'
<1>z. sesion[s] \in Registro /\ sesion[s].nota \in Notas
  BY Presente DEF NoRecibirNc, En, Apta, PasosConNota, PasosNota
<1>1. SesionesFieles
  <2>1. Sigue(sesion[s].paso, "libre") /\ Sigue(sesion[s].paso, "enviar_fila")
    BY DEF NoRecibirNc, En, Sigue, Pasos, PasosFactura, PasosNota, PasosConNota
  <2> QED
    BY <2>1, IrSabe DEF NoRecibirNc
<1>2. CASE lotes' = lotes
  BY <1>1, <1>2, Quieto DEF NoRecibirNc
<1>3. CASE lotes' # lotes
  <2> DEFINE nuevo == [nota |-> N(s), res |-> "pendiente"]
  <2>1. lotes \in Seq(Lote) /\ nuevo \in Lote /\ lotes' = Append(lotes, nuevo)
    BY <1>z, <1>3 DEF NoRecibirNc, TipoReal, Lote, N
  <2> HIDE DEF nuevo
  <2>2. /\ Len(lotes') = Len(lotes) + 1 /\ Len(lotes) \in Nat
        /\ \A i \in 1..Len(lotes) : lotes'[i] = lotes[i]
    BY <2>1
  <2>3. Crece
    BY <2>2 DEF Crece, NoRecibirNc
  <2>4. NotasFieles
    BY NotasQuietas DEF NoRecibirNc
  <2> QED
    BY <1>1, <2>3, <2>4, Quedan
<1> QED
  BY <1>2, <1>3

LEMMA SabeDocumento ==
  ASSUME TipoReal, TipoReal', InvNotas, NEW s \in Sesiones, Documento(s)
  PROVE  InvNotas'
<1>z. sesion[s] \in Registro /\ Apta(sesion[s]) /\ Sabe(sesion[s])
  BY Presente
<1>i. sesion[s].paso \in Pasos /\ sesion[s].ne \in EstadosNe /\ sesion[s].prot \in Lotes
  BY <1>z DEF Registro
<1>p. /\ \A a \in Pasos : Sigue(a, "libre")
      /\ \A a \in PasosConNota : /\ Sigue(a, "reponer") /\ Sigue(a, "xml_erp")
                                 /\ Sigue(a, "enviar_reponer") /\ Sigue(a, "enviar_erp")
      /\ Sigue("enviar_soap", "enviar_fila")
      /\ {"xml_fila", "xml_erp", "firmar_fila", "enviar_soap", "enviar_fila", "enviar_erp",
          "enviar_reponer", "reponer"} \subseteq PasosConNota
  BY DEF Sigue, Pasos, PasosFactura, PasosNota, PasosConNota
<1>e. {"generado", "firmado", "enviado", "error_envio"} \subseteq EstadosNe
      /\ {"pendiente_envio_sifen", "error"} \subseteq EstadosErp
  BY DEF EstadosNe, EstadosErp
<1>n. sesion[s].paso \in PasosConNota =>
        /\ N(s) \in Notas
        /\ sesion[s].ne = "aprobado" => nc[N(s)].impactos > 0
        /\ DeNota(sesion[s].prot, N(s))
  BY <1>z DEF Apta, Sabe, N
<1>1. ASSUME NEW n \in Notas, LeerXmlNc(s, n) \/ LeerFirmarNc(s, n) \/ LeerEnviarNc(s, n)
      PROVE  InvNotas'
  <2>1. PICK p \in {"xml_fila", "firmar_fila", "enviar_soap"} : LeerNota(s, n, p)
    BY <1>1 DEF LeerXmlNc, LeerFirmarNc, LeerEnviarNc, LeerConGate
  <2> QED
    BY <2>1, LeerNotaSabe
<1>2. CASE GuardarXmlNc(s)
  BY <1>p, <1>n, <1>e, <1>2, GuardarNeSabe DEF GuardarXmlNc, En
<1>3. CASE PasarPendiente(s)
  <2>1. \A p \in {"libre"} : Sigue(sesion[s].paso, p)
    BY <1>p, <1>i
  <2> QED
    BY <1>p, <1>n, <1>e, <1>3, <2>1, MarcarErpSabe DEF PasarPendiente, En
<1>4. CASE GuardarFirmaNc(s)
  BY <1>p, <1>n, <1>i, <1>e, <1>4, GuardarNeSabe DEF GuardarFirmaNc, En
<1>5. CASE ReponerNe(s)
  <2>1. N(s) \in Notas /\ lotes' = lotes
    BY <1>p, <1>n, <1>5 DEF ReponerNe, En
  <2>2. NotasFieles /\ Crece
    BY <1>p, <1>i, <1>n, <1>5, <2>1, OtroNe, NotasQuietas, CreceSin DEF ReponerNe, En
  <2>3. SesionesFieles
    BY <1>p, <1>i, <1>5, IrSabe DEF ReponerNe
  <2> QED
    BY <2>2, <2>3, Quedan
<1>6. CASE RecibirNc(s)
  BY <1>6, SabeRecibir
<1>7. CASE NoRecibirNc(s)
  BY <1>7, SabeNoRecibir
<1>8. CASE GuardarEnvioNc(s)
  <2> DEFINE tomado == sesion[s].resp = "encolado"
             e == IF tomado THEN "enviado" ELSE "error_envio"
             ps == {"enviar_reponer", IF tomado THEN "libre" ELSE "enviar_erp"}
  <2>1. sesion[s].monto \in Lotes /\ DeNota(sesion[s].monto, N(s)) /\ N(s) \in Notas
    BY <1>p, <1>n, <1>z, <1>8 DEF GuardarEnvioNc, En, Apta, Sabe, N
  <2>2. nc' = [nc EXCEPT ![N(s)].ne = e, ![N(s)].prot = sesion[s].monto] /\ lotes' = lotes
    BY <1>8 DEF GuardarEnvioNc
  <2>3. e \in EstadosNe /\ e # "aprobado"
    BY <1>e
  <2>4. NotasFieles /\ Crece
    BY <2>1, <2>2, <2>3, OtroEnvio
  <2>5. \A p \in ps : Sigue(sesion[s].paso, p)
    BY <1>p, <1>i, <1>8 DEF GuardarEnvioNc, En
  <2>6. Seguir(s, ps)
    BY <1>8 DEF GuardarEnvioNc
  <2>7. SesionesFieles
    BY <2>5, <2>6, SeguirSabe
  <2> QED
    BY <2>4, <2>7, Quedan
<1>9. CASE ReponerEnvio(s)
  <2>1. /\ N(s) \in Notas /\ lotes' = lotes /\ DeNota(sesion[s].prot, N(s))
        /\ sesion[s].ne = "aprobado" => nc[N(s)].impactos > 0
    BY <1>p, <1>n, <1>9 DEF ReponerEnvio, En
  <2>2. \/ nc' = nc
        \/ nc' = [nc EXCEPT ![N(s)].ne = sesion[s].ne, ![N(s)].prot = sesion[s].prot]
    BY <1>9 DEF ReponerEnvio
  <2>3. NotasFieles /\ Crece
    BY <1>i, <2>1, <2>2, OtroEnvio, NotasQuietas, CreceSin
  <2>4. SesionesFieles
    BY <1>p, <1>i, <1>9, IrSabe DEF ReponerEnvio
  <2> QED
    BY <2>3, <2>4, Quedan
<1>10. CASE MarcarError(s)
  <2>1. \A p \in {"libre"} : Sigue(sesion[s].paso, p)
    BY <1>p, <1>i
  <2> QED
    BY <1>p, <1>n, <1>e, <1>10, <2>1, MarcarErpSabe DEF MarcarError, En
<1> QED
  BY <1>1, <1>2, <1>3, <1>4, <1>5, <1>6, <1>7, <1>8, <1>9, <1>10 DEF Documento

LEMMA SabeConsultar ==
  ASSUME TipoReal, TipoReal', InvNotas, NEW s \in Sesiones, ConsultarNc(s)
  PROVE  InvNotas'
<1>z. sesion[s] \in Registro /\ Apta(sesion[s]) /\ Sabe(sesion[s])
  BY Presente
<1>p. sesion[s].paso \in PasosConNota
  BY DEF ConsultarNc, En, PasosConNota, PasosNota
<1>q. nc' = nc /\ lotes' = lotes
  BY DEF ConsultarNc
<1>1. CASE Ir(s, "libre")
  <2>1. Sigue(sesion[s].paso, "libre")
    BY DEF Sigue, Pasos, PasosConNota, PasosNota
  <2> QED
    BY <1>1, <1>q, <2>1, IrSabe, Quieto
<1>2. CASE ~ Ir(s, "libre")
  <2>1. PICK q \in {sesion[s].ne, InferirNc(sesion[s].ne, lotes[sesion[s].prot].res)},
               r \in Registro :
            /\ sesion' = [sesion EXCEPT ![s] = r]
            /\ r.paso = Destino(sesion[s].ne, q) /\ r.resp = q
            /\ r.prot = 0 /\ r.nota = sesion[s].nota /\ r.ne = sesion[s].ne
    BY <1>2, ConsultarDestino
  <2>2. /\ sesion[s].prot \in 1..Len(lotes)
        /\ q = "aprobado" /\ sesion[s].ne # q => lotes[sesion[s].prot].res = "aprobado"
    BY InferirTipo DEF ConsultarNc
  <2>3. r \in Peticion
    <3>1. sesion'[s] = r /\ Peticion' = Peticion
      BY <1>q, <2>1 DEF TipoReal, Peticion, Registro, Apta, Lotes
    <3> QED
      BY <3>1 DEF TipoReal
  <2>4. r.paso = "consulta_rpc" => Acreditable(r.nota)
    <3>1. SUFFICES ASSUME r.paso = "consulta_rpc" PROVE Acreditable(r.nota)
      OBVIOUS
    <3>2. lotes[sesion[s].prot].res = "aprobado"
      BY <2>1, <2>2, <3>1 DEF Destino
    <3>3. lotes[sesion[s].prot].nota = sesion[s].nota
      BY <1>z, <1>p, <2>2 DEF Sabe, DeNota
    <3>4. lotes[sesion[s].prot] \in Lote
      BY <2>2, ElementOfSeq DEF TipoReal
    <3> QED
      BY <2>1, <2>2, <3>2, <3>3, <3>4 DEF Acreditable, Lote
  <2>5. r.paso = "consulta_fila" /\ r.resp = "aprobado" => r.ne = "aprobado"
    BY <2>1 DEF Destino
  <2>6. Sabe(r)
    BY <1>z, <1>p, <2>1, <2>4, <2>5 DEF Sabe, DeNota, Destino
  <2>7. SesionesFieles
    BY <2>1, <2>3, <2>6, UnaSesion
  <2> QED
    BY <1>q, <2>7, Quieto
<1> QED
  BY <1>1, <1>2

LEMMA SabeAplicar ==
  ASSUME TipoReal, TipoReal', InvNotas, NEW s \in Sesiones, AplicarAprobacion(s)
  PROVE  InvNotas'
<1>z. sesion[s] \in Registro /\ Apta(sesion[s]) /\ Sabe(sesion[s])
  BY Presente
<1>1. PICK n \in Notas : n = N(s) /\ Acreditable(n)
  BY <1>z DEF AplicarAprobacion, En, Apta, Sabe, N, PasosConNota, PasosNota
<1>2. nc[n] \in NotaReal /\ NotaFiel(n, nc[n])
  BY NotaPresente
<1> DEFINE e == IF nc[n].erp = "anulada_borrador" THEN nc[n].erp ELSE "aprobada"
           k == nc[n].impactos + 1
           c == [nc[n] EXCEPT !.ne = "aprobado", !.impactos = k, !.erp = e]
<1>3. nc' = [nc EXCEPT ![n] = c] /\ lotes' = lotes /\ Envejecer(s, "libre")
  BY <1>1 DEF AplicarAprobacion, TipoReal
<1>4. k \in Nat /\ k > 0
  BY <1>2 DEF NotaReal
<1>5. e \in EstadosErp /\ "aprobado" \in EstadosNe
  BY <1>2 DEF NotaReal, EstadosErp, EstadosNe
<1> HIDE DEF e, k
<1>6. c \in NotaReal /\ c.impactos = k /\ c.prot = nc[n].prot
  BY <1>2, <1>4, <1>5 DEF NotaReal
<1> HIDE DEF c
<1>7. NotaFiel(n, c)
  BY <1>1, <1>2, <1>4, <1>6 DEF NotaFiel
<1>8. NotasFieles /\ Crece
  BY <1>3, <1>4, <1>6, <1>7, UnaNota
<1> QED
  BY <1>3, <1>8, EnvejecerSabe, Quedan

LEMMA SabeConsulta ==
  ASSUME TipoReal, TipoReal', InvNotas, NEW s \in Sesiones, Consulta(s)
  PROVE  InvNotas'
<1>z. sesion[s] \in Registro /\ Apta(sesion[s]) /\ Sabe(sesion[s])
  BY Presente
<1>p. /\ \A a \in Pasos : Sigue(a, "libre")
      /\ \A a \in PasosConNota : Sigue(a, "reponer") /\ Sigue(a, "consulta_erp")
      /\ {"consulta_rechazo", "consulta_erp", "consulta_fila"} \subseteq PasosConNota
  BY DEF Sigue, Pasos, PasosFactura, PasosNota, PasosConNota
<1>i. sesion[s].paso \in Pasos
  BY <1>z DEF Registro
<1>n. sesion[s].paso \in PasosConNota =>
        N(s) \in Notas /\ (sesion[s].ne = "aprobado" => nc[N(s)].impactos > 0)
  BY <1>z DEF Apta, Sabe, N
<1>1. ASSUME NEW n \in Notas, LeerConsultaNc(s, n)
      PROVE  InvNotas'
  BY <1>1, LeerNotaSabe DEF LeerConsultaNc
<1>2. CASE ConsultarNc(s)
  BY <1>2, SabeConsultar
<1>3. CASE AplicarAprobacion(s)
  BY <1>3, SabeAplicar
<1>4. CASE GuardarRechazo(s)
  <2>1. "rechazado" \in EstadosNe
    BY DEF EstadosNe
  <2> QED
    BY <1>p, <1>n, <1>4, <2>1, GuardarNeSabe DEF GuardarRechazo, En
<1>5. CASE MarcarRechazada(s)
  <2>1. \A p \in {"libre", "reponer"} : Sigue(sesion[s].paso, p)
    BY <1>p, <1>i, <1>5 DEF MarcarRechazada, En
  <2>2. "rechazada" \in EstadosErp
    BY DEF EstadosErp
  <2> QED
    BY <1>p, <1>n, <1>5, <2>1, <2>2, MarcarErpSabe DEF MarcarRechazada, En
<1>6. CASE GuardarConsultaNc(s)
  <2>1. sesion[s].resp \in EstadosNe /\ sesion[s].paso \in PasosConNota
    BY <1>p, <1>z, <1>6 DEF GuardarConsultaNc, En, Apta
  <2>2. sesion[s].resp = "aprobado" => nc[N(s)].impactos > 0
    BY <1>z, <1>n, <1>6, <2>1 DEF GuardarConsultaNc, En, Sabe
  <2> QED
    BY <1>p, <1>i, <1>n, <1>6, <2>1, <2>2, GuardarNeSabe DEF GuardarConsultaNc
<1> QED
  BY <1>1, <1>2, <1>3, <1>4, <1>5, <1>6 DEF Consulta

LEMMA SabeDictaminar ==
  ASSUME TipoReal, InvNotas, NEW i \in 1..Len(lotes), Dictaminar(i)
  PROVE  InvNotas'
<1>1. PICK r : lotes' = [lotes EXCEPT ![i].res = r]
  BY DEF Dictaminar
<1>2. /\ lotes \in Seq(Lote) /\ Len(lotes') = Len(lotes)
      /\ \A j \in 1..Len(lotes) : lotes'[j] = IF j = i THEN [lotes[i] EXCEPT !.res = r]
                                                       ELSE lotes[j]
  BY <1>1 DEF TipoReal
<1>3. lotes[i] \in Lote
  BY <1>2, ElementOfSeq
<1>4. Crece
  BY <1>2, <1>3 DEF Crece, Dictaminar, Lote
<1> QED
  BY <1>4, NotasQuietas, SesionesQuietas, Quedan DEF Dictaminar

LEMMA NotasInicial == Init => InvNotas
<1> SUFFICES ASSUME Init PROVE InvNotas
  OBVIOUS
<1>1. \A n \in Notas : NotaFiel(n, nc[n])
  BY DEF Init, SinNota, NotaFiel, DeNota
<1> QED
  BY <1>1, LibreSabe DEF Init, InvNotas

LEMMA NotasPaso == TipoReal /\ InvNotas /\ [Next]_vars => InvNotas'
<1> SUFFICES ASSUME TipoReal, InvNotas, [Next]_vars PROVE InvNotas'
  OBVIOUS
<1>t. TipoReal'
  BY TipoPaso
<1>1. CASE UNCHANGED vars
  BY <1>1, SesionesQuietas, Quieto DEF vars
<1>2. ASSUME NEW s \in Sesiones, Fallar(s) \/ Caer(s)
      PROVE  InvNotas'
  <2>1. Sigue(sesion[s].paso, "libre")
    BY DEF Sigue, Pasos, PasosConNota, PasosNota
  <2>2. SesionesFieles /\ nc' = nc /\ lotes' = lotes
    BY <1>2, <2>1, IrSabe DEF Fallar, Caer
  <2> QED
    BY <2>2, Quieto
<1>3. ASSUME NEW n \in Notas, AnularBorrador(n)
      PROVE  InvNotas'
  <2>1. "anulada_borrador" \in EstadosErp
    BY DEF EstadosErp
  <2> QED
    BY <1>3, <2>1, OtroErp, SesionesQuietas, Quedan DEF AnularBorrador
<1>4. CASE VencerPlazo
  BY <1>4, SesionesQuietas, Quieto DEF VencerPlazo
<1> QED
  BY <1>t, <1>1, <1>2, <1>3, <1>4, SabePago, SabeAnular, SabeCrear, SabeDocumento,
     SabeConsulta, SabeDictaminar DEF Next

(* Types, and what notes and requests know of the lots.                    *)
THEOREM InvarianteDeNotas == Spec => [](TipoReal /\ InvNotas)
<1>1. Init => TipoReal /\ InvNotas
  BY TipoInicial, NotasInicial
<1>2. TipoReal /\ InvNotas /\ [Next]_vars => (TipoReal /\ InvNotas)'
  BY TipoPaso, NotasPaso
<1> QED
  BY <1>1, <1>2, PTL DEF Spec

(* A note shows as approved only if the balance took it, and the balance   *)
(* takes only notes that SET approved, whatever requests interleave,       *)
(* restore old states or die.                                              *)
THEOREM SoloLoQueAproboSet == Spec => []ImpactoPorSet
BY InvarianteDeNotas, NotasBasta, PTL

=============================================================================
