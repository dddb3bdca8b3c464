----------------------------- MODULE CajaProofs -----------------------------
(***************************************************************************)
(* Proofs about Caja, for every number of shifts, requests and amounts.    *)
(***************************************************************************)
EXTENDS Caja, TLAPS

(* The sums depend only on the rows they are taken over.                   *)
LEMMA MismasVentas ==
    ASSUME NEW t \in Turnos, VentasDe(t)' = VentasDe(t),
           \A v \in VentasDe(t) : venta'[v].forma = venta[v].forma
    PROVE  EfectivoVentas(t)' = EfectivoVentas(t)
<1>1. [v \in VentasDe(t) |-> EfectivoPorCabecera(venta[v].forma)]'
      = [v \in VentasDe(t) |-> EfectivoPorCabecera(venta[v].forma)]
  BY DEF EfectivoPorCabecera
<1>2. QED
  BY <1>1 DEF EfectivoVentas

LEMMA MismosMovs ==
    ASSUME NEW t \in Turnos, MovsDe(t)' = MovsDe(t),
           \A m \in MovsDe(t) : mov'[m].importe = mov[m].importe
    PROVE  EfectivoMovs(t)' = EfectivoMovs(t)
<1>1. [m \in MovsDe(t) |-> mov[m].importe]' = [m \in MovsDe(t) |-> mov[m].importe]
  OBVIOUS
<1>2. QED
  BY <1>1 DEF EfectivoMovs

-----------------------------------------------------------------------------
(* The inductive invariant.  A request that opens a shift is over before   *)
(* the shift is active; what an untouched closing read is what there is.   *)
AltaPrevia ==
    \A t \in Turnos : alta[t] # "fin" => turno[t].estado = "nada"

LecturaVigente ==
    \A c \in Cierres \ tocados :
        /\ cierre[c].paso \in {"movs", "guardar"} =>
              cierre[c].ventas = EfectivoVentas(cierre[c].t)
        /\ cierre[c].paso = "guardar" =>
              cierre[c].movs = EfectivoMovs(cierre[c].t)

InvCaja == AltaPrevia /\ UnTurnoPorNumero /\ LecturaVigente /\ ArqueoExacto

LEMMA TipoInicial == Init => TypeOK
BY CajaAssumption DEF Init, TypeOK, UnTurno, EstadosActivos

LEMMA CambioDeEstado ==
    ASSUME TypeOK, NEW t \in Turnos, NEW e \in {"nada", "cerrada"} \cup EstadosActivos
    PROVE  [turno EXCEPT ![t] = [turno[t] EXCEPT !.estado = e]]
               \in [Turnos -> [estado : {"nada", "cerrada"} \cup EstadosActivos,
                               numero : {0} \cup Numeros]]
<1> DEFINE Registro == [estado : {"nada", "cerrada"} \cup EstadosActivos,
                        numero : {0} \cup Numeros]
<1>1. turno \in [Turnos -> Registro] /\ turno[t] \in Registro
  BY DEF TypeOK
<1>2. [turno[t] EXCEPT !.estado = e] \in Registro
  BY <1>1
<1>3. QED
  BY <1>1, <1>2

LEMMA TipoPaso == TypeOK /\ [Next]_vars => TypeOK'
<1> SUFFICES ASSUME TypeOK, [Next]_vars PROVE TypeOK'
  OBVIOUS
<1> USE CajaAssumption DEF TypeOK, EstadosActivos
<1>1. ASSUME NEW t \in Turnos, LeerActivos(t) PROVE TypeOK'
  BY <1>1 DEF LeerActivos
<1>2. ASSUME NEW t \in Turnos, InsertarCaja(t) PROVE TypeOK'
  BY <1>2 DEF InsertarCaja
<1>3. ASSUME NEW t \in Turnos, PonerEnCierre(t) PROVE TypeOK'
  <2>1. turno' = [turno EXCEPT ![t] = [turno[t] EXCEPT !.estado = "en_cierre"]]
    BY <1>3 DEF PonerEnCierre
  <2>2. "en_cierre" \in {"nada", "cerrada"} \cup EstadosActivos
    OBVIOUS
  <2>3. turno' \in [Turnos -> [estado : {"nada", "cerrada"} \cup EstadosActivos,
                              numero : {0} \cup Numeros]]
    <3> HIDE DEF TypeOK, EstadosActivos
    <3>1. QED
      BY <2>1, <2>2, CambioDeEstado
  <2>4. QED
    BY <1>3, <2>3 DEF PonerEnCierre
<1>4. ASSUME NEW v \in Ventas, ElegirCaja(v) PROVE TypeOK'
  BY <1>4 DEF ElegirCaja
<1>5. ASSUME NEW v \in Ventas, InsertarVenta(v) PROVE TypeOK'
  BY <1>5 DEF InsertarVenta, Tocar
<1>6. ASSUME NEW v \in Ventas, ConfirmarVenta(v) PROVE TypeOK'
  BY <1>6 DEF ConfirmarVenta
<1>7. ASSUME NEW v \in Ventas, DeshacerVenta(v) PROVE TypeOK'
  BY <1>7 DEF DeshacerVenta, Tocar
<1>8. ASSUME NEW v \in Ventas, InsertarDetalle(v) PROVE TypeOK'
  BY <1>8 DEF InsertarDetalle
<1>9. ASSUME NEW m \in Movimientos, LeerEstado(m) PROVE TypeOK'
  <2>1. PICK t \in Turnos, i \in Importes :
            mov' = [mov EXCEPT ![m] = [paso |-> "leida", t |-> t, importe |-> i]]
    BY <1>9 DEF LeerEstado
  <2>2. [paso |-> "leida", t |-> t, importe |-> i]
            \in [paso : {"libre", "leida", "activo", "anulado"}, t : Turnos, importe : Int]
    OBVIOUS
  <2>3. mov' \in [Movimientos -> [paso : {"libre", "leida", "activo", "anulado"},
                                  t : Turnos, importe : Int]]
    BY <2>1, <2>2
  <2>4. QED
    BY <1>9, <2>3 DEF LeerEstado
<1>10. ASSUME NEW m \in Movimientos, InsertarMovimiento(m) PROVE TypeOK'
  BY <1>10 DEF InsertarMovimiento, Tocar
<1>11. ASSUME NEW m \in Movimientos, AnularMovimiento(m) PROVE TypeOK'
  BY <1>11 DEF AnularMovimiento, Tocar
<1>12. ASSUME NEW c \in Cierres, LeerCaja(c) PROVE TypeOK'
  BY <1>12 DEF LeerCaja
<1>13. ASSUME NEW c \in Cierres, LeerVentas(c) PROVE TypeOK'
  BY <1>13 DEF LeerVentas
<1>14. ASSUME NEW c \in Cierres, LeerMovs(c) PROVE TypeOK'
  BY <1>14 DEF LeerMovs
<1>15. ASSUME NEW c \in Cierres, Guardar(c) PROVE TypeOK'
  <2>1. turno' \in [Turnos -> [estado : {"nada", "cerrada"} \cup EstadosActivos,
                              numero : {0} \cup Numeros]]
    <3>1. \/ turno' = turno
          \/ \E t \in Turnos :
                turno' = [turno EXCEPT ![t] = [turno[t] EXCEPT !.estado = "cerrada"]]
      BY <1>15 DEF Guardar
    <3>2. "cerrada" \in {"nada", "cerrada"} \cup EstadosActivos
      OBVIOUS
    <3>3. CASE turno' = turno
      BY <3>3
    <3>4. ASSUME NEW t \in Turnos,
                 turno' = [turno EXCEPT ![t] = [turno[t] EXCEPT !.estado = "cerrada"]]
          PROVE  turno' \in [Turnos -> [estado : {"nada", "cerrada"} \cup EstadosActivos,
                                        numero : {0} \cup Numeros]]
      <4> HIDE DEF TypeOK, EstadosActivos
      <4>1. QED
        BY <3>2, <3>4, CambioDeEstado
    <3>5. QED
      BY <3>1, <3>3, <3>4
  <2>2. /\ DOMAIN esperado' = Turnos
        /\ tocados' \subseteq Turnos \cup Cierres
    BY <1>15 DEF Guardar
  <2>3. /\ DOMAIN cierre' = Cierres
        /\ \A d \in Cierres :
              /\ DOMAIN cierre'[d] = {"paso", "t", "ventas", "movs"}
              /\ cierre'[d].paso \in {"libre", "ventas", "movs", "guardar", "fin"}
              /\ cierre'[d].t \in Turnos
    BY <1>15 DEF Guardar
  <2>4. QED
    BY <1>15, <2>1, <2>2, <2>3 DEF Guardar
<1>16. CASE UNCHANGED vars
  BY <1>16 DEF vars
<1>17. QED
  BY <1>1, <1>2, <1>3, <1>4, <1>5, <1>6, <1>7, <1>8, <1>9, <1>10, <1>11, <1>12, <1>13, <1>14, <1>15, <1>16 DEF Next

(* Whatever the shifts and the requests, each row and each request keeps   *)
(* to the states of its column or its handler.                             *)
THEOREM TipoCorrecto == Spec => []TypeOK
<1>1. QED
  BY TipoInicial, TipoPaso, PTL DEF Spec

-----------------------------------------------------------------------------
(* What each step does to the drawer of a shift.                           *)

LEMMA CajonIgual ==
    ASSUME TypeOK, NEW t \in Turnos,
           \/ UNCHANGED <<venta, mov>>
           \/ \E v \in Ventas : ElegirCaja(v) \/ ConfirmarVenta(v) \/ InsertarDetalle(v)
           \/ \E m \in Movimientos : LeerEstado(m)
    PROVE  /\ EfectivoVentas(t)' = EfectivoVentas(t)
           /\ EfectivoMovs(t)' = EfectivoMovs(t)
<1>1. \A v \in Ventas :
          \/ venta'[v] = venta[v]
          \/ venta[v].paso = "libre" /\ venta'[v].paso = "elegida"
          \/ /\ venta'[v].t = venta[v].t /\ venta'[v].forma = venta[v].forma
             /\ venta[v].paso \in {"insertada", "ok"} /\ venta'[v].paso \in {"insertada", "ok"}
  BY DEF TypeOK, ElegirCaja, ConfirmarVenta, InsertarDetalle, LeerEstado
<1>2. /\ VentasDe(t)' = VentasDe(t)
      /\ \A v \in VentasDe(t) : venta'[v].forma = venta[v].forma
  BY <1>1 DEF VentasDe
<1>3. \A m \in Movimientos :
          mov'[m] = mov[m] \/ (mov[m].paso = "libre" /\ mov'[m].paso = "leida")
  BY DEF TypeOK, ElegirCaja, ConfirmarVenta, InsertarDetalle, LeerEstado
<1>4. /\ MovsDe(t)' = MovsDe(t)
      /\ \A m \in MovsDe(t) : mov'[m].importe = mov[m].importe
  BY <1>3 DEF MovsDe
<1>5. QED
  BY <1>2, <1>4, MismasVentas, MismosMovs

(* A step that adds a row to a shift, or takes one from it, marks that     *)
(* shift and the closings that read it, and leaves the other drawers.      *)
Escritura(s) ==
    /\ Tocar(s)
    /\ UNCHANGED <<turno, alta, esperado, cierre>>
    /\ \/ \E v \in Ventas : venta[v].t = s /\ (InsertarVenta(v) \/ DeshacerVenta(v))
       \/ \E m \in Movimientos : mov[m].t = s /\ (InsertarMovimiento(m) \/ AnularMovimiento(m))

LEMMA CajonAjeno ==
    ASSUME TypeOK, NEW s \in Turnos, Escritura(s), NEW t \in Turnos, t # s
    PROVE  /\ EfectivoVentas(t)' = EfectivoVentas(t)
           /\ EfectivoMovs(t)' = EfectivoMovs(t)
<1>1. \A v \in Ventas :
          venta'[v] = venta[v] \/ (venta[v].t = s /\ venta'[v].t = s)
  BY DEF TypeOK, Escritura, InsertarVenta, DeshacerVenta, InsertarMovimiento,
         AnularMovimiento
<1>2. /\ VentasDe(t)' = VentasDe(t)
      /\ \A v \in VentasDe(t) : venta'[v].forma = venta[v].forma
  BY <1>1 DEF VentasDe
<1>3. \A m \in Movimientos :
          mov'[m] = mov[m] \/ (mov[m].t = s /\ mov'[m].t = s)
  BY DEF TypeOK, Escritura, InsertarVenta, DeshacerVenta, InsertarMovimiento,
         AnularMovimiento
<1>4. /\ MovsDe(t)' = MovsDe(t)
      /\ \A m \in MovsDe(t) : mov'[m].importe = mov[m].importe
  BY <1>3 DEF MovsDe
<1>5. QED
  BY <1>2, <1>4, MismasVentas, MismosMovs

LEMMA InvInicial == Init => InvCaja
BY DEF Init, InvCaja, AltaPrevia, UnTurnoPorNumero, LecturaVigente, ArqueoExacto,
       EstadosActivos

LEMMA InvEscritura ==
    ASSUME TypeOK, InvCaja, NEW s \in Turnos, Escritura(s)
    PROVE  InvCaja'
<1>1. AltaPrevia' /\ UnTurnoPorNumero'
  BY DEF InvCaja, AltaPrevia, UnTurnoPorNumero, Escritura
<1>2. LecturaVigente'
  BY CajonAjeno DEF InvCaja, LecturaVigente, Escritura, Tocar, TypeOK
<1>3. ArqueoExacto'
  BY CajonAjeno DEF InvCaja, ArqueoExacto, Escritura, Tocar
<1>4. QED
  BY <1>1, <1>2, <1>3 DEF InvCaja

LEMMA InvQuieto ==
    ASSUME TypeOK, InvCaja, UNCHANGED <<turno, alta, esperado, cierre, tocados>>,
           \/ UNCHANGED <<venta, mov>>
           \/ \E v \in Ventas : ElegirCaja(v) \/ ConfirmarVenta(v) \/ InsertarDetalle(v)
           \/ \E m \in Movimientos : LeerEstado(m)
    PROVE  InvCaja'
<1>1. AltaPrevia' /\ UnTurnoPorNumero'
  BY DEF InvCaja, AltaPrevia, UnTurnoPorNumero
<1>2. LecturaVigente'
  BY CajonIgual DEF InvCaja, LecturaVigente, TypeOK
<1>3. ArqueoExacto'
  BY CajonIgual DEF InvCaja, ArqueoExacto
<1>4. QED
  BY <1>1, <1>2, <1>3 DEF InvCaja

LEMMA InvTurno ==
    ASSUME TypeOK, InvCaja, NEW t \in Turnos,
           LeerActivos(t) \/ InsertarCaja(t) \/ PonerEnCierre(t)
    PROVE  InvCaja'
<1>1. UNCHANGED <<esperado, venta, mov, cierre, tocados>>
  BY DEF LeerActivos, InsertarCaja, PonerEnCierre
<1>2. /\ AltaPrevia'
      /\ \A u \in Turnos : turno'[u].estado = "cerrada" <=> turno[u].estado = "cerrada"
  <2> USE DEF TypeOK, InvCaja, AltaPrevia
  <2>1. CASE LeerActivos(t)
    BY <2>1 DEF LeerActivos
  <2>2. CASE InsertarCaja(t)
    BY <2>2 DEF InsertarCaja
  <2>3. CASE PonerEnCierre(t)
    BY <2>3 DEF PonerEnCierre
  <2>4. QED
    BY <2>1, <2>2, <2>3
<1>3. UnTurnoPorNumero'
  <2>1. CASE LeerActivos(t)
    BY <2>1 DEF LeerActivos, TypeOK, InvCaja, AltaPrevia, UnTurnoPorNumero, EstadosActivos
  <2>2. CASE InsertarCaja(t)
    BY <2>2 DEF InsertarCaja, TypeOK, InvCaja, AltaPrevia, UnTurnoPorNumero,
                EstadosActivos, NumerosActivos
  <2>3. CASE PonerEnCierre(t)
    BY <2>3 DEF PonerEnCierre, TypeOK, InvCaja, UnTurnoPorNumero, EstadosActivos
  <2>4. QED
    BY <2>1, <2>2, <2>3
<1>4. LecturaVigente'
  BY <1>1, CajonIgual DEF InvCaja, LecturaVigente, TypeOK
<1>5. ArqueoExacto'
  BY <1>1, <1>2, CajonIgual DEF InvCaja, ArqueoExacto
<1>6. QED
  BY <1>2, <1>3, <1>4, <1>5 DEF InvCaja

LEMMA InvCierre ==
    ASSUME TypeOK, InvCaja, NEW c \in Cierres,
           LeerCaja(c) \/ LeerVentas(c) \/ LeerMovs(c) \/ Guardar(c)
    PROVE  InvCaja'
<1>1. UNCHANGED <<alta, venta, mov>>
  BY DEF LeerCaja, LeerVentas, LeerMovs, Guardar
<1>2. \A t \in Turnos : /\ EfectivoVentas(t)' = EfectivoVentas(t)
                        /\ EfectivoMovs(t)' = EfectivoMovs(t)
  BY <1>1, CajonIgual
<1>3. AltaPrevia'
  BY <1>1 DEF LeerCaja, LeerVentas, LeerMovs, Guardar, TypeOK, InvCaja, AltaPrevia,
              EstadosActivos
<1>4. UnTurnoPorNumero'
  BY DEF LeerCaja, LeerVentas, LeerMovs, Guardar, TypeOK, InvCaja, UnTurnoPorNumero,
         EstadosActivos
<1>5. LecturaVigente'
  <2>1. CASE LeerCaja(c)
    <3>1. /\ \A d \in Cierres : d # c => cierre'[d] = cierre[d]
          /\ cierre'[c].paso = "ventas"
          /\ tocados' = tocados \ {c}
      <4>1. PICK t \in Turnos :
                cierre' = [cierre EXCEPT ![c].paso = "ventas", ![c].t = t]
        BY <2>1 DEF LeerCaja
      <4>2. cierre'[c].paso = "ventas"
        BY <4>1 DEF TypeOK
      <4>3. QED
        BY <2>1, <4>1, <4>2 DEF LeerCaja, TypeOK
    <3>2. QED
      BY <1>2, <3>1 DEF TypeOK, InvCaja, LecturaVigente
  <2>2. CASE LeerVentas(c)
    BY <1>2, <2>2 DEF LeerVentas, TypeOK, InvCaja, LecturaVigente
  <2>3. CASE LeerMovs(c)
    BY <1>2, <2>3 DEF LeerMovs, TypeOK, InvCaja, LecturaVigente
  <2>4. CASE Guardar(c)
    <3>1. /\ \A d \in Cierres : d # c => cierre'[d] = cierre[d]
          /\ cierre'[c].paso = "fin"
          /\ tocados' \cap Cierres = tocados \cap Cierres
      BY <2>4, CajaAssumption DEF Guardar, TypeOK
    <3>2. QED
      BY <1>2, <3>1 DEF TypeOK, InvCaja, LecturaVigente
  <2>5. QED
    BY <2>1, <2>2, <2>3, <2>4
<1>6. ArqueoExacto'
  <2>1. CASE LeerCaja(c) \/ LeerVentas(c) \/ LeerMovs(c)
    <3>1. turno' = turno /\ esperado' = esperado /\ tocados' \cap Turnos = tocados \cap Turnos
      BY <2>1, CajaAssumption DEF LeerCaja, LeerVentas, LeerMovs
    <3>2. QED
      BY <1>2, <3>1 DEF InvCaja, ArqueoExacto
  <2>2. CASE Guardar(c)
    BY <1>2, <2>2 DEF Guardar, TypeOK, InvCaja, LecturaVigente, ArqueoExacto
  <2>3. QED
    BY <2>1, <2>2
<1>7. QED
  BY <1>3, <1>4, <1>5, <1>6 DEF InvCaja

LEMMA InvPaso == TypeOK /\ InvCaja /\ [Next]_vars => InvCaja'
<1> SUFFICES ASSUME TypeOK, InvCaja, [Next]_vars PROVE InvCaja'
  OBVIOUS
<1>1. CASE UNCHANGED vars
  BY <1>1, InvQuieto DEF vars
<1>2. ASSUME NEW t \in Turnos, LeerActivos(t) \/ InsertarCaja(t) \/ PonerEnCierre(t)
      PROVE  InvCaja'
  BY <1>2, InvTurno
<1>3. ASSUME NEW v \in Ventas, ElegirCaja(v) \/ ConfirmarVenta(v) \/ InsertarDetalle(v)
      PROVE  InvCaja'
  BY <1>3, InvQuieto DEF ElegirCaja, ConfirmarVenta, InsertarDetalle
<1>4. ASSUME NEW v \in Ventas, InsertarVenta(v) \/ DeshacerVenta(v)
      PROVE  InvCaja'
  <2>1. venta[v].t \in Turnos /\ Escritura(venta[v].t)
    BY <1>4 DEF TypeOK, Escritura, InsertarVenta, DeshacerVenta
  <2>2. QED
    BY <2>1, InvEscritura
<1>5. ASSUME NEW m \in Movimientos, LeerEstado(m)
      PROVE  InvCaja'
  BY <1>5, InvQuieto DEF LeerEstado
<1>6. ASSUME NEW m \in Movimientos, InsertarMovimiento(m) \/ AnularMovimiento(m)
      PROVE  InvCaja'
  <2>1. mov[m].t \in Turnos /\ Escritura(mov[m].t)
    BY <1>6 DEF TypeOK, Escritura, InsertarMovimiento, AnularMovimiento
  <2>2. QED
    BY <2>1, InvEscritura
<1>7. ASSUME NEW c \in Cierres, LeerCaja(c) \/ LeerVentas(c) \/ LeerMovs(c) \/ Guardar(c)
      PROVE  InvCaja'
  BY <1>7, InvCierre
<1>8. QED
  BY <1>1, <1>2, <1>3, <1>4, <1>5, <1>6, <1>7 DEF Next

(* Two active shifts never share a number, and a closing nobody wrote      *)
(* under stores the cash of its rows.                                      *)
THEOREM InvarianteDeCaja == Spec => [](TypeOK /\ InvCaja)
<1>1. QED
  BY TipoInicial, TipoPaso, InvInicial, InvPaso, PTL DEF Spec

(* The check of abrirCaja is stale when it inserts; the index is not.      *)
THEOREM NumeroSinRepetir == Spec => []UnTurnoPorNumero
<1>1. InvCaja => UnTurnoPorNumero
  BY DEF InvCaja
<1>2. QED
  BY <1>1, InvarianteDeCaja, PTL

(* The amount a closing stores is wrong only if a row of the shift changed *)
(* after the closing began to read.                                        *)
THEOREM CierreConArqueoExacto == Spec => []ArqueoExacto
<1>1. InvCaja => ArqueoExacto
  BY DEF InvCaja
<1>2. QED
  BY <1>1, InvarianteDeCaja, PTL

-----------------------------------------------------------------------------
(* A closed shift is never written again by any request.                   *)
THEOREM CerradaParaSiempre == Spec => CierreUnico
<1>1. TypeOK /\ InvCaja /\ [Next]_vars =>
          [\A t \in Turnos : turno[t].estado = "cerrada" =>
              turno'[t] = turno[t] /\ esperado'[t] = esperado[t]]_vars
  <2> SUFFICES ASSUME TypeOK, InvCaja, Next, NEW t \in Turnos, turno[t].estado = "cerrada"
               PROVE  turno'[t] = turno[t] /\ esperado'[t] = esperado[t]
    OBVIOUS
  <2>1. alta[t] = "fin"
    BY DEF InvCaja, AltaPrevia, TypeOK
  <2>2. ASSUME NEW u \in Turnos, LeerActivos(u) \/ InsertarCaja(u) \/ PonerEnCierre(u)
        PROVE  turno'[t] = turno[t] /\ esperado'[t] = esperado[t]
    <3>1. u # t
      BY <2>1, <2>2 DEF LeerActivos, InsertarCaja, PonerEnCierre
    <3>2. QED
      BY <2>2, <3>1 DEF LeerActivos, InsertarCaja, PonerEnCierre, TypeOK
  <2>3. ASSUME NEW v \in Ventas,
               \/ ElegirCaja(v) \/ InsertarVenta(v) \/ ConfirmarVenta(v)
               \/ DeshacerVenta(v) \/ InsertarDetalle(v)
        PROVE  turno'[t] = turno[t] /\ esperado'[t] = esperado[t]
    BY <2>3 DEF ElegirCaja, InsertarVenta, ConfirmarVenta, DeshacerVenta, InsertarDetalle
  <2>4. ASSUME NEW m \in Movimientos,
               LeerEstado(m) \/ InsertarMovimiento(m) \/ AnularMovimiento(m)
        PROVE  turno'[t] = turno[t] /\ esperado'[t] = esperado[t]
    BY <2>4 DEF LeerEstado, InsertarMovimiento, AnularMovimiento
  <2>5. ASSUME NEW c \in Cierres,
               LeerCaja(c) \/ LeerVentas(c) \/ LeerMovs(c) \/ Guardar(c)
        PROVE  turno'[t] = turno[t] /\ esperado'[t] = esperado[t]
    BY <2>5 DEF LeerCaja, LeerVentas, LeerMovs, Guardar, TypeOK, EstadosActivos
  <2>6. QED
    BY <2>2, <2>3, <2>4, <2>5 DEF Next
<1>2. QED
  BY <1>1, InvarianteDeCaja, PTL DEF Spec, CierreUnico

-----------------------------------------------------------------------------
(* A shift out of "abierta" whose requests are over keeps its drawer.      *)
LEMMA QuietaPaso ==
    ASSUME TypeOK, InvCaja, [Next]_vars, NEW t \in Turnos, Quieta(t)
    PROVE  Quieta(t)' /\ EfectivoVentas(t)' = EfectivoVentas(t)
                      /\ EfectivoMovs(t)' = EfectivoMovs(t)
<1>0. alta[t] = "fin"
  BY DEF InvCaja, AltaPrevia, TypeOK, Quieta
<1>1. CASE UNCHANGED vars
  <2>1. Quieta(t)'
    BY <1>1 DEF vars, Quieta
  <2>2. QED
    BY <1>1, <2>1, CajonIgual DEF vars
<1>2. ASSUME NEW u \in Turnos, LeerActivos(u) \/ InsertarCaja(u) \/ PonerEnCierre(u)
      PROVE  Quieta(t)' /\ UNCHANGED <<venta, mov>>
  <2>1. u # t
    BY <1>0, <1>2 DEF LeerActivos, InsertarCaja, PonerEnCierre, Quieta
  <2>2. turno'[t] = turno[t] /\ UNCHANGED <<venta, mov>>
    BY <1>2, <2>1 DEF LeerActivos, InsertarCaja, PonerEnCierre, TypeOK
  <2>3. QED
    BY <2>2 DEF Quieta
<1>3. ASSUME NEW c \in Cierres, LeerCaja(c) \/ LeerVentas(c) \/ LeerMovs(c) \/ Guardar(c)
      PROVE  Quieta(t)' /\ UNCHANGED <<venta, mov>>
  <2>1. UNCHANGED <<venta, mov>>
    BY <1>3 DEF LeerCaja, LeerVentas, LeerMovs, Guardar
  <2>2. turno'[t].estado \in {"en_cierre", "cerrada"}
    BY <1>3 DEF LeerCaja, LeerVentas, LeerMovs, Guardar, TypeOK, Quieta
  <2>3. QED
    BY <2>1, <2>2 DEF Quieta
<1>4. ASSUME NEW v \in Ventas, ElegirCaja(v) \/ ConfirmarVenta(v) \/ InsertarDetalle(v)
      PROVE  Quieta(t)'
  <2>1. CASE ElegirCaja(v)
    <3>1. PICK u \in Turnos, f \in Formas :
              /\ turno[u].estado = "abierta"
              /\ venta' = [venta EXCEPT ![v] =
                              [paso |-> "elegida", t |-> u, forma |-> f, lineas |-> 0]]
      BY <2>1 DEF ElegirCaja
    <3>2. u # t
      BY <3>1 DEF Quieta
    <3>3. QED
      BY <2>1, <3>1, <3>2 DEF ElegirCaja, TypeOK, Quieta
  <2>2. CASE ConfirmarVenta(v)
    BY <2>2 DEF ConfirmarVenta, TypeOK, Quieta
  <2>3. CASE InsertarDetalle(v)
    BY <2>3 DEF InsertarDetalle, TypeOK, Quieta
  <2>4. QED
    BY <1>4, <2>1, <2>2, <2>3
<1>5. ASSUME NEW m \in Movimientos, LeerEstado(m)
      PROVE  Quieta(t)'
  <2>1. PICK u \in Turnos, i \in Importes :
            /\ turno[u].estado = "abierta"
            /\ mov' = [mov EXCEPT ![m] = [paso |-> "leida", t |-> u, importe |-> i]]
    BY <1>5 DEF LeerEstado
  <2>2. u # t
    BY <2>1 DEF Quieta
  <2>3. QED
    BY <1>5, <2>1, <2>2 DEF LeerEstado, TypeOK, Quieta
<1>6. ASSUME NEW s \in Turnos, Escritura(s)
      PROVE  s # t /\ Quieta(t)'
  <2>1. s # t
    BY <1>6 DEF Escritura, InsertarVenta, DeshacerVenta, InsertarMovimiento,
                AnularMovimiento, Quieta
  <2>2. turno' = turno
    BY <1>6 DEF Escritura
  <2>3. \A v \in Ventas : venta'[v] = venta[v] \/ venta'[v].t = s
    BY <1>6 DEF Escritura, InsertarVenta, DeshacerVenta, InsertarMovimiento,
                AnularMovimiento, TypeOK
  <2>4. \A m \in Movimientos : mov'[m] = mov[m] \/ mov'[m].t = s
    BY <1>6 DEF Escritura, InsertarVenta, DeshacerVenta, InsertarMovimiento,
                AnularMovimiento, TypeOK
  <2>5. QED
    BY <2>1, <2>2, <2>3, <2>4 DEF Quieta
<1>7. ASSUME NEW v \in Ventas, InsertarVenta(v) \/ DeshacerVenta(v)
      PROVE  venta[v].t \in Turnos /\ Escritura(venta[v].t)
  BY <1>7 DEF TypeOK, Escritura, InsertarVenta, DeshacerVenta
<1>8. ASSUME NEW m \in Movimientos, InsertarMovimiento(m) \/ AnularMovimiento(m)
      PROVE  mov[m].t \in Turnos /\ Escritura(mov[m].t)
  BY <1>8 DEF TypeOK, Escritura, InsertarMovimiento, AnularMovimiento
<1>9. CASE \E s \in Turnos : Escritura(s)
  BY <1>6, <1>9, CajonAjeno
<1>10. QED
  BY <1>1, <1>2, <1>3, <1>4, <1>5, <1>7, <1>8, <1>9, CajonIgual DEF Next

(* A shift out of reach of the requests that saw it open is frozen.        *)
THEOREM QuietaParaSiempre == Spec => CajaQuietaNoCambia
<1>1. TypeOK /\ InvCaja /\ [Next]_vars =>
          [\A t \in Turnos : Quieta(t) =>
              Quieta(t)' /\ EfectivoVentas(t)' = EfectivoVentas(t)
                         /\ EfectivoMovs(t)' = EfectivoMovs(t)]_vars
  BY QuietaPaso
<1>2. QED
  BY <1>1, InvarianteDeCaja, PTL DEF Spec, CajaQuietaNoCambia
=============================================================================
