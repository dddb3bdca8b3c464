-------------------------------- MODULE Caja --------------------------------
(***************************************************************************)
(* Cash desk shifts: lib/caja/server.ts and the sales and movements that   *)
(* hang from a shift.                                                      *)
(*                                                                         *)
(* Every request is a sequence of PostgREST statements with nothing to     *)
(* make them atomic; an action is one statement.  A request whose          *)
(* statement fails, or whose server dies, just takes no further step.      *)
(***************************************************************************)
EXTENDS Integers, Functions

CONSTANTS
    Turnos,       \* rows of cajas: one per shift
    Numeros,      \* desk numbers, 1..N
    Ventas,       \* sales
    Movimientos,  \* requests to register a manual movement
    Cierres,      \* requests to close a shift
    Formas,       \* ways a sale is paid
    Cobro,        \* Cobro[f]: the payment lines of f, <<method, amount>>
    Cabecera,     \* Cabecera[f]: ventas.metodo_pago, or "credito"
    Apertura,     \* opening amount of every shift
    Importes,     \* signed cash amounts of the manual movements
    Ingresos      \* those of the movements of type "ingreso"

ASSUME CajaAssumption ==
    /\ Turnos # {}
    /\ Turnos \cap Cierres = {}
    /\ Numeros \subseteq Nat
    /\ Formas # {}
    /\ Importes \subseteq Int
    /\ Ingresos \subseteq Importes
    /\ Apertura \in Nat

VARIABLES
    turno,    \* per shift: estado and numero_caja
    alta,     \* per shift, the request that opens it
    esperado, \* per shift, monto_esperado_efectivo as the closing stored it
    venta,    \* per sale: its step, caja_id, form of payment and lines stored
    mov,      \* per movement: its step, caja_id and signed cash amount
    cierre,   \* per closing request: its step, its shift and the sums it read
    tocados   \* history: closings, and closed shifts, whose rows changed since
              \* the closing began to read them

vars == <<turno, alta, esperado, venta, mov, cierre, tocados>>

EstadosActivos == {"abierta", "en_cierre"}

NumerosAbiertos == {turno[t].numero : t \in {u \in Turnos : turno[u].estado = "abierta"}}

NumerosActivos == {turno[t].numero : t \in {u \in Turnos : turno[u].estado \in EstadosActivos}}

-----------------------------------------------------------------------------
(* Cash that should be in the drawer.                                      *)

Suma(f) == FoldFunction(+, 0, f)

VentasDe(t) == {v \in Ventas : venta[v].t = t /\ venta[v].paso \in {"insertada", "ok"}}
MovsDe(t)   == {m \in Movimientos : mov[m].t = t /\ mov[m].paso = "activo"}

Total(f) == LET l == Cobro[f] IN Suma([i \in DOMAIN l |-> l[i][2]])

(* computeResumen: the whole total by the method of the heading.           *)
EfectivoPorCabecera(f) == IF Cabecera[f] = "efectivo" THEN Total(f) ELSE 0

(* getReporteCajas: by the payment lines, or by the heading without them.  *)
EfectivoPorDetalle(v) ==
    LET f == venta[v].forma
        l == Cobro[f]
    IN  CASE Cabecera[f] = "credito" -> 0
          [] venta[v].lineas = 0     -> EfectivoPorCabecera(f)
          [] OTHER -> Suma([i \in 1..venta[v].lineas |->
                              IF l[i][1] = "efectivo" THEN l[i][2] ELSE 0])

EfectivoVentas(t) == Suma([v \in VentasDe(t) |-> EfectivoPorCabecera(venta[v].forma)])
EfectivoMovs(t)   == Suma([m \in MovsDe(t) |-> mov[m].importe])

EsperadoReporte(t) ==
    Apertura + Suma([v \in VentasDe(t) |-> EfectivoPorDetalle(v)]) + EfectivoMovs(t)

-----------------------------------------------------------------------------
UnTurno == CHOOSE t \in Turnos : TRUE

Init ==
    /\ turno = [t \in Turnos |-> [estado |-> "nada", numero |-> 0]]
    /\ alta = [t \in Turnos |-> "libre"]
    /\ esperado = [t \in Turnos |-> 0]
    /\ venta = [v \in Ventas |-> [paso |-> "libre", t |-> UnTurno,
                                  forma |-> CHOOSE f \in Formas : TRUE, lineas |-> 0]]
    /\ mov = [m \in Movimientos |-> [paso |-> "libre", t |-> UnTurno, importe |-> 0]]
    /\ cierre = [c \in Cierres |-> [paso |-> "libre", t |-> UnTurno, ventas |-> 0, movs |-> 0]]
    /\ tocados = {}

(* A row of shift t that counts in its drawer appears or disappears.       *)
Tocar(t) == tocados' = tocados \cup {t} \cup {c \in Cierres : cierre[c].t = t}

LeerActivosSinTope(t) ==
    /\ alta[t] = "libre"
    /\ \E n \in (Numeros \cup {k + 1 : k \in Numeros}) \ NumerosActivos :
          turno' = [turno EXCEPT ![t].numero = n]
    /\ alta' = [alta EXCEPT ![t] = "leida"]
    /\ UNCHANGED <<esperado, venta, mov, cierre, tocados>>

(* abrirCaja: the number asked for, if it is not active, or the lowest one *)
(* that is not.                                                            *)
LeerActivos(t) ==
    /\ alta[t] = "libre"
    /\ \E n \in Numeros \ NumerosActivos :
          turno' = [turno EXCEPT ![t].numero = n]
    /\ alta' = [alta EXCEPT ![t] = "leida"]
    /\ UNCHANGED <<esperado, venta, mov, cierre, tocados>>

InsertarSinIndice(t) ==
    /\ alta[t] = "leida"
    /\ alta' = [alta EXCEPT ![t] = "fin"]
    /\ turno' = IF turno[t].numero \in NumerosAbiertos
                THEN turno ELSE [turno EXCEPT ![t].estado = "abierta"]
    /\ UNCHANGED <<esperado, venta, mov, cierre, tocados>>

(* The partial unique index rejects a second active shift on the number.   *)
InsertarCaja(t) ==
    /\ alta[t] = "leida"
    /\ alta' = [alta EXCEPT ![t] = "fin"]
    /\ turno' = IF turno[t].numero \in NumerosActivos
                THEN turno ELSE [turno EXCEPT ![t].estado = "abierta"]
    /\ UNCHANGED <<esperado, venta, mov, cierre, tocados>>

(* ponerCajaEnCierre: one conditional update.                              *)
PonerEnCierre(t) ==
    /\ turno[t].estado = "abierta"
    /\ turno' = [turno EXCEPT ![t].estado = "en_cierre"]
    /\ UNCHANGED <<alta, esperado, venta, mov, cierre, tocados>>

-----------------------------------------------------------------------------
(* Sales: the page picks an open shift, the server never looks at it.      *)

ElegirCaja(v) ==
    /\ venta[v].paso = "libre"
    /\ \E t \in Turnos, f \in Formas :
          /\ turno[t].estado = "abierta"
          /\ venta' = [venta EXCEPT ![v] = [paso |-> "elegida", t |-> t, forma |-> f, lineas |-> 0]]
    /\ UNCHANGED <<turno, alta, esperado, mov, cierre, tocados>>

InsertarVenta(v) ==
    /\ venta[v].paso = "elegida"
    /\ venta' = [venta EXCEPT ![v].paso = "insertada"]
    /\ Tocar(venta[v].t)
    /\ UNCHANGED <<turno, alta, esperado, mov, cierre>>

(* The rest of the sale goes well, or its rollback deletes the row.        *)
ConfirmarVenta(v) ==
    /\ venta[v].paso = "insertada"
    /\ venta' = [venta EXCEPT ![v].paso = "ok"]
    /\ UNCHANGED <<turno, alta, esperado, mov, cierre, tocados>>

DeshacerVenta(v) ==
    /\ venta[v].paso = "insertada"
    /\ venta' = [venta EXCEPT ![v].paso = "deshecha"]
    /\ Tocar(venta[v].t)
    /\ UNCHANGED <<turno, alta, esperado, mov, cierre>>

(* The payment lines, one insert each, after the sale; errors are logged.  *)
InsertarDetalle(v) ==
    /\ venta[v].paso = "ok"
    /\ venta[v].lineas + 1 \in DOMAIN Cobro[venta[v].forma]
    /\ venta' = [venta EXCEPT ![v].lineas = @ + 1]
    /\ UNCHANGED <<turno, alta, esperado, mov, cierre, tocados>>

-----------------------------------------------------------------------------
(* Manual movements.                                                       *)

LeerEstadoSinMirar(m) ==
    /\ mov[m].paso = "libre"
    /\ \E t \in Turnos, i \in Importes :
          /\ turno[t].estado # "nada"
          /\ mov' = [mov EXCEPT ![m] = [paso |-> "leida", t |-> t, importe |-> i]]
    /\ UNCHANGED <<turno, alta, esperado, venta, cierre, tocados>>

(* registrarMovimiento reads that the shift is open, then inserts.         *)
LeerEstado(m) ==
    /\ mov[m].paso = "libre"
    /\ \E t \in Turnos, i \in Importes :
          /\ turno[t].estado = "abierta"
          /\ mov' = [mov EXCEPT ![m] = [paso |-> "leida", t |-> t, importe |-> i]]
    /\ UNCHANGED <<turno, alta, esperado, venta, cierre, tocados>>

InsertarMovimiento(m) ==
    /\ mov[m].paso = "leida"
    /\ mov' = [mov EXCEPT ![m].paso = "activo"]
    /\ Tocar(mov[m].t)
    /\ UNCHANGED <<turno, alta, esperado, venta, cierre>>

(* anularMovimiento: only incomes, and whatever the state of the shift.    *)
AnularMovimiento(m) ==
    /\ mov[m].paso = "activo" /\ mov[m].importe \in Ingresos
    /\ mov' = [mov EXCEPT ![m].paso = "anulado"]
    /\ Tocar(mov[m].t)
    /\ UNCHANGED <<turno, alta, esperado, venta, cierre>>

-----------------------------------------------------------------------------
(* cerrarCaja: reads the shift, its sales and its movements, then updates. *)

LeerCaja(c) ==
    /\ cierre[c].paso = "libre"
    /\ \E t \in Turnos :
          /\ turno[t].estado \in EstadosActivos
          /\ cierre' = [cierre EXCEPT ![c].paso = "ventas", ![c].t = t]
    /\ tocados' = tocados \ {c}
    /\ UNCHANGED <<turno, alta, esperado, venta, mov>>

LeerVentas(c) ==
    /\ cierre[c].paso = "ventas"
    /\ cierre' = [cierre EXCEPT ![c].paso = "movs",
                                ![c].ventas = EfectivoVentas(cierre[c].t)]
    /\ UNCHANGED <<turno, alta, esperado, venta, mov, tocados>>

LeerMovs(c) ==
    /\ cierre[c].paso = "movs"
    /\ cierre' = [cierre EXCEPT ![c].paso = "guardar",
                                ![c].movs = EfectivoMovs(cierre[c].t)]
    /\ UNCHANGED <<turno, alta, esperado, venta, mov, tocados>>

GuardarSinCondicion(c) ==
    LET t == cierre[c].t IN
    /\ cierre[c].paso = "guardar"
    /\ cierre' = [cierre EXCEPT ![c].paso = "fin"]
    /\ turno' = [turno EXCEPT ![t].estado = "cerrada"]
    /\ esperado' = [esperado EXCEPT ![t] = Apertura + cierre[c].ventas + cierre[c].movs]
    /\ tocados' = IF c \in tocados THEN tocados \cup {t} ELSE tocados \ {t}
    /\ UNCHANGED <<alta, venta, mov>>

GuardarSinMovimientos(c) ==
    LET t == cierre[c].t IN
    /\ cierre[c].paso = "guardar"
    /\ turno[t].estado \in EstadosActivos
    /\ cierre' = [cierre EXCEPT ![c].paso = "fin"]
    /\ turno' = [turno EXCEPT ![t].estado = "cerrada"]
    /\ esperado' = [esperado EXCEPT ![t] = Apertura + cierre[c].ventas]
    /\ tocados' = IF c \in tocados THEN tocados \cup {t} ELSE tocados \ {t}
    /\ UNCHANGED <<alta, venta, mov>>

(* The update asks for an active state; without a row, single() fails.     *)
Guardar(c) ==
    LET t == cierre[c].t IN
    /\ cierre[c].paso = "guardar"
    /\ cierre' = [cierre EXCEPT ![c].paso = "fin"]
    /\ \/ /\ turno[t].estado \in EstadosActivos
          /\ turno' = [turno EXCEPT ![t].estado = "cerrada"]
          /\ esperado' = [esperado EXCEPT ![t] = Apertura + cierre[c].ventas + cierre[c].movs]
          /\ tocados' = IF c \in tocados THEN tocados \cup {t} ELSE tocados \ {t}
       \/ /\ turno[t].estado = "cerrada"
          /\ UNCHANGED <<turno, esperado, tocados>>
    /\ UNCHANGED <<alta, venta, mov>>

-----------------------------------------------------------------------------
Next ==
    \/ \E t \in Turnos : LeerActivos(t) \/ InsertarCaja(t) \/ PonerEnCierre(t)
    \/ \E v \in Ventas : \/ ElegirCaja(v) \/ InsertarVenta(v) \/ ConfirmarVenta(v)
                         \/ DeshacerVenta(v) \/ InsertarDetalle(v)
    \/ \E m \in Movimientos : LeerEstado(m) \/ InsertarMovimiento(m) \/ AnularMovimiento(m)
    \/ \E c \in Cierres : LeerCaja(c) \/ LeerVentas(c) \/ LeerMovs(c) \/ Guardar(c)

Spec == Init /\ [][Next]_vars

-----------------------------------------------------------------------------
(* Properties.                                                             *)

(* Every variable holds what its column or its request can hold.           *)
TypeOK ==
    /\ turno \in [Turnos -> [estado : {"nada", "cerrada"} \cup EstadosActivos,
                             numero : {0} \cup Numeros]]
    /\ alta \in [Turnos -> {"libre", "leida", "fin"}]
    /\ DOMAIN esperado = Turnos
    /\ DOMAIN venta = Ventas
    /\ \A v \in Ventas :
          venta[v] \in [paso : {"libre", "elegida", "insertada", "ok", "deshecha"},
                        t : Turnos, forma : Formas, lineas : Nat]
    /\ mov \in [Movimientos -> [paso : {"libre", "leida", "activo", "anulado"},
                                t : Turnos, importe : Int]]
    /\ DOMAIN cierre = Cierres
    /\ \A c \in Cierres :
          /\ DOMAIN cierre[c] = {"paso", "t", "ventas", "movs"}
          /\ cierre[c].paso \in {"libre", "ventas", "movs", "guardar", "fin"}
          /\ cierre[c].t \in Turnos
    /\ tocados \subseteq Turnos \cup Cierres

(* Two active shifts never share a number, though the check and the insert *)
(* of abrirCaja are two statements and a shift leaves "abierta" before it  *)
(* is closed (server.ts:616-619).                                          *)
UnTurnoPorNumero ==
    \A t, u \in Turnos :
        /\ turno[t].estado \in EstadosActivos /\ turno[u].estado \in EstadosActivos
        /\ turno[t].numero = turno[u].numero
        => t = u

(* A closed shift is never reopened nor closed again, whatever requests    *)
(* were under way: its expected amount stays as it was stored              *)
(* (server.ts:711-738).                                                    *)
CierreUnico ==
    [][\A t \in Turnos : turno[t].estado = "cerrada" =>
          turno'[t] = turno[t] /\ esperado'[t] = esperado[t]]_vars

(* The amount stored at the closing is the cash of the rows of the shift,  *)
(* unless one of those rows was inserted, deleted or annulled after the    *)
(* closing began to read: cerrarCaja takes no snapshot, and this is the    *)
(* only way its figure can be wrong by computeResumen's own reckoning.     *)
ArqueoExacto ==
    \A t \in Turnos \ tocados :
        turno[t].estado = "cerrada" =>
            esperado[t] = Apertura + EfectivoVentas(t) + EfectivoMovs(t)

Quieta(t) ==
    /\ turno[t].estado \in {"en_cierre", "cerrada"}
    /\ \A v \in Ventas : venta[v].t = t => venta[v].paso \notin {"elegida", "insertada"}
    /\ \A m \in Movimientos : mov[m].t = t =>
          mov[m].paso # "leida" /\ ~(mov[m].paso = "activo" /\ mov[m].importe \in Ingresos)

(* What en_cierre does give: once the requests that saw the shift open are *)
(* over, and no income is left to annul, its drawer is frozen for good, so *)
(* a count that starts then is compared with the right figure              *)
(* (server.ts:674-690, 763-773).                                           *)
CajaQuietaNoCambia ==
    [][\A t \in Turnos : Quieta(t) =>
          Quieta(t)' /\ EfectivoVentas(t)' = EfectivoVentas(t)
                     /\ EfectivoMovs(t)' = EfectivoMovs(t)]_vars

(* server.ts:674 says of a shift "en_cierre": it no longer receives sales  *)
(* nor movements.                                                          *)
EnCierreNoRecibe ==
    [][\A t \in Turnos : turno[t].estado = "en_cierre" =>
          VentasDe(t)' \subseteq VentasDe(t) /\ MovsDe(t)' \subseteq MovsDe(t)]_vars

(* server.ts:241-244 says that the payment lines are the truth about the   *)
(* means of payment, and that the heading would swell the cash expected:   *)
(* the closing and the report must then agree on a shift nobody touched.   *)
CierreSegunDetalle ==
    \A t \in Turnos \ tocados :
        /\ turno[t].estado = "cerrada"
        /\ \A v \in VentasDe(t) :
              venta[v].paso = "ok" /\ DOMAIN Cobro[venta[v].forma] = 1..venta[v].lineas
        => esperado[t] = EsperadoReporte(t)
=============================================================================
