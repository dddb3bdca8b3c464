--------------------------- MODULE OrdenesCompra ---------------------------
(***************************************************************************)
(* Purchase orders: lib/ordenes-compra/server/ordenes-compra-pg.ts over a  *)
(* pool of Postgres connections.                                           *)
(*                                                                         *)
(* Unlike sales, a reception is one READ COMMITTED transaction.  What it   *)
(* writes is kept with the reception until it commits; the rows it locks   *)
(* (the lines of the order, from the first statement, and each product,    *)
(* from its update) make other transactions wait, and an action whose rows *)
(* are locked by another transaction is not enabled.  Receptions that wait *)
(* for each other are resolved by Postgres, which aborts one of them.      *)
(***************************************************************************)
EXTENDS Integers, FiniteSets, Functions

CONSTANTS
    Ordenes,     \* orders
    Lineas,      \* rows of ordenes_compra: one per product of an order
    OrdenDe,     \* OrdenDe[l]: the order of line l
    Producto,    \* Producto[l]: the product of line l
    Productos,
    Pedida,      \* Pedida[l]: cantidad
    Recepciones, \* requests to receive goods
    MaxAhora,    \* bound on what a request receives of one line
    Stock0       \* stock at the start

ASSUME OrdenesAssumption ==
    /\ Ordenes # {}
    /\ \A o \in Ordenes : \E l \in Lineas : OrdenDe[l] = o
    /\ IsFiniteSet(Lineas)
    /\ OrdenDe \in [Lineas -> Ordenes]
    /\ Producto \in [Lineas -> Productos]
    /\ Pedida \in [Lineas -> Nat \ {0}]
    /\ MaxAhora \in Nat
    /\ Stock0 \in [Productos -> Int]

VARIABLES
    alta,        \* per order, its creation: libre, leida, fin
    numero,      \* per order, the n of its OC-n
    estado,      \* per line
    recibida,    \* per line, cantidad_recibida
    comprado,    \* per line, units in the rows of compras that name it
    stock,       \* productos.stock_actual
    rec,         \* per reception, its transaction
    autorizadas  \* history: lines that received under permitir_excedente

vars == <<alta, numero, estado, recibida, comprado, stock, rec, autorizadas>>

EnCurso    == {"comprar", "calcular", "confirmar"}
EstadosOc  == {"nada", "pendiente", "recibida_parcial", "recibida_total", "cancelada"}
Cero       == [l \in Lineas |-> 0]

(* Lines stored under the number n.                                        *)
Filas(n) == {l \in Lineas : estado[l] # "nada" /\ numero[OrdenDe[l]] = n}

Compartido(o) == \E u \in Ordenes \ {o} : alta[u] = "fin" /\ numero[u] = numero[o]

BloqueadasPorOtra(r) == UNION {rec[s].lineas : s \in Recepciones \ {r}}
TomadosPorOtra(r)    == UNION {rec[s].productos : s \in Recepciones \ {r}}

Max0(n) == IF n < 0 THEN 0 ELSE n

EnReposo == [paso |-> "libre", n |-> 0, ahora |-> Cero, permiso |-> FALSE, lineas |-> {},
             pend |-> {}, sig |-> CHOOSE l \in Lineas : TRUE, productos |-> {}, nuevo |-> Stock0, completa |-> FALSE]

Init ==
    /\ alta = [o \in Ordenes |-> "libre"]
    /\ numero = [o \in Ordenes |-> 0]
    /\ estado = [l \in Lineas |-> "nada"]
    /\ recibida = Cero
    /\ comprado = Cero
    /\ stock = Stock0
    /\ rec = [r \in Recepciones |-> EnReposo]
    /\ autorizadas = {}

-----------------------------------------------------------------------------
(* insertOrdenCompra: reads the largest stored number, then inserts and    *)
(* commits; nothing stops two creations from reading the same one.         *)

Creadas == {o \in Ordenes : alta[o] = "fin"}

LeerMaximo(o) ==
    /\ alta[o] = "libre"
    /\ alta' = [alta EXCEPT ![o] = "leida"]
    /\ \E m \in {0} \cup {numero[u] : u \in Creadas} :
          /\ \A u \in Creadas : numero[u] <= m
          /\ numero' = [numero EXCEPT ![o] = m + 1]
    /\ UNCHANGED <<estado, recibida, comprado, stock, rec, autorizadas>>

InsertarOrden(o) ==
    /\ alta[o] = "leida"
    /\ alta' = [alta EXCEPT ![o] = "fin"]
    /\ estado' = [l \in Lineas |-> IF OrdenDe[l] = o THEN "pendiente" ELSE estado[l]]
    /\ UNCHANGED <<numero, recibida, comprado, stock, rec, autorizadas>>

CancelarComoAnulada(n) ==
    /\ estado' = [l \in Lineas |-> IF l \in Filas(n) /\ estado[l] = "pendiente"
                                   THEN "anulada" ELSE estado[l]]
    /\ UNCHANGED <<alta, numero, recibida, comprado, stock, rec, autorizadas>>

CancelarSinEsperar(n) ==
    LET abiertas == {l \in Filas(n) : estado[l] = "pendiente"} IN
    /\ abiertas # {}
    /\ estado' = [l \in Lineas |-> IF l \in abiertas THEN "cancelada" ELSE estado[l]]
    /\ UNCHANGED <<alta, numero, recibida, comprado, stock, rec, autorizadas>>

(* cancelarOrdenCompra: one update of the rows still pendiente, which      *)
(* waits for the transactions that hold one of them.                       *)
Cancelar(n) ==
    LET abiertas == {l \in Filas(n) : estado[l] = "pendiente"} IN
    /\ abiertas # {}
    /\ \A r \in Recepciones : rec[r].lineas \cap abiertas = {}
    /\ estado' = [l \in Lineas |-> IF l \in abiertas THEN "cancelada" ELSE estado[l]]
    /\ UNCHANGED <<alta, numero, recibida, comprado, stock, rec, autorizadas>>

-----------------------------------------------------------------------------
(* confirmarRecepcionOrdenCompra.                                          *)

AceptaSinPermiso(ahora, permiso) == TRUE

(* No line receives more than it has pending, unless authorised.           *)
Acepta(ahora, permiso) ==
    permiso \/ \A l \in Lineas : ahora[l] <= Max0(Pedida[l] - recibida[l])

SinTomar(l, r) == TRUE

Disponible(l, r) == l \notin BloqueadasPorOtra(r)

(* What a transaction holds once it has locked the lines of n.             *)
Abierta(n, pedido, permiso, l) ==
    [EnReposo EXCEPT !.paso = "comprar", !.n = n, !.ahora = pedido, !.permiso = permiso,
                     !.lineas = Filas(n), !.pend = {k \in Lineas : pedido[k] > 0}, !.sig = l]

(* BEGIN and SELECT ... FOR UPDATE of every line of the number; the checks *)
(* read the locked rows.  The page names each line once.                   *)
Bloquear(r) ==
    /\ rec[r].paso = "libre"
    /\ \E n \in {numero[o] : o \in Creadas}, permiso \in BOOLEAN :
          /\ \A l \in Filas(n) : Disponible(l, r)
          /\ \A l \in Filas(n) : estado[l] # "cancelada"
          /\ \E l \in Filas(n) : estado[l] # "recibida_total"
          /\ \E ahora \in [Filas(n) -> 0..MaxAhora] :
                LET pedido == [l \in Lineas |-> IF l \in Filas(n) THEN ahora[l] ELSE 0]
                IN  /\ Acepta(pedido, permiso)
                    /\ \E l \in {k \in Lineas : pedido[k] > 0} :
                          rec' = [rec EXCEPT ![r] = Abierta(n, pedido, permiso, l)]
    /\ UNCHANGED <<alta, numero, estado, recibida, comprado, stock, autorizadas>>

ProductoSinTomar(p, r) == TRUE

ProductoLibre(p, r) == p \notin TomadosPorOtra(r)

(* insertComprasConImpactoTx, one item: the purchase row, the ENTRADA and  *)
(* the relative update of the stock, which locks the product to the end.   *)
(* Items go in the order of the request, here any order: sig is the next.  *)
ComprarRenglon(r) ==
    LET l    == rec[r].sig
        p    == Producto[l]
        base == IF p \in rec[r].productos THEN rec[r].nuevo[p] ELSE stock[p]
        quedan == rec[r].pend \ {l}
    IN  /\ rec[r].paso = "comprar" /\ l \in rec[r].pend
        /\ ProductoLibre(p, r)
        /\ \E s \in IF quedan = {} THEN {l} ELSE quedan :
              rec' = [rec EXCEPT ![r] =
                 [rec[r] EXCEPT !.pend = quedan, !.sig = s, !.productos = @ \cup {p},
                                !.nuevo[p] = base + rec[r].ahora[l]]]
        /\ UNCHANGED <<alta, numero, estado, recibida, comprado, stock, autorizadas>>

CalcularSoloCompleta(r) ==
    /\ rec[r].paso = "comprar" /\ rec[r].pend = {}
    /\ \A l \in Filas(rec[r].n) : recibida[l] + rec[r].ahora[l] >= Pedida[l]
    /\ rec' = [rec EXCEPT ![r].paso = "confirmar", ![r].completa = TRUE]
    /\ UNCHANGED <<alta, numero, estado, recibida, comprado, stock, autorizadas>>

(* Adds up cantidad_recibida and sees whether the order is complete.       *)
Calcular(r) ==
    /\ rec[r].paso = "comprar" /\ rec[r].pend = {}
    /\ rec' = [rec EXCEPT ![r].paso = "confirmar",
                          ![r].completa = \A l \in Filas(rec[r].n) :
                              recibida[l] + rec[r].ahora[l] >= Pedida[l]]
    /\ UNCHANGED <<alta, numero, estado, recibida, comprado, stock, autorizadas>>

Soltar(r, paso) == [rec EXCEPT ![r] = [EnReposo EXCEPT !.paso = paso]]

ConfirmarSinExigir(r) ==
    LET t == rec[r] IN
    /\ t.paso = "confirmar"
    /\ estado' = [l \in Lineas |-> IF l \notin Filas(t.n) THEN estado[l]
                                   ELSE IF t.ahora[l] > 0
                                        THEN "recibida_total" ELSE "recibida_parcial"]
    /\ recibida' = [l \in Lineas |-> recibida[l] + t.ahora[l]]
    /\ comprado' = [l \in Lineas |-> comprado[l] + t.ahora[l]]
    /\ stock' = [p \in Productos |-> IF p \in t.productos THEN t.nuevo[p] ELSE stock[p]]
    /\ autorizadas' = IF t.permiso THEN autorizadas \cup {l \in t.lineas : t.ahora[l] > 0}
                                   ELSE autorizadas
    /\ rec' = Soltar(r, "ok")
    /\ UNCHANGED <<alta, numero>>

(* The state of every line of the number, and COMMIT.                      *)
Confirmar(r) ==
    LET t == rec[r] IN
    /\ t.paso = "confirmar"
    /\ estado' = [l \in Lineas |-> IF l \notin Filas(t.n) THEN estado[l]
                                   ELSE IF t.completa THEN "recibida_total"
                                        ELSE "recibida_parcial"]
    /\ recibida' = [l \in Lineas |-> recibida[l] + t.ahora[l]]
    /\ comprado' = [l \in Lineas |-> comprado[l] + t.ahora[l]]
    /\ stock' = [p \in Productos |-> IF p \in t.productos THEN t.nuevo[p] ELSE stock[p]]
    /\ autorizadas' = IF t.permiso THEN autorizadas \cup {l \in t.lineas : t.ahora[l] > 0}
                                   ELSE autorizadas
    /\ rec' = Soltar(r, "ok")
    /\ UNCHANGED <<alta, numero>>

(* A statement fails, or the server dies: Postgres rolls back.             *)
Abortar(r) ==
    /\ rec[r].paso \in EnCurso
    /\ rec' = Soltar(r, "error")
    /\ UNCHANGED <<alta, numero, estado, recibida, comprado, stock, autorizadas>>

(* r waits for s: the product of the next item is locked by s.             *)
Espera(r, s) == /\ rec[r].paso = "comprar" /\ rec[r].pend # {}
                /\ Producto[rec[r].sig] \in rec[s].productos

(* Postgres aborts one of the transactions of a cycle of waits.            *)
Victima(r) ==
    /\ Abortar(r)
    /\ \E C \in SUBSET Recepciones :
          r \in C /\ \A s \in C : \E u \in C \ {s} : Espera(s, u)

-----------------------------------------------------------------------------
Paso(r) == ComprarRenglon(r) \/ Calcular(r) \/ Confirmar(r)

Next ==
    \/ \E o \in Ordenes : LeerMaximo(o) \/ InsertarOrden(o)
    \/ \E n \in {numero[o] : o \in Ordenes} : Cancelar(n)
    \/ \E r \in Recepciones : Bloquear(r) \/ Paso(r) \/ Abortar(r)

(* An open transaction goes on, and Postgres breaks deadlocks.             *)
Fairness == /\ \A r \in Recepciones : WF_vars(Paso(r))
            /\ WF_vars(\E r \in Recepciones : Victima(r))

Spec == Init /\ [][Next]_vars /\ Fairness

(* One creation at a time, as in a company with one buyer.                 *)
UnaAltaALaVez == \A o, u \in Ordenes : alta[o] = "leida" /\ alta[u] = "leida" => o = u

SpecEnSerie == Init /\ [][Next /\ UnaAltaALaVez']_vars /\ Fairness

-----------------------------------------------------------------------------
(* Properties.                                                             *)

Recepcion == [paso : {"libre", "ok", "error"} \cup EnCurso, n : Nat,
              ahora : [Lineas -> 0..MaxAhora], permiso : BOOLEAN,
              lineas : SUBSET Lineas, pend : SUBSET Lineas, sig : Lineas,
              productos : SUBSET Productos, nuevo : [Productos -> Int],
              completa : BOOLEAN]

(* The variables hold what the program and the database can hold.          *)
TypeOK ==
    /\ alta \in [Ordenes -> {"libre", "leida", "fin"}]
    /\ numero \in [Ordenes -> Nat]
    /\ estado \in [Lineas -> EstadosOc]
    /\ recibida \in [Lineas -> Nat]
    /\ comprado \in [Lineas -> Nat]
    /\ stock \in [Productos -> Int]
    /\ rec \in [Recepciones -> Recepcion]
    /\ autorizadas \subseteq Lineas

(* However receptions of an order overlap, a line never ends with more     *)
(* than was ordered unless some reception of it was authorised to: the     *)
(* check of the excess (lines 354-368) is not stale when it is acted on.   *)
SinExcesoSinPermiso ==
    \A l \in Lineas \ autorizadas : recibida[l] <= Pedida[l]

(* The units of product p among the quantities f of the lines.             *)
DelProducto(f, p) == SumFunction([l \in Lineas |-> IF Producto[l] = p THEN f[l] ELSE 0])

(* The stock is what it was plus what the purchases of the orders brought: *)
(* concurrent receptions of one product lose no update, and the aborted    *)
(* ones leave nothing.                                                     *)
StockCuadra ==
    \A p \in Productos : stock[p] = Stock0[p] + DelProducto(comprado, p)

LineasDe(o) == {l \in Lineas : OrdenDe[l] = o}

(* The state of an order that shares its number with no other says what    *)
(* was received of it: its lines agree, it is recibida_total exactly when  *)
(* nothing is pending, and with nothing received it was never parcial.     *)
EstadoRefleja ==
    \A o \in Creadas : ~Compartido(o) =>
        LET algo     == \E l \in LineasDe(o) : recibida[l] > 0
            completa == \A l \in LineasDe(o) : recibida[l] >= Pedida[l]
        IN \A l \in LineasDe(o) :
              /\ \A m \in LineasDe(o) : estado[m] = estado[l]
              /\ estado[l] = "recibida_total" <=> completa
              /\ estado[l] = "recibida_parcial" <=> algo /\ ~completa

(* An order that shares its number with no other and is cancelled or       *)
(* complete stays so: a reception that was already running when it was     *)
(* cancelled does not bring it back, nor does one receive into it.         *)
TerminadaNoVuelve ==
    [][\A l \in Lineas :
          estado[l] \in {"cancelada", "recibida_total"} /\ ~Compartido(OrdenDe[l])
             => estado'[l] = estado[l] /\ recibida'[l] = recibida[l]]_vars

(* The inductive invariant the proofs use.  The rows of an order appear at *)
(* once and change state together; only a reception moves what was         *)
(* received, and it holds the rows it read while it does.                  *)
LineasDeOrden ==
    /\ \A l \in Lineas : estado[l] # "nada" <=> alta[OrdenDe[l]] = "fin"
    /\ \A l, m \in Lineas : OrdenDe[l] = OrdenDe[m] => estado[l] = estado[m]
    /\ \A l \in Lineas :
          estado[l] \in {"nada", "pendiente", "cancelada"} => recibida[l] = 0

TomaDeFilas(t) ==
    /\ t.lineas \subseteq Filas(t.n)
    /\ \A l \in t.lineas : LineasDe(OrdenDe[l]) \subseteq t.lineas
    /\ \E l \in t.lineas : t.ahora[l] > 0
    /\ \A l \in Lineas : t.ahora[l] > 0 => l \in t.lineas

LoLeidoVale(t) ==
    /\ \A l \in t.lineas : estado[l] # "cancelada"
    /\ \E l \in t.lineas : estado[l] # "recibida_total"
    /\ t.permiso \/ \A l \in t.lineas : t.ahora[l] > 0 => recibida[l] + t.ahora[l] <= Pedida[l]
    /\ t.paso = "confirmar" =>
          \A o \in Creadas : numero[o] = t.n /\ ~Compartido(o) =>
             (t.completa <=> \A l \in LineasDe(o) : recibida[l] + t.ahora[l] >= Pedida[l])

Transacciones ==
    /\ \A r \in Recepciones :
          IF rec[r].paso \in EnCurso THEN TomaDeFilas(rec[r]) /\ LoLeidoVale(rec[r])
                                     ELSE rec[r].lineas = {}
    /\ \A r, s \in Recepciones :
          rec[r].paso \in EnCurso /\ rec[s].paso \in EnCurso /\ rec[r].n = rec[s].n => r = s

InvOrdenes == LineasDeOrden /\ Transacciones /\ SinExcesoSinPermiso /\ EstadoRefleja

(* What the open transactions will make of the stock.  The products one of *)
(* them updated are locked, so its copy of their stock is the stored one   *)
(* and what it has bought so far.                                          *)
Entregado(t) == [l \in Lineas |-> IF l \in t.pend THEN 0 ELSE t.ahora[l]]

CopiaDelStock ==
    /\ \A r \in Recepciones :
          IF rec[r].paso \in EnCurso
          THEN /\ \A p \in rec[r].productos :
                     rec[r].nuevo[p] = stock[p] + DelProducto(Entregado(rec[r]), p)
               /\ \A l \in Lineas : Entregado(rec[r])[l] > 0 => Producto[l] \in rec[r].productos
               /\ rec[r].paso = "confirmar" => rec[r].pend = {}
          ELSE rec[r].productos = {}
    /\ \A r, s \in Recepciones : r # s => rec[r].productos \cap rec[s].productos = {}

InvStock == CopiaDelStock /\ StockCuadra

(* Created one at a time, no two orders have one number: the one that is   *)
(* being created has a larger number than those stored.                    *)
NumeroPropio ==
    \A o, u \in Ordenes : o # u /\ alta[u] = "fin" =>
        /\ alta[o] = "leida" => numero[o] > numero[u]
        /\ alta[o] = "fin" => numero[o] # numero[u]

(* Every reception that began ends, with its goods in or with an error,    *)
(* although receptions of the same products in another order block each    *)
(* other.                                                                  *)
TodaRecepcionTermina ==
    \A r \in Recepciones : rec[r].paso \in EnCurso ~> rec[r].paso \notin EnCurso

(* Created one at a time, the orders behave as the atomic ones: the steps  *)
(* of a reception, the locks it holds and the transactions that wait or    *)
(* abort are not seen from outside.  The state of an order is that of any  *)
(* of its lines.                                                           *)
Atomica == INSTANCE OrdenAtomica WITH
    estado <- [o \in Ordenes |-> estado[CHOOSE l \in Lineas : OrdenDe[l] = o]]

ImplementaAtomica == Atomica!Spec
=============================================================================
