------------------------------- MODULE Ventas -------------------------------
(***************************************************************************)
(* Registering sales: POST /api/ventas/create, createVentaTransaccionalPg  *)
(* and the other writers of productos.stock_actual.                        *)
(*                                                                         *)
(* The server talks to Postgres through PostgREST, one statement per       *)
(* await, so a sale is a sequence of steps of its own and the steps of     *)
(* different requests interleave.  Every action below is one await (one    *)
(* statement) with the local code up to the next one.  Any of them can     *)
(* fail, which starts the best-effort rollback, and the process can die    *)
(* between two of them, which starts nothing.                              *)
(***************************************************************************)
EXTENDS Integers, FiniteSets, Functions

CONSTANTS
    Productos,      \* the catalogue
    Controla,       \* products with controla_stock, the only ones discounted
    Receta,         \* Receta[s]: the inputs of the active recipe of s, {} if none
    Ventas,         \* sale requests
    Ajustes,        \* manual stock movements and editions of a product
    Carritos,       \* the carts a request may bring: units asked of each product
    MaxInsumo,      \* bound on the units of one input a sale consumes
    DeltasAjuste,   \* signed quantities of a manual movement
    DeltasCompra,   \* signed quantities a purchase, or the edition of one, applies
    MaxCompras,     \* bound on the number of such purchase transactions
    Stock0,         \* stock at the start
    Previa,         \* number of the last sale stored at the start (0: none)
    Tope            \* the first number longer than its padding (10^6 in the code)

ASSUME VentasAssumption ==
    /\ Productos # {}
    /\ Controla \subseteq Productos
    /\ Receta \in [Productos -> SUBSET Productos]
    /\ Carritos \subseteq [Productos -> Nat]
    /\ MaxInsumo \in Nat
    /\ DeltasAjuste \subseteq Int
    /\ DeltasCompra \subseteq Int
    /\ MaxCompras \in Nat
    /\ Stock0 \in [Productos -> Nat]
    /\ Tope \in Nat \ {0}
    /\ Previa \in 0..(Tope - 1)
    /\ IsFiniteSet(Ventas)
    /\ IsFiniteSet(Ajustes)

VARIABLES
    stock,          \* productos.stock_actual
    libro,          \* per product, entries less exits in movimientos_inventario
    filas,          \* per sale, the tables in which it has rows
    mov,            \* per sale and product, units in its SALIDA movements
    numero,         \* per sale, the n of its VTA-n (0: none read yet)
    pc,             \* per sale, where its handler is
    cant,           \* per sale, the cart
    leido,          \* per sale, its copy of the stock (stockMap)
    resta,          \* per sale, units of its lines still to discount
    consumo,        \* per sale, units its services consume of each input
    pendInsumo,     \* per sale, the part of consumo still to discount
    nuevo,          \* per sale, stock_nuevo of each input
    porAsentar,     \* per sale, units taken from stock with no movement yet
    ajuste,         \* per manual movement or edition, its state and what it read
    compras,        \* purchase transactions so far
    anteriores,     \* history: per sale, the sales that were ok when it arrived
    borradoFallido, \* history: sales one of whose rollback deletes failed
    perturbado      \* history: products some step may have put out of balance

datosVenta == <<filas, mov, numero, pc, cant, leido, resta, consumo, pendInsumo,
                nuevo, porAsentar, anteriores, borradoFallido>>
vars == <<stock, libro, datosVenta, ajuste, compras, perturbado>>

Cero     == [p \in Productos |-> 0]
Tablas   == {"venta", "items", "vehiculos"}
EnTry    == {"items", "explotar", "descuento"}  \* inside try: an error rolls back
Rollback == {"movimientos", "borrarItems", "borrarVenta"}
Activa   == {"productos", "numero", "insertar"} \cup EnTry \cup Rollback
Final    == {"ok", "rechazada", "error", "caida"}

(* Products some service consumes, and those only sold over the counter.   *)
Insumos  == UNION {Receta[p] : p \in Productos}
Directos == Controla \ Insumos

(* Inputs the recipes of a cart may consume.                               *)
InsumosDe(c) == UNION {Receta[p] : p \in {q \in Productos : c[q] > 0}}

(* A movement that has nothing read yet, or any more.                      *)
AjusteEn(paso) ==
    [paso |-> paso, p |-> CHOOSE p \in Productos : TRUE, d |-> 0, base |-> 0]

Init ==
    /\ stock = Stock0
    /\ libro = Cero
    /\ filas = [v \in Ventas |-> {}]
    /\ mov = [v \in Ventas |-> Cero]
    /\ numero = [v \in Ventas |-> 0]
    /\ pc = [v \in Ventas |-> "libre"]
    /\ cant = [v \in Ventas |-> Cero]
    /\ leido = [v \in Ventas |-> Cero]
    /\ resta = [v \in Ventas |-> Cero]
    /\ consumo = [v \in Ventas |-> Cero]
    /\ pendInsumo = [v \in Ventas |-> Cero]
    /\ nuevo = [v \in Ventas |-> Cero]
    /\ porAsentar = [v \in Ventas |-> Cero]
    /\ ajuste = [a \in Ajustes |-> AjusteEn("libre")]
    /\ compras = 0
    /\ anteriores = [v \in Ventas |-> {}]
    /\ borradoFallido = {}
    /\ perturbado = {}

Va(v, de, a) == pc[v] = de /\ pc' = [pc EXCEPT ![v] = a]

-----------------------------------------------------------------------------
(* The handler of a sale, up to the row in ventas.                         *)

(* The request arrives with its cart; shape and totals were accepted.      *)
Recibir(v) ==
    /\ Va(v, "libre", "productos")
    /\ \E c \in Carritos : c # Cero /\ cant' = [cant EXCEPT ![v] = c]
    /\ anteriores' = [anteriores EXCEPT ![v] = {w \in Ventas : pc[w] = "ok"}]
    /\ UNCHANGED <<stock, libro, filas, mov, numero, leido, resta, consumo, pendInsumo,
                   nuevo, porAsentar, borradoFallido, ajuste, compras, perturbado>>

AlcanzaSiempre(c) == TRUE

Alcanza(c) == \A p \in Controla : c[p] > 0 => stock[p] >= c[p]

(* Reads the products of the cart and checks the stock of controlled ones. *)
LeerProductos(v) ==
    /\ \/ /\ Alcanza(cant[v])
          /\ Va(v, "productos", "numero")
          /\ leido' = [leido EXCEPT ![v] = stock]
          /\ resta' = [resta EXCEPT ![v] =
                          [p \in Productos |-> IF p \in Controla THEN cant[v][p] ELSE 0]]
       \/ /\ ~Alcanza(cant[v])
          /\ Va(v, "productos", "rechazada")
          /\ UNCHANGED <<leido, resta>>
    /\ UNCHANGED <<stock, libro, filas, mov, numero, cant, consumo, pendInsumo, nuevo,
                   porAsentar, anteriores, borradoFallido, ajuste, compras, perturbado>>

Emitidas == {w \in Ventas : "venta" \in filas[w]}

Guardados == {Previa} \cup {numero[w] : w \in Emitidas}

(* The numbers are compared as text, 'VTA-' and n padded with zeros.  One   *)
(* digit more than the padding is the longest number modelled: by the      *)
(* digits both have, then the shorter first.                               *)
MaxNumero == 10 * Tope - 1

Cabeza(n) == IF n < Tope THEN n ELSE n \div 10

AntesEnTexto(m, n) ==
    \/ Cabeza(m) < Cabeza(n)
    \/ Cabeza(m) = Cabeza(n) /\ m < n

CualquieraEsUltimo(n) == TRUE

EsUltimo(n) == \A m \in Guardados : ~AntesEnTexto(n, m)

(* The next VTA number is one more than the last stored one, in the order  *)
(* of the text column.  Nothing in the table refuses a repeated one.       *)
LeerNumero(v) ==
    /\ Va(v, "numero", "insertar")
    /\ \E n \in Guardados :
          EsUltimo(n) /\ n < MaxNumero /\ numero' = [numero EXCEPT ![v] = n + 1]
    /\ UNCHANGED <<stock, libro, filas, mov, cant, leido, resta, consumo, pendInsumo,
                   nuevo, porAsentar, anteriores, borradoFallido, ajuste, compras, perturbado>>

InsertarVenta(v) ==
    /\ Va(v, "insertar", "items")
    /\ filas' = [filas EXCEPT ![v] = {"venta"}]
    /\ UNCHANGED <<stock, libro, mov, numero, cant, leido, resta, consumo, pendInsumo,
                   nuevo, porAsentar, anteriores, borradoFallido, ajuste, compras, perturbado>>

(* Items in one statement, then the vehicles if the sale brings any.       *)
InsertarDetalle(v) ==
    /\ pc[v] = "items"
    /\ \/ /\ "items" \notin filas[v]
          /\ filas' = [filas EXCEPT ![v] = @ \cup {"items"}]
          /\ \E conVehiculos \in BOOLEAN :
                pc' = [pc EXCEPT ![v] = IF conVehiculos THEN "items" ELSE "explotar"]
       \/ /\ "items" \in filas[v]
          /\ filas' = [filas EXCEPT ![v] = @ \cup {"vehiculos"}]
          /\ pc' = [pc EXCEPT ![v] = "explotar"]
    /\ UNCHANGED <<stock, libro, mov, numero, cant, leido, resta, consumo, pendInsumo,
                   nuevo, porAsentar, anteriores, borradoFallido, ajuste, compras, perturbado>>

-----------------------------------------------------------------------------
(* Discounting stock.                                                      *)

(* explotarServicios: how much of each controlled input the services take, *)
(* and the stock to leave.  The customer's adjustments (ajustes) can set   *)
(* the units of an input to any amount, zero included.                     *)
Explotar(v) ==
    /\ Va(v, "explotar", "descuento")
    /\ \E c \in [InsumosDe(cant[v]) \cap Controla -> 0..MaxInsumo] :
          LET n == [p \in Productos |-> IF p \in DOMAIN c THEN c[p] ELSE 0]
          IN  /\ consumo' = [consumo EXCEPT ![v] = n]
              /\ pendInsumo' = [pendInsumo EXCEPT ![v] = n]
              /\ nuevo' = [nuevo EXCEPT ![v] = [p \in Productos |-> stock[p] - n[p]]]
    /\ UNCHANGED <<stock, libro, filas, mov, numero, cant, leido, resta, porAsentar,
                   anteriores, borradoFallido, ajuste, compras, perturbado>>

(* Writes x over the stock of p, a product whose stock was read as base.   *)
Escribir(p, x, base) ==
    /\ stock' = [stock EXCEPT ![p] = x]
    /\ perturbado' = IF stock[p] = base THEN perturbado ELSE perturbado \cup {p}

(* Every controlled input the services consume, one after the other.       *)
DescontarInsumo(v, p) ==
    /\ pc[v] = "descuento" /\ porAsentar[v] = Cero /\ pendInsumo[v][p] > 0
    /\ Escribir(p, nuevo[v][p], nuevo[v][p] + pendInsumo[v][p])
    /\ porAsentar' = [porAsentar EXCEPT ![v][p] = pendInsumo[v][p]]
    /\ pendInsumo' = [pendInsumo EXCEPT ![v][p] = 0]
    /\ UNCHANGED <<libro, filas, mov, numero, pc, cant, leido, resta, consumo, nuevo,
                   anteriores, borradoFallido, ajuste, compras>>

TrozosDeMas(v, p) == 1..(resta[v][p] + 1)

Trozos(v, p) == 1..resta[v][p]

(* One line of n units of p: a cart may split a product over several lines, *)
(* and each subtracts from the copy of the stock the request keeps.         *)
DescontarLinea(v, p) ==
    /\ pc[v] = "descuento" /\ porAsentar[v] = Cero /\ pendInsumo[v] = Cero
    /\ \E n \in Trozos(v, p) :
          /\ Escribir(p, leido[v][p] - n, leido[v][p])
          /\ leido' = [leido EXCEPT ![v][p] = @ - n]
          /\ resta' = [resta EXCEPT ![v][p] = @ - n]
          /\ porAsentar' = [porAsentar EXCEPT ![v][p] = n]
    /\ UNCHANGED <<libro, filas, mov, numero, pc, cant, consumo, pendInsumo, nuevo,
                   anteriores, borradoFallido, ajuste, compras>>

SalidaComoEntrada(v, p) ==
    /\ pc[v] = "descuento" /\ porAsentar[v][p] > 0
    /\ mov' = [mov EXCEPT ![v][p] = @ + porAsentar[v][p]]
    /\ libro' = [libro EXCEPT ![p] = @ + porAsentar[v][p]]
    /\ porAsentar' = [porAsentar EXCEPT ![v][p] = 0]
    /\ UNCHANGED <<stock, filas, numero, pc, cant, leido, resta, consumo, pendInsumo,
                   nuevo, anteriores, borradoFallido, ajuste, compras, perturbado>>

(* The SALIDA movement that follows every write of the stock.              *)
InsertarSalida(v, p) ==
    /\ pc[v] = "descuento" /\ porAsentar[v][p] > 0
    /\ mov' = [mov EXCEPT ![v][p] = @ + porAsentar[v][p]]
    /\ libro' = [libro EXCEPT ![p] = @ - porAsentar[v][p]]
    /\ porAsentar' = [porAsentar EXCEPT ![v][p] = 0]
    /\ UNCHANGED <<stock, filas, numero, pc, cant, leido, resta, consumo, pendInsumo,
                   nuevo, anteriores, borradoFallido, ajuste, compras, perturbado>>

TerminarSinLineas(v) ==
    /\ Va(v, "descuento", "ok")
    /\ porAsentar[v] = Cero /\ pendInsumo[v] = Cero
    /\ UNCHANGED <<stock, libro, filas, mov, numero, cant, leido, resta, consumo,
                   pendInsumo, nuevo, porAsentar, anteriores, borradoFallido, ajuste,
                   compras, perturbado>>

(* Nothing left to discount; the kitchen card, if any, is the last insert. *)
Terminar(v) ==
    /\ Va(v, "descuento", "ok")
    /\ porAsentar[v] = Cero /\ pendInsumo[v] = Cero /\ resta[v] = Cero
    /\ UNCHANGED <<stock, libro, filas, mov, numero, cant, leido, resta, consumo,
                   pendInsumo, nuevo, porAsentar, anteriores, borradoFallido, ajuste,
                   compras, perturbado>>

-----------------------------------------------------------------------------
(* Failures.                                                               *)

(* Products whose stock sale v has already written.                        *)
Tocados(v) == {p \in Productos : mov[v][p] + porAsentar[v][p] > 0}

(* A statement returns an error: before the row in ventas the request just *)
(* ends, after it the catch calls rollback(), which never touches stock.   *)
Fallar(v) ==
    /\ \/ pc[v] \in {"productos", "numero", "insertar"} /\ Va(v, pc[v], "error")
       \/ pc[v] \in EnTry /\ Va(v, pc[v], "movimientos")
    /\ perturbado' = perturbado \cup Tocados(v)
    /\ UNCHANGED <<stock, libro, filas, mov, numero, cant, leido, resta, consumo,
                   pendInsumo, nuevo, porAsentar, anteriores, borradoFallido, ajuste, compras>>

SaltarMovimientos(v) ==
    /\ Va(v, "movimientos", "borrarItems")
    /\ UNCHANGED <<stock, libro, filas, mov, numero, cant, leido, resta, consumo,
                   pendInsumo, nuevo, porAsentar, anteriores, borradoFallido, ajuste,
                   compras, perturbado>>

(* rollback(): four deletes in order, the error of each one ignored.       *)
BorrarMovimientos(v) ==
    /\ Va(v, "movimientos", "borrarItems")
    /\ \/ /\ libro' = [p \in Productos |-> libro[p] + mov[v][p]]
          /\ mov' = [mov EXCEPT ![v] = Cero]
          /\ UNCHANGED borradoFallido
       \/ /\ borradoFallido' = borradoFallido \cup {v}
          /\ UNCHANGED <<libro, mov>>
    /\ UNCHANGED <<stock, filas, numero, cant, leido, resta, consumo, pendInsumo, nuevo,
                   porAsentar, anteriores, ajuste, compras, perturbado>>

BorrarDetalle(v) ==
    /\ Va(v, "borrarItems", "borrarVenta")
    /\ \E T \in SUBSET {"items", "vehiculos"} :
          /\ filas' = [filas EXCEPT ![v] = @ \ T]
          /\ borradoFallido' = IF filas[v] \cap {"items", "vehiculos"} \subseteq T
                               THEN borradoFallido ELSE borradoFallido \cup {v}
    /\ UNCHANGED <<stock, libro, mov, numero, cant, leido, resta, consumo, pendInsumo,
                   nuevo, porAsentar, anteriores, ajuste, compras, perturbado>>

(* Deleting the sale cascades to its items and vehicles.                   *)
BorrarVenta(v) ==
    /\ Va(v, "borrarVenta", "error")
    /\ \/ /\ filas' = [filas EXCEPT ![v] = {}]
          /\ UNCHANGED borradoFallido
       \/ /\ borradoFallido' = borradoFallido \cup {v}
          /\ UNCHANGED filas
    /\ UNCHANGED <<stock, libro, mov, numero, cant, leido, resta, consumo, pendInsumo,
                   nuevo, porAsentar, anteriores, ajuste, compras, perturbado>>

(* The server process dies between two awaits: no catch, no rollback.      *)
Caer(v) ==
    /\ pc[v] \in Activa
    /\ Va(v, pc[v], "caida")
    /\ perturbado' = perturbado \cup {p \in Productos : porAsentar[v][p] > 0}
    /\ UNCHANGED <<stock, libro, filas, mov, numero, cant, leido, resta, consumo,
                   pendInsumo, nuevo, porAsentar, anteriores, borradoFallido, ajuste, compras>>

-----------------------------------------------------------------------------
(* The other writers of stock_actual.                                      *)

(* saveMovimiento, in the browser: reads the product, inserts the          *)
(* movement, then writes the stock it computed, never below zero.          *)
LeerAjuste(a) ==
    /\ ajuste[a].paso = "libre"
    /\ \E p \in Productos, d \in DeltasAjuste :
          ajuste' = [ajuste EXCEPT ![a] =
                        [paso |-> "leido", p |-> p, d |-> d, base |-> stock[p]]]
    /\ UNCHANGED <<stock, libro, datosVenta, compras, perturbado>>

InsertarAjuste(a) ==
    LET p == ajuste[a].p IN
    /\ ajuste[a].paso = "leido"
    /\ \/ /\ libro' = [libro EXCEPT ![p] = @ + ajuste[a].d]
          /\ ajuste' = [ajuste EXCEPT ![a].paso = "movimiento"]
       \/ /\ ajuste' = [ajuste EXCEPT ![a] = AjusteEn("fin")]   \* the insert failed
          /\ UNCHANGED libro
    /\ UNCHANGED <<stock, datosVenta, compras, perturbado>>

EscribirAjusteSinTope(a) ==
    LET p == ajuste[a].p
        x == ajuste[a].base + ajuste[a].d
    IN  /\ ajuste[a].paso = "movimiento"
        /\ ajuste' = [ajuste EXCEPT ![a] = AjusteEn("fin")]
        /\ stock' = [stock EXCEPT ![p] = x]
        /\ perturbado' = IF stock[p] = ajuste[a].base THEN perturbado ELSE perturbado \cup {p}
        /\ UNCHANGED <<libro, datosVenta, compras>>

EscribirAjuste(a) ==
    LET p == ajuste[a].p
        x == ajuste[a].base + ajuste[a].d
    IN  /\ ajuste[a].paso = "movimiento"
        /\ ajuste' = [ajuste EXCEPT ![a] = AjusteEn("fin")]
        /\ \/ /\ stock' = [stock EXCEPT ![p] = IF x < 0 THEN 0 ELSE x]
              /\ perturbado' = IF stock[p] = ajuste[a].base /\ x >= 0
                               THEN perturbado ELSE perturbado \cup {p}
           \/ /\ perturbado' = perturbado \cup {p}         \* the update failed: logged
              /\ UNCHANGED stock
        /\ UNCHANGED <<libro, datosVenta, compras>>

(* The product form, PATCH /api/productos/[id]: saving any field writes the *)
(* stock the page loaded, or what the user typed over it, and no movement.  *)
(* Nothing checks the figure: the form is sent without validation.          *)
EditarProducto(a) ==
    LET p == ajuste[a].p IN
    /\ ajuste[a].paso = "leido"
    /\ ajuste' = [ajuste EXCEPT ![a] = AjusteEn("fin")]
    /\ \E d \in DeltasAjuste \cup {0} :
          LET x == ajuste[a].base + d
          IN  /\ stock' = [stock EXCEPT ![p] = x]
              /\ perturbado' = IF stock[p] = x THEN perturbado ELSE perturbado \cup {p}
    /\ UNCHANGED <<libro, datosVenta, compras>>

ComprarSinMovimiento(p, d) ==
    /\ compras < MaxCompras
    /\ compras' = compras + 1
    /\ stock' = [stock EXCEPT ![p] = @ + d]
    /\ UNCHANGED <<libro, datosVenta, ajuste, perturbado>>

(* A purchase, or the edition of one, is one Postgres transaction: the     *)
(* movement and a relative update of the stock commit together.            *)
AplicarCompra(p, d) ==
    /\ compras < MaxCompras
    /\ compras' = compras + 1
    /\ stock' = [stock EXCEPT ![p] = @ + d]
    /\ libro' = [libro EXCEPT ![p] = @ + d]
    /\ UNCHANGED <<datosVenta, ajuste, perturbado>>

-----------------------------------------------------------------------------
Paso(v) ==
    \/ Recibir(v) \/ LeerProductos(v) \/ LeerNumero(v) \/ InsertarVenta(v)
    \/ InsertarDetalle(v) \/ Explotar(v)
    \/ \E p \in Productos : DescontarInsumo(v, p) \/ DescontarLinea(v, p) \/ InsertarSalida(v, p)
    \/ Terminar(v)
    \/ BorrarMovimientos(v) \/ BorrarDetalle(v) \/ BorrarVenta(v)

Next ==
    \/ \E v \in Ventas : Paso(v) \/ Fallar(v) \/ Caer(v)
    \/ \E a \in Ajustes : \/ LeerAjuste(a) \/ InsertarAjuste(a) \/ EscribirAjuste(a)
                         \/ EditarProducto(a)
    \/ \E p \in Productos, d \in DeltasCompra : AplicarCompra(p, d)

Spec == Init /\ [][Next]_vars

-----------------------------------------------------------------------------
(* Properties.                                                             *)

(* Every variable holds what its column or local variable can hold.        *)
TypeOK ==
    /\ stock \in [Productos -> Int]
    /\ libro \in [Productos -> Int]
    /\ filas \in [Ventas -> SUBSET Tablas]
    /\ mov \in [Ventas -> [Productos -> Nat]]
    /\ numero \in [Ventas -> Nat]
    /\ pc \in [Ventas -> {"libre"} \cup Activa \cup Final]
    /\ cant \in [Ventas -> [Productos -> Nat]]
    /\ leido \in [Ventas -> [Productos -> Int]]
    /\ resta \in [Ventas -> [Productos -> Nat]]
    /\ consumo \in [Ventas -> [Productos -> Nat]]
    /\ pendInsumo \in [Ventas -> [Productos -> Nat]]
    /\ nuevo \in [Ventas -> [Productos -> Int]]
    /\ porAsentar \in [Ventas -> [Productos -> Nat]]
    /\ ajuste \in [Ajustes -> [paso : {"libre", "leido", "movimiento", "fin"},
                               p : Productos, d : Int, base : Int]]
    /\ compras \in 0..MaxCompras
    /\ anteriores \in [Ventas -> SUBSET Ventas]
    /\ borradoFallido \in SUBSET Ventas
    /\ perturbado \in SUBSET Productos

Vendido(v, p) == (IF p \in Controla THEN cant[v][p] ELSE 0) + consumo[v][p]

(* A sale answered with success has its row and its items, and its exit    *)
(* movements say, product by product, exactly what its lines and its       *)
(* services took (create-venta-pg.ts, steps 5 to 7).                       *)
VentaCompleta ==
    \A v \in Ventas : pc[v] = "ok" =>
        /\ {"venta", "items"} \subseteq filas[v]
        /\ \A p \in Productos : mov[v][p] = Vendido(v, p)

(* However sales, manual movements, editions and purchases interleave, the *)
(* only steps that leave a negative stock on a product only sold over the  *)
(* counter are the edition of a purchase and the product form: no sale     *)
(* does, not even over a stale copy of the stock, and no manual movement   *)
(* (create-venta-pg.ts:164-171, storage.ts:369).  On an input of a service *)
(* nothing prevents it.                                                    *)
EnFormulario(p) ==
    \E a \in Ajustes : ajuste[a].paso = "leido" /\ ajuste'[a].paso = "fin" /\ ajuste[a].p = p

VentaNoDejaNegativo ==
    [][\A p \in Directos :
          stock'[p] # stock[p] /\ stock'[p] < 0 =>
              compras' # compras \/ EnFormulario(p)]_vars

(* Units taken from p by each sale, and added to the ledger of p by each    *)
(* manual movement, whose other half is still to come.                      *)
Tomado(p) == [v \in Ventas |-> porAsentar[v][p]]

Anotado(p) ==
    [a \in Ajustes |->
        IF ajuste[a].paso = "movimiento" /\ ajuste[a].p = p THEN ajuste[a].d ELSE 0]

EnCamino(p) == SumFunction(Tomado(p)) + SumFunction(Anotado(p))

(* The stock of a product is what its movements say, but for the movements *)
(* and writes under way, until one of these happens: a write over a stale  *)
(* read, an error or a death after a discount, an adjustment clamped at    *)
(* zero or whose second statement failed, the product form saved with a    *)
(* stock that is not the current one.  No other order of steps, no         *)
(* rollback and no purchase puts stock and ledger out of balance.          *)
CuadreSalvoPerturbacion ==
    \A p \in Productos \ perturbado :
        stock[p] + EnCamino(p) = Stock0[p] + libro[p]

(* What a rollback is about to give back to the ledger never left it in     *)
(* balance: the discount of those units already counts as a perturbation.   *)
PorBorrar ==
    \A v \in Ventas, p \in Productos :
        pc[v] = "movimientos" /\ mov[v][p] > 0 => p \in perturbado

InvCuadre == CuadreSalvoPerturbacion /\ PorBorrar

(* A sale requested after another was answered gets a larger number, even  *)
(* if a rollback deletes rows in between: only sales that overlap in time  *)
(* can share a VTA number (create-venta-pg.ts:173-188).  Of the answered   *)
(* sale, its number fits in the padding: past that the order of the text   *)
(* is no longer the order of the numbers.                                  *)
NumeroCreceEnElTiempo ==
    \A v \in Ventas : \A w \in anteriores[v] :
        "venta" \in filas[v] /\ numero[w] < Tope => numero[w] < numero[v]

(* A sale that failed, and whose rollback deletes all worked, leaves no    *)
(* row and no movement behind (create-venta-pg.ts:223-237).                *)
ErrorLimpio ==
    \A v \in Ventas \ borradoFallido :
        pc[v] = "error" => filas[v] = {} /\ mov[v] = Cero

(* The inductive invariant the proofs use.  Each unit a sale takes is in   *)
(* one of four places: still in a line, still in an input, taken from the  *)
(* stock, or taken and in the ledger.                                      *)
CuentaDeUnidades ==
    \A v \in Ventas, p \in Productos :
        /\ pc[v] \in {"libre", "productos", "numero", "insertar", "items", "explotar"} =>
              mov[v][p] = 0 /\ porAsentar[v][p] = 0 /\ pendInsumo[v][p] = 0 /\ consumo[v][p] = 0
        /\ pc[v] \in {"numero", "insertar", "items", "explotar", "descuento", "ok"} =>
              mov[v][p] + porAsentar[v][p] + pendInsumo[v][p] + resta[v][p] = Vendido(v, p)
        /\ pc[v] = "ok" =>
              porAsentar[v][p] = 0 /\ pendInsumo[v][p] = 0 /\ resta[v][p] = 0

FilasDeVenta ==
    \A v \in Ventas :
        /\ pc[v] \in {"libre", "productos", "numero", "insertar", "rechazada"} => filas[v] = {}
        /\ pc[v] = "items" => "venta" \in filas[v]
        /\ pc[v] \in {"explotar", "descuento", "ok"} => {"venta", "items"} \subseteq filas[v]

(* The copy of the stock covers what is left of the lines.                 *)
CopiaAlcanza ==
    \A v \in Ventas, p \in Productos :
        pc[v] \in {"numero", "insertar", "items", "explotar", "descuento"} =>
        /\ resta[v][p] > 0 => p \in Controla /\ leido[v][p] >= resta[v][p]
        /\ pendInsumo[v][p] > 0 => p \in Insumos

NumeroTrasAnteriores ==
    \A v \in Ventas : \A w \in anteriores[v] :
        /\ pc[w] = "ok"
        /\ (pc[v] = "insertar" \/ "venta" \in filas[v]) /\ numero[w] < Tope =>
              numero[w] < numero[v]

RollbackAvanza ==
    \A v \in Ventas \ borradoFallido :
        /\ pc[v] \in {"borrarItems", "borrarVenta", "error"} =>
              \A p \in Productos : mov[v][p] = 0
        /\ pc[v] = "error" => filas[v] = {}

InvVenta == CuentaDeUnidades /\ FilasDeVenta /\ CopiaAlcanza
            /\ NumeroTrasAnteriores /\ RollbackAvanza

(* route.ts:174 says that a sale, its items, its stock and its movements   *)
(* are one Postgres transaction: then, a sale that failed takes nothing    *)
(* from the stock and leaves nothing in the ledger.                        *)
FallidaNoDejaRastro ==
    (\A v \in Ventas : pc[v] \in {"libre", "rechazada", "error"}) /\ compras = 0
        /\ (\A a \in Ajustes : ajuste[a].paso = "libre")
        => stock = Stock0 /\ libro = Cero

(* create-venta-pg.ts:447-449 says that two discounts of one input never   *)
(* overwrite each other: then a sale alone takes from the stock all that   *)
(* its movements say.                                                      *)
VentaSolaDescuentaTodo ==
    \A v \in Ventas :
        pc[v] = "ok" /\ compras = 0
        /\ (\A w \in Ventas \ {v} : pc[w] = "libre")
        /\ (\A a \in Ajustes : ajuste[a].paso = "libre")
        => \A p \in Productos : stock[p] = Stock0[p] - mov[v][p]
=============================================================================
