---------------------------- MODULE VentasProofs ----------------------------
(***************************************************************************)
(* Proofs about Ventas, for every catalogue, every set of requests and     *)
(* every bound.                                                            *)
(***************************************************************************)
EXTENDS Ventas, SumasProofs

LEMMA TipoInicial == Init => TypeOK
BY VentasAssumption DEF Init, TypeOK, Cero, AjusteEn

LEMMA TipoRecibir ==
    ASSUME TypeOK, NEW v \in Ventas, Recibir(v)
    PROVE  TypeOK'
BY VentasAssumption DEF TypeOK, Recibir, Va, Activa, EnTry, Rollback, Final

LEMMA TipoLectura ==
    ASSUME TypeOK, NEW v \in Ventas, LeerProductos(v) \/ LeerNumero(v)
    PROVE  TypeOK'
<1>1. CASE LeerProductos(v)
  <2>1. leido' \in [Ventas -> [Productos -> Int]]
    BY <1>1 DEF TypeOK, LeerProductos
  <2>2. [p \in Productos |-> IF p \in Controla THEN cant[v][p] ELSE 0]
            \in [Productos -> Nat]
    BY DEF TypeOK
  <2>3. resta' \in [Ventas -> [Productos -> Nat]]
    BY <1>1, <2>2 DEF TypeOK, LeerProductos
  <2>4. pc' \in [Ventas -> {"libre"} \cup Activa \cup Final]
    BY <1>1 DEF TypeOK, LeerProductos, Va, Activa, Final
  <2>5. QED
    BY <1>1, <2>1, <2>3, <2>4 DEF TypeOK, LeerProductos
<1>2. CASE LeerNumero(v)
  <2>1. PICK n \in Guardados : numero' = [numero EXCEPT ![v] = n + 1]
    BY <1>2 DEF LeerNumero
  <2>2. n \in Nat
    BY VentasAssumption DEF TypeOK, Guardados, Emitidas
  <2>3. numero' \in [Ventas -> Nat]
    BY <2>1, <2>2 DEF TypeOK
  <2>4. QED
    BY <1>2, <2>3 DEF TypeOK, LeerNumero, Va, Activa, EnTry, Rollback, Final
<1>3. QED
  BY <1>1, <1>2

LEMMA TipoFilas ==
    ASSUME TypeOK, NEW v \in Ventas, InsertarVenta(v) \/ InsertarDetalle(v)
    PROVE  TypeOK'
<1>1. CASE InsertarVenta(v)
  BY <1>1 DEF TypeOK, InsertarVenta, Va, Tablas, Activa, EnTry, Rollback, Final
<1>2. CASE InsertarDetalle(v)
  <2>1. filas' \in [Ventas -> SUBSET Tablas]
    <3>1. PICK t \in Tablas : filas' = [filas EXCEPT ![v] = @ \cup {t}]
      BY <1>2 DEF InsertarDetalle, Tablas
    <3>2. QED
      BY <3>1 DEF TypeOK
  <2>2. pc' \in [Ventas -> {"libre"} \cup Activa \cup Final]
    BY <1>2 DEF TypeOK, InsertarDetalle, Activa, EnTry
  <2>3. QED
    BY <1>2, <2>1, <2>2 DEF TypeOK, InsertarDetalle
<1>3. QED
  BY <1>1, <1>2

LEMMA TipoExplotar ==
    ASSUME TypeOK, NEW v \in Ventas, Explotar(v)
    PROVE  TypeOK'
<1>1. PICK c \in [InsumosDe(cant[v]) \cap Controla -> 0..MaxInsumo] :
          /\ consumo' = [consumo EXCEPT ![v] =
                [p \in Productos |-> IF p \in DOMAIN c THEN c[p] ELSE 0]]
          /\ pendInsumo' = [pendInsumo EXCEPT ![v] =
                [p \in Productos |-> IF p \in DOMAIN c THEN c[p] ELSE 0]]
          /\ nuevo' = [nuevo EXCEPT ![v] = [q \in Productos |->
                stock[q] - [p \in Productos |-> IF p \in DOMAIN c THEN c[p] ELSE 0][q]]]
  BY DEF Explotar
<1> DEFINE n == [p \in Productos |-> IF p \in DOMAIN c THEN c[p] ELSE 0]
<1>2. n \in [Productos -> Nat]
  BY VentasAssumption
<1>3. [q \in Productos |-> stock[q] - n[q]] \in [Productos -> Int]
  BY <1>2 DEF TypeOK
<1> HIDE DEF n
<1>4. /\ consumo' \in [Ventas -> [Productos -> Nat]]
      /\ pendInsumo' \in [Ventas -> [Productos -> Nat]]
      /\ nuevo' \in [Ventas -> [Productos -> Int]]
  BY <1>1, <1>2, <1>3 DEF TypeOK, n
<1>5. QED
  BY <1>4 DEF TypeOK, Explotar, Va, Activa, EnTry, Rollback, Final

LEMMA TipoDescuento ==
    ASSUME TypeOK, NEW v \in Ventas, NEW p \in Productos,
           DescontarInsumo(v, p) \/ DescontarLinea(v, p) \/ InsertarSalida(v, p)
    PROVE  TypeOK'
<1>1. CASE DescontarInsumo(v, p)
  <2>1. /\ stock' \in [Productos -> Int]
        /\ perturbado' \in SUBSET Productos
    BY <1>1 DEF TypeOK, DescontarInsumo, Escribir
  <2>2. /\ porAsentar' \in [Ventas -> [Productos -> Nat]]
        /\ pendInsumo' \in [Ventas -> [Productos -> Nat]]
    BY <1>1 DEF TypeOK, DescontarInsumo
  <2>3. QED
    BY <1>1, <2>1, <2>2 DEF TypeOK, DescontarInsumo
<1>2. CASE DescontarLinea(v, p)
  <2>1. PICK n \in 1..resta[v][p] :
            /\ Escribir(p, leido[v][p] - n, leido[v][p])
            /\ leido' = [leido EXCEPT ![v][p] = @ - n]
            /\ resta' = [resta EXCEPT ![v][p] = @ - n]
            /\ porAsentar' = [porAsentar EXCEPT ![v][p] = n]
    BY <1>2 DEF DescontarLinea, Trozos
  <2>2. /\ n \in Nat
        /\ resta[v][p] - n \in Nat
        /\ leido[v][p] - n \in Int
    BY DEF TypeOK
  <2>3. /\ stock' \in [Productos -> Int]
        /\ perturbado' \in SUBSET Productos
    BY <2>1, <2>2 DEF TypeOK, Escribir
  <2>4. leido' \in [Ventas -> [Productos -> Int]]
    BY <2>1, <2>2 DEF TypeOK
  <2>5. resta' \in [Ventas -> [Productos -> Nat]]
    BY <2>1, <2>2 DEF TypeOK
  <2>6. porAsentar' \in [Ventas -> [Productos -> Nat]]
    BY <2>1, <2>2 DEF TypeOK
  <2>7. QED
    BY <1>2, <2>3, <2>4, <2>5, <2>6 DEF TypeOK, DescontarLinea
<1>3. CASE InsertarSalida(v, p)
  <2>1. /\ mov' \in [Ventas -> [Productos -> Nat]]
        /\ libro' \in [Productos -> Int]
        /\ porAsentar' \in [Ventas -> [Productos -> Nat]]
    BY <1>3 DEF TypeOK, InsertarSalida
  <2>2. QED
    BY <1>3, <2>1 DEF TypeOK, InsertarSalida
<1>4. QED
  BY <1>1, <1>2, <1>3

LEMMA TipoFin ==
    ASSUME TypeOK, NEW v \in Ventas, Terminar(v) \/ Fallar(v) \/ Caer(v)
    PROVE  TypeOK'
<1>1. CASE Terminar(v)
  BY <1>1 DEF TypeOK, Terminar, Va, Activa, Final
<1>2. CASE Fallar(v)
  <2>1. pc' \in [Ventas -> {"libre"} \cup Activa \cup Final]
    BY <1>2 DEF TypeOK, Fallar, Va, Activa, Rollback, Final
  <2>2. QED
    BY <1>2, <2>1 DEF TypeOK, Fallar, Tocados
<1>3. CASE Caer(v)
  BY <1>3 DEF TypeOK, Caer, Va, Final
<1>4. QED
  BY <1>1, <1>2, <1>3

LEMMA TipoRollback ==
    ASSUME TypeOK, NEW v \in Ventas,
           BorrarMovimientos(v) \/ BorrarDetalle(v) \/ BorrarVenta(v)
    PROVE  TypeOK'
<1>1. CASE BorrarMovimientos(v)
  <2>1. /\ libro' \in [Productos -> Int]
        /\ mov' \in [Ventas -> [Productos -> Nat]]
        /\ borradoFallido' \in SUBSET Ventas
    <3>1. mov[v] \in [Productos -> Nat] /\ Cero \in [Productos -> Nat]
      BY DEF TypeOK, Cero
    <3>2. [p \in Productos |-> libro[p] + mov[v][p]] \in [Productos -> Int]
      BY <3>1 DEF TypeOK
    <3>3. libro' \in [Productos -> Int]
      BY <1>1, <3>2 DEF TypeOK, BorrarMovimientos
    <3>4. mov' \in [Ventas -> [Productos -> Nat]]
      BY <1>1, <3>1 DEF TypeOK, BorrarMovimientos
    <3>5. borradoFallido' \in SUBSET Ventas
      BY <1>1 DEF TypeOK, BorrarMovimientos
    <3>6. QED
      BY <3>3, <3>4, <3>5
  <2>2. QED
    BY <1>1, <2>1 DEF TypeOK, BorrarMovimientos, Va, Activa, Rollback
<1>2. CASE BorrarDetalle(v)
  <2>1. /\ filas' \in [Ventas -> SUBSET Tablas]
        /\ borradoFallido' \in SUBSET Ventas
    <3>1. PICK T \in SUBSET {"items", "vehiculos"} :
              filas' = [filas EXCEPT ![v] = @ \ T]
      BY <1>2 DEF BorrarDetalle
    <3>2. filas' \in [Ventas -> SUBSET Tablas]
      BY <3>1 DEF TypeOK
    <3>3. borradoFallido' \in SUBSET Ventas
      BY <1>2 DEF TypeOK, BorrarDetalle
    <3>4. QED
      BY <3>2, <3>3
  <2>2. QED
    BY <1>2, <2>1 DEF TypeOK, BorrarDetalle, Va, Activa, Rollback
<1>3. CASE BorrarVenta(v)
  <2>1. /\ filas' \in [Ventas -> SUBSET Tablas]
        /\ borradoFallido' \in SUBSET Ventas
    BY <1>3 DEF TypeOK, BorrarVenta, Tablas
  <2>2. QED
    BY <1>3, <2>1 DEF TypeOK, BorrarVenta, Va, Final
<1>4. QED
  BY <1>1, <1>2, <1>3

LEMMA TipoAjuste ==
    ASSUME TypeOK, NEW a \in Ajustes,
           LeerAjuste(a) \/ InsertarAjuste(a) \/ EscribirAjuste(a) \/ EditarProducto(a)
    PROVE  TypeOK'
<1> DEFINE Registro == [paso : {"libre", "leido", "movimiento", "fin"},
                        p : Productos, d : Int, base : Int]
<1>0. ajuste \in [Ajustes -> Registro] /\ ajuste[a] \in Registro
  BY DEF TypeOK
<1> AjusteEn("fin") \in Registro
  BY VentasAssumption DEF AjusteEn
<1>1. CASE LeerAjuste(a)
  <2>1. PICK p \in Productos, d \in DeltasAjuste :
            ajuste' = [ajuste EXCEPT ![a] =
                          [paso |-> "leido", p |-> p, d |-> d, base |-> stock[p]]]
    BY <1>1 DEF LeerAjuste
  <2>2. [paso |-> "leido", p |-> p, d |-> d, base |-> stock[p]] \in Registro
    BY VentasAssumption DEF TypeOK
  <2>3. ajuste' \in [Ajustes -> Registro]
    BY <1>0, <2>1, <2>2
  <2>4. QED
    BY <1>1, <2>3 DEF TypeOK, LeerAjuste, datosVenta
<1>2. CASE InsertarAjuste(a)
  <2>1. \/ ajuste' = [ajuste EXCEPT ![a].paso = "movimiento"]
        \/ ajuste' = [ajuste EXCEPT ![a] = AjusteEn("fin")]
    BY <1>2 DEF InsertarAjuste
  <2>2. ajuste' \in [Ajustes -> Registro]
    BY <1>0, <2>1
  <2>3. libro' \in [Productos -> Int]
    BY <1>0, <1>2 DEF TypeOK, InsertarAjuste
  <2>4. QED
    BY <1>2, <2>2, <2>3 DEF TypeOK, InsertarAjuste, datosVenta
<1>3. CASE EscribirAjuste(a)
  <2>1. ajuste' \in [Ajustes -> Registro]
    BY <1>0, <1>3 DEF EscribirAjuste
  <2>2. stock' \in [Productos -> Int]
    BY <1>0, <1>3 DEF TypeOK, EscribirAjuste
  <2>3. perturbado' \in SUBSET Productos
    BY <1>0, <1>3 DEF TypeOK, EscribirAjuste
  <2>4. QED
    BY <1>3, <2>1, <2>2, <2>3 DEF TypeOK, EscribirAjuste, datosVenta
<1>4. CASE EditarProducto(a)
  <2>1. PICK d \in DeltasAjuste \cup {0} :
            /\ stock' = [stock EXCEPT ![ajuste[a].p] = ajuste[a].base + d]
            /\ perturbado' = IF stock[ajuste[a].p] = ajuste[a].base + d
                             THEN perturbado ELSE perturbado \cup {ajuste[a].p}
    BY <1>4 DEF EditarProducto
  <2>2. ajuste' \in [Ajustes -> Registro]
    BY <1>0, <1>4 DEF EditarProducto
  <2>3. stock' \in [Productos -> Int] /\ perturbado' \in SUBSET Productos
    BY <1>0, <2>1, VentasAssumption DEF TypeOK
  <2>4. QED
    BY <1>4, <2>2, <2>3 DEF TypeOK, EditarProducto, datosVenta
<1>5. QED
  BY <1>1, <1>2, <1>3, <1>4

LEMMA TipoCompra ==
    ASSUME TypeOK, NEW p \in Productos, NEW d \in DeltasCompra, AplicarCompra(p, d)
    PROVE  TypeOK'
BY VentasAssumption DEF TypeOK, AplicarCompra, datosVenta

LEMMA TipoPaso == TypeOK /\ [Next]_vars => TypeOK'
<1> SUFFICES ASSUME TypeOK, [Next]_vars PROVE TypeOK'
  OBVIOUS
<1>1. CASE UNCHANGED vars
  BY <1>1 DEF TypeOK, vars, datosVenta
<1>2. CASE \E v \in Ventas : Paso(v) \/ Fallar(v) \/ Caer(v)
  BY <1>2, TipoRecibir, TipoLectura, TipoFilas, TipoExplotar, TipoDescuento,
     TipoFin, TipoRollback DEF Paso
<1>3. CASE \E a \in Ajustes :
              LeerAjuste(a) \/ InsertarAjuste(a) \/ EscribirAjuste(a) \/ EditarProducto(a)
  BY <1>3, TipoAjuste
<1>4. CASE \E p \in Productos, d \in DeltasCompra : AplicarCompra(p, d)
  BY <1>4, TipoCompra
<1>5. QED
  BY <1>1, <1>2, <1>3, <1>4 DEF Next

(* Whatever the catalogue, the requests and the bounds, every variable     *)
(* keeps to the values of its column or local variable: in particular no   *)
(* amount still to discount is ever negative.                              *)
THEOREM TipoCorrecto == Spec => []TypeOK
<1>1. QED
  BY TipoInicial, TipoPaso, PTL DEF Spec

-----------------------------------------------------------------------------
(* Each part of InvVenta is kept by every step of a sale.                  *)

LEMMA CuentaPaso ==
    ASSUME TypeOK, TypeOK', InvVenta, NEW v \in Ventas, Paso(v) \/ Fallar(v) \/ Caer(v)
    PROVE  CuentaDeUnidades'
<1> USE DEF InvVenta
<1>1. CASE Recibir(v)
  BY <1>1 DEF Recibir, CuentaDeUnidades, TypeOK, Va, Vendido, Cero
<1>2. CASE LeerProductos(v)
  BY <1>2 DEF LeerProductos, CuentaDeUnidades, TypeOK, Va, Vendido, Cero
<1>3. CASE LeerNumero(v)
  BY <1>3 DEF LeerNumero, CuentaDeUnidades, TypeOK, Va, Vendido, Cero
<1>4. CASE InsertarVenta(v)
  BY <1>4 DEF InsertarVenta, CuentaDeUnidades, TypeOK, Va, Vendido, Cero
<1>5. CASE InsertarDetalle(v)
  BY <1>5 DEF InsertarDetalle, CuentaDeUnidades, TypeOK, Vendido, Cero
<1>6. CASE Explotar(v)
  BY <1>6 DEF Explotar, CuentaDeUnidades, TypeOK, Va, Vendido, Cero
<1>7. ASSUME NEW p \in Productos, DescontarInsumo(v, p) PROVE CuentaDeUnidades'
  BY <1>7 DEF DescontarInsumo, CuentaDeUnidades, TypeOK, Vendido, Cero
<1>8. ASSUME NEW p \in Productos, DescontarLinea(v, p) PROVE CuentaDeUnidades'
  BY <1>8 DEF DescontarLinea, CuentaDeUnidades, TypeOK, Vendido, Cero
<1>9. ASSUME NEW p \in Productos, InsertarSalida(v, p) PROVE CuentaDeUnidades'
  BY <1>9 DEF InsertarSalida, CuentaDeUnidades, TypeOK, Vendido, Cero
<1>10. CASE Terminar(v)
  BY <1>10 DEF Terminar, CuentaDeUnidades, TypeOK, Va, Vendido, Cero
<1>11. CASE Fallar(v)
  BY <1>11 DEF Fallar, CuentaDeUnidades, TypeOK, Va, EnTry, Vendido, Cero
<1>12. CASE Caer(v)
  BY <1>12 DEF Caer, CuentaDeUnidades, TypeOK, Va, Activa, EnTry, Rollback, Vendido, Cero
<1>13. CASE BorrarMovimientos(v)
  BY <1>13 DEF BorrarMovimientos, CuentaDeUnidades, TypeOK, Va, Vendido, Cero
<1>14. CASE BorrarDetalle(v)
  BY <1>14 DEF BorrarDetalle, CuentaDeUnidades, TypeOK, Va, Vendido, Cero
<1>15. CASE BorrarVenta(v)
  BY <1>15 DEF BorrarVenta, CuentaDeUnidades, TypeOK, Va, Vendido, Cero
<1>16. QED
  BY <1>1, <1>2, <1>3, <1>4, <1>5, <1>6, <1>7, <1>8, <1>9, <1>10, <1>11, <1>12, <1>13,
     <1>14, <1>15 DEF Paso

LEMMA FilasPaso ==
    ASSUME TypeOK, TypeOK', InvVenta, NEW v \in Ventas, Paso(v) \/ Fallar(v) \/ Caer(v)
    PROVE  FilasDeVenta'
<1> USE DEF InvVenta
<1>1. CASE Recibir(v)
  BY <1>1 DEF Recibir, FilasDeVenta, TypeOK, Va
<1>2. CASE LeerProductos(v)
  BY <1>2 DEF LeerProductos, FilasDeVenta, TypeOK, Va
<1>3. CASE LeerNumero(v)
  BY <1>3 DEF LeerNumero, FilasDeVenta, TypeOK, Va
<1>4. CASE InsertarVenta(v)
  BY <1>4 DEF InsertarVenta, FilasDeVenta, TypeOK, Va
<1>5. CASE InsertarDetalle(v)
  <2>1. PICK t \in {"items", "vehiculos"} : filas' = [filas EXCEPT ![v] = @ \cup {t}]
    BY <1>5 DEF InsertarDetalle
  <2>2. /\ pc[v] = "items" /\ "venta" \in filas[v]
        /\ pc' \in {[pc EXCEPT ![v] = "items"], [pc EXCEPT ![v] = "explotar"]}
        /\ "items" \in filas'[v]
    BY <1>5, <2>1 DEF InsertarDetalle, TypeOK, FilasDeVenta
  <2>3. QED
    BY <2>1, <2>2 DEF TypeOK, FilasDeVenta
<1>6. CASE Explotar(v)
  BY <1>6 DEF Explotar, FilasDeVenta, TypeOK, Va
<1>7. ASSUME NEW p \in Productos, DescontarInsumo(v, p) PROVE FilasDeVenta'
  BY <1>7 DEF DescontarInsumo, FilasDeVenta, TypeOK
<1>8. ASSUME NEW p \in Productos, DescontarLinea(v, p) PROVE FilasDeVenta'
  BY <1>8 DEF DescontarLinea, FilasDeVenta, TypeOK
<1>9. ASSUME NEW p \in Productos, InsertarSalida(v, p) PROVE FilasDeVenta'
  BY <1>9 DEF InsertarSalida, FilasDeVenta, TypeOK
<1>10. CASE Terminar(v)
  BY <1>10 DEF Terminar, FilasDeVenta, TypeOK, Va
<1>11. CASE Fallar(v)
  BY <1>11 DEF Fallar, FilasDeVenta, TypeOK, Va, EnTry
<1>12. CASE Caer(v)
  BY <1>12 DEF Caer, FilasDeVenta, TypeOK, Va, Activa, EnTry, Rollback
<1>13. CASE BorrarMovimientos(v)
  BY <1>13 DEF BorrarMovimientos, FilasDeVenta, TypeOK, Va
<1>14. CASE BorrarDetalle(v)
  BY <1>14 DEF BorrarDetalle, FilasDeVenta, TypeOK, Va
<1>15. CASE BorrarVenta(v)
  BY <1>15 DEF BorrarVenta, FilasDeVenta, TypeOK, Va
<1>16. QED
  BY <1>1, <1>2, <1>3, <1>4, <1>5, <1>6, <1>7, <1>8, <1>9, <1>10, <1>11, <1>12, <1>13,
     <1>14, <1>15 DEF Paso

LEMMA CopiaPaso ==
    ASSUME TypeOK, TypeOK', InvVenta, NEW v \in Ventas, Paso(v) \/ Fallar(v) \/ Caer(v)
    PROVE  CopiaAlcanza'
<1> USE DEF InvVenta
<1>1. CASE Recibir(v)
  BY <1>1 DEF Recibir, CopiaAlcanza, TypeOK, Va, CuentaDeUnidades, Trozos
<1>2. CASE LeerProductos(v)
  <2>1. CASE Alcanza(cant[v])
    <3>1. /\ pc' = [pc EXCEPT ![v] = "numero"] /\ pc[v] = "productos"
          /\ leido' = [leido EXCEPT ![v] = stock]
          /\ resta' = [resta EXCEPT ![v] =
                [q \in Productos |-> IF q \in Controla THEN cant[v][q] ELSE 0]]
          /\ pendInsumo' = pendInsumo
      BY <1>2, <2>1 DEF LeerProductos, Va
    <3>2. \A q \in Productos :
             resta'[v][q] > 0 => q \in Controla /\ leido'[v][q] >= resta'[v][q]
      BY <2>1, <3>1 DEF TypeOK, Alcanza
    <3>3. \A q \in Productos : pendInsumo'[v][q] = 0
      BY <3>1 DEF CuentaDeUnidades
    <3>4. QED
      BY <3>1, <3>2, <3>3 DEF TypeOK, CopiaAlcanza
  <2>2. CASE ~Alcanza(cant[v])
    BY <1>2, <2>2 DEF LeerProductos, Va, TypeOK, CopiaAlcanza
  <2>3. QED
    BY <2>1, <2>2
<1>3. CASE LeerNumero(v)
  BY <1>3 DEF LeerNumero, CopiaAlcanza, TypeOK, Va, CuentaDeUnidades, Trozos
<1>4. CASE InsertarVenta(v)
  BY <1>4 DEF InsertarVenta, CopiaAlcanza, TypeOK, Va, CuentaDeUnidades, Trozos
<1>5. CASE InsertarDetalle(v)
  BY <1>5 DEF InsertarDetalle, CopiaAlcanza, TypeOK, CuentaDeUnidades, Trozos
<1>6. CASE Explotar(v)
  <2>1. PICK c \in [InsumosDe(cant[v]) \cap Controla -> 0..MaxInsumo] :
            pendInsumo' = [pendInsumo EXCEPT ![v] =
                [q \in Productos |-> IF q \in DOMAIN c THEN c[q] ELSE 0]]
    BY <1>6 DEF Explotar
  <2>2. \A q \in Productos : pendInsumo'[v][q] > 0 => q \in Insumos
    BY <2>1 DEF TypeOK, InsumosDe, Insumos
  <2>3. /\ pc' = [pc EXCEPT ![v] = "descuento"] /\ pc[v] = "explotar"
        /\ leido' = leido /\ resta' = resta
        /\ \A w \in Ventas : w # v => pendInsumo'[w] = pendInsumo[w]
    BY <1>6, <2>1 DEF Explotar, Va, TypeOK
  <2>4. QED
    BY <2>2, <2>3 DEF TypeOK, CopiaAlcanza
<1>7. ASSUME NEW p \in Productos, DescontarInsumo(v, p) PROVE CopiaAlcanza'
  BY <1>7 DEF DescontarInsumo, CopiaAlcanza, TypeOK, CuentaDeUnidades, Trozos
<1>8. ASSUME NEW p \in Productos, DescontarLinea(v, p) PROVE CopiaAlcanza'
  BY <1>8 DEF DescontarLinea, CopiaAlcanza, TypeOK, CuentaDeUnidades, Trozos
<1>9. ASSUME NEW p \in Productos, InsertarSalida(v, p) PROVE CopiaAlcanza'
  BY <1>9 DEF InsertarSalida, CopiaAlcanza, TypeOK, CuentaDeUnidades, Trozos
<1>10. CASE Terminar(v)
  BY <1>10 DEF Terminar, CopiaAlcanza, TypeOK, Va, CuentaDeUnidades, Trozos
<1>11. CASE Fallar(v)
  BY <1>11 DEF Fallar, CopiaAlcanza, TypeOK, Va, EnTry, CuentaDeUnidades, Trozos
<1>12. CASE Caer(v)
  BY <1>12 DEF Caer, CopiaAlcanza, TypeOK, Va, Activa, EnTry, Rollback,
     CuentaDeUnidades, Trozos
<1>13. CASE BorrarMovimientos(v)
  BY <1>13 DEF BorrarMovimientos, CopiaAlcanza, TypeOK, Va, CuentaDeUnidades, Trozos
<1>14. CASE BorrarDetalle(v)
  BY <1>14 DEF BorrarDetalle, CopiaAlcanza, TypeOK, Va, CuentaDeUnidades, Trozos
<1>15. CASE BorrarVenta(v)
  BY <1>15 DEF BorrarVenta, CopiaAlcanza, TypeOK, Va, CuentaDeUnidades, Trozos
<1>16. QED
  BY <1>1, <1>2, <1>3, <1>4, <1>5, <1>6, <1>7, <1>8, <1>9, <1>10, <1>11, <1>12, <1>13,
     <1>14, <1>15 DEF Paso

(* A number that fits in the padding never exceeds the last of the stored  *)
(* ones in the order of the text.                                          *)
LEMMA UltimoEnTexto ==
    ASSUME NEW n \in Nat, NEW m \in Guardados, m \in Nat, m < Tope, EsUltimo(n)
    PROVE  m <= n
<1>1. ~AntesEnTexto(n, m)
  BY DEF EsUltimo
<1>2. Cabeza(n) <= n /\ Cabeza(n) \in Nat
  BY VentasAssumption DEF Cabeza
<1>3. Cabeza(m) = m
  BY DEF Cabeza
<1>4. QED
  BY <1>1, <1>2, <1>3 DEF AntesEnTexto

LEMMA NumeroPaso ==
    ASSUME TypeOK, TypeOK', InvVenta, NEW v \in Ventas, Paso(v) \/ Fallar(v) \/ Caer(v)
    PROVE  NumeroTrasAnteriores'
<1> USE DEF InvVenta
<1>1. CASE Recibir(v)
  BY <1>1 DEF Recibir, NumeroTrasAnteriores, TypeOK, Va, FilasDeVenta, Emitidas, EsUltimo
<1>2. CASE LeerProductos(v)
  BY <1>2 DEF LeerProductos, NumeroTrasAnteriores, TypeOK, Va, FilasDeVenta, Emitidas,
     EsUltimo
<1>3. CASE LeerNumero(v)
  <2>1. PICK n \in Guardados : EsUltimo(n) /\ numero' = [numero EXCEPT ![v] = n + 1]
    BY <1>3 DEF LeerNumero
  <2>2. /\ pc[v] = "numero" /\ pc' = [pc EXCEPT ![v] = "insertar"]
        /\ filas' = filas /\ anteriores' = anteriores
    BY <1>3 DEF LeerNumero, Va
  <2>3. ASSUME NEW w \in anteriores[v], numero[w] < Tope
        PROVE  pc'[w] = "ok" /\ numero'[w] < numero'[v]
    <3>1. w \in Ventas /\ pc[w] = "ok" /\ w # v
      BY <2>2, <2>3 DEF TypeOK, NumeroTrasAnteriores
    <3>2. numero[w] \in Guardados
      BY <3>1 DEF FilasDeVenta, Emitidas, Guardados
    <3>3. n \in Nat /\ numero[w] \in Nat
      BY <3>1, VentasAssumption DEF TypeOK, Guardados, Emitidas
    <3>4. numero[w] <= n
      BY <2>1, <2>3, <3>2, <3>3, UltimoEnTexto
    <3>5. QED
      BY <2>1, <2>2, <3>1, <3>3, <3>4 DEF TypeOK
  <2>4. ASSUME NEW u \in Ventas, NEW w \in anteriores[u], u # v
        PROVE  /\ pc'[w] = "ok" /\ numero'[w] = numero[w]
               /\ pc'[u] = pc[u] /\ numero'[u] = numero[u]
    BY <2>1, <2>2, <2>4 DEF TypeOK, NumeroTrasAnteriores
  <2>5. \A w \in anteriores[v] : pc'[w] = "ok" /\ numero'[w] = numero[w]
    BY <2>1, <2>2 DEF TypeOK, NumeroTrasAnteriores
  <2>6. QED
    BY <2>2, <2>3, <2>4, <2>5 DEF NumeroTrasAnteriores
<1>4. CASE InsertarVenta(v)
  BY <1>4 DEF InsertarVenta, NumeroTrasAnteriores, TypeOK, Va, FilasDeVenta, Emitidas,
     EsUltimo
<1>5. CASE InsertarDetalle(v)
  <2>1. PICK t \in {"items", "vehiculos"} : filas' = [filas EXCEPT ![v] = @ \cup {t}]
    BY <1>5 DEF InsertarDetalle
  <2>2. /\ pc[v] = "items" /\ "venta" \in filas[v]
        /\ pc' \in {[pc EXCEPT ![v] = "items"], [pc EXCEPT ![v] = "explotar"]}
        /\ anteriores' = anteriores /\ numero' = numero
    BY <1>5 DEF InsertarDetalle, TypeOK, FilasDeVenta
  <2>3. QED
    BY <2>1, <2>2 DEF TypeOK, NumeroTrasAnteriores
<1>6. CASE Explotar(v)
  BY <1>6 DEF Explotar, NumeroTrasAnteriores, TypeOK, Va, FilasDeVenta, Emitidas, EsUltimo
<1>7. ASSUME NEW p \in Productos, DescontarInsumo(v, p) PROVE NumeroTrasAnteriores'
  BY <1>7 DEF DescontarInsumo, NumeroTrasAnteriores, TypeOK, FilasDeVenta, Emitidas,
     EsUltimo
<1>8. ASSUME NEW p \in Productos, DescontarLinea(v, p) PROVE NumeroTrasAnteriores'
  BY <1>8 DEF DescontarLinea, NumeroTrasAnteriores, TypeOK, FilasDeVenta, Emitidas,
     EsUltimo
<1>9. ASSUME NEW p \in Productos, InsertarSalida(v, p) PROVE NumeroTrasAnteriores'
  BY <1>9 DEF InsertarSalida, NumeroTrasAnteriores, TypeOK, FilasDeVenta, Emitidas,
     EsUltimo
<1>10. CASE Terminar(v)
  BY <1>10 DEF Terminar, NumeroTrasAnteriores, TypeOK, Va, FilasDeVenta, Emitidas,
     EsUltimo
<1>11. CASE Fallar(v)
  BY <1>11 DEF Fallar, NumeroTrasAnteriores, TypeOK, Va, EnTry, FilasDeVenta,
     Emitidas, EsUltimo
<1>12. CASE Caer(v)
  BY <1>12 DEF Caer, NumeroTrasAnteriores, TypeOK, Va, Activa, EnTry, Rollback,
     FilasDeVenta, Emitidas, EsUltimo
<1>13. CASE BorrarMovimientos(v)
  BY <1>13 DEF BorrarMovimientos, NumeroTrasAnteriores, TypeOK, Va, FilasDeVenta,
     Emitidas, EsUltimo
<1>14. CASE BorrarDetalle(v)
  BY <1>14 DEF BorrarDetalle, NumeroTrasAnteriores, TypeOK, Va, FilasDeVenta,
     Emitidas, EsUltimo
<1>15. CASE BorrarVenta(v)
  BY <1>15 DEF BorrarVenta, NumeroTrasAnteriores, TypeOK, Va, FilasDeVenta, Emitidas,
     EsUltimo
<1>16. QED
  BY <1>1, <1>2, <1>3, <1>4, <1>5, <1>6, <1>7, <1>8, <1>9, <1>10, <1>11, <1>12, <1>13,
     <1>14, <1>15 DEF Paso

LEMMA RollbackPaso ==
    ASSUME TypeOK, TypeOK', InvVenta, NEW v \in Ventas, Paso(v) \/ Fallar(v) \/ Caer(v)
    PROVE  RollbackAvanza'
<1> USE DEF InvVenta
<1>1. CASE Recibir(v)
  BY <1>1 DEF Recibir, RollbackAvanza, TypeOK, Va, Cero
<1>2. CASE LeerProductos(v)
  <2>1. /\ pc' \in {[pc EXCEPT ![v] = "numero"], [pc EXCEPT ![v] = "rechazada"]}
        /\ filas' = filas /\ mov' = mov /\ borradoFallido' = borradoFallido
    BY <1>2 DEF LeerProductos, Va
  <2>2. QED
    BY <2>1 DEF TypeOK, RollbackAvanza
<1>3. CASE LeerNumero(v)
  BY <1>3 DEF LeerNumero, RollbackAvanza, TypeOK, Va, Cero
<1>4. CASE InsertarVenta(v)
  BY <1>4 DEF InsertarVenta, RollbackAvanza, TypeOK, Va, Cero
<1>5. CASE InsertarDetalle(v)
  <2>1. /\ pc' \in {[pc EXCEPT ![v] = "items"], [pc EXCEPT ![v] = "explotar"]}
        /\ \A w \in Ventas : w # v => filas'[w] = filas[w]
        /\ mov' = mov /\ borradoFallido' = borradoFallido
    BY <1>5 DEF InsertarDetalle, TypeOK
  <2>2. QED
    BY <2>1 DEF TypeOK, RollbackAvanza
<1>6. CASE Explotar(v)
  BY <1>6 DEF Explotar, RollbackAvanza, TypeOK, Va, Cero
<1>7. ASSUME NEW p \in Productos, DescontarInsumo(v, p) PROVE RollbackAvanza'
  BY <1>7 DEF DescontarInsumo, RollbackAvanza, TypeOK, Cero
<1>8. ASSUME NEW p \in Productos, DescontarLinea(v, p) PROVE RollbackAvanza'
  BY <1>8 DEF DescontarLinea, RollbackAvanza, TypeOK, Cero
<1>9. ASSUME NEW p \in Productos, InsertarSalida(v, p) PROVE RollbackAvanza'
  BY <1>9 DEF InsertarSalida, RollbackAvanza, TypeOK, Cero
<1>10. CASE Terminar(v)
  BY <1>10 DEF Terminar, RollbackAvanza, TypeOK, Va, Cero
<1>11. CASE Fallar(v)
  <2>1. /\ filas' = filas /\ mov' = mov /\ borradoFallido' = borradoFallido
        /\ \/ /\ pc[v] \in {"productos", "numero", "insertar"}
              /\ pc' = [pc EXCEPT ![v] = "error"]
           \/ pc' = [pc EXCEPT ![v] = "movimientos"]
    BY <1>11 DEF Fallar, Va
  <2>2. ASSUME NEW w \in Ventas \ borradoFallido',
               pc'[w] \in {"borrarItems", "borrarVenta", "error"}
        PROVE  /\ \A p \in Productos : mov'[w][p] = 0
               /\ pc'[w] = "error" => filas'[w] = {}
    <3>1. CASE w = v
      BY <2>1, <2>2, <3>1 DEF TypeOK, CuentaDeUnidades, FilasDeVenta
    <3>2. CASE w # v
      BY <2>1, <2>2, <3>2 DEF TypeOK, RollbackAvanza
    <3>3. QED
      BY <3>1, <3>2
  <2>3. QED
    BY <2>2 DEF RollbackAvanza
<1>12. CASE Caer(v)
  BY <1>12 DEF Caer, RollbackAvanza, TypeOK, Va, Activa, EnTry, Rollback, Cero
<1>13. CASE BorrarMovimientos(v)
  BY <1>13 DEF BorrarMovimientos, RollbackAvanza, TypeOK, Va, Cero
<1>14. CASE BorrarDetalle(v)
  BY <1>14 DEF BorrarDetalle, RollbackAvanza, TypeOK, Va, Cero
<1>15. CASE BorrarVenta(v)
  BY <1>15 DEF BorrarVenta, RollbackAvanza, TypeOK, Va, Cero
<1>16. QED
  BY <1>1, <1>2, <1>3, <1>4, <1>5, <1>6, <1>7, <1>8, <1>9, <1>10, <1>11, <1>12, <1>13,
     <1>14, <1>15 DEF Paso

LEMMA InvInicial == Init => InvVenta
<1> SUFFICES ASSUME Init PROVE InvVenta
  OBVIOUS
<1> USE DEF Init, Cero
<1>1. CuentaDeUnidades
  BY DEF CuentaDeUnidades
<1>2. FilasDeVenta
  BY DEF FilasDeVenta
<1>3. CopiaAlcanza
  BY DEF CopiaAlcanza
<1>4. NumeroTrasAnteriores
  BY DEF NumeroTrasAnteriores
<1>5. RollbackAvanza
  BY DEF RollbackAvanza
<1>6. QED
  BY <1>1, <1>2, <1>3, <1>4, <1>5 DEF InvVenta

(* The steps of the other writers leave every sale as it is.               *)
LEMMA InvAjena ==
    ASSUME InvVenta, UNCHANGED datosVenta
    PROVE  InvVenta'
<1> USE DEF InvVenta, datosVenta
<1>1. CuentaDeUnidades'
  BY DEF CuentaDeUnidades, Vendido
<1>2. FilasDeVenta'
  BY DEF FilasDeVenta
<1>3. CopiaAlcanza'
  BY DEF CopiaAlcanza
<1>4. NumeroTrasAnteriores'
  BY DEF NumeroTrasAnteriores
<1>5. RollbackAvanza'
  BY DEF RollbackAvanza
<1>6. QED
  BY <1>1, <1>2, <1>3, <1>4, <1>5

LEMMA InvPaso == TypeOK /\ InvVenta /\ [Next]_vars => InvVenta'
<1> SUFFICES ASSUME TypeOK, InvVenta, [Next]_vars PROVE InvVenta'
  OBVIOUS
<1>1. TypeOK'
  BY TipoPaso
<1>2. ASSUME NEW v \in Ventas, Paso(v) \/ Fallar(v) \/ Caer(v)
      PROVE  InvVenta'
  BY <1>1, <1>2, CuentaPaso, FilasPaso, CopiaPaso, NumeroPaso, RollbackPaso DEF InvVenta
<1>3. ASSUME UNCHANGED vars PROVE InvVenta'
  BY <1>3, InvAjena DEF vars
<1>4. ASSUME NEW a \in Ajustes,
             LeerAjuste(a) \/ InsertarAjuste(a) \/ EscribirAjuste(a) \/ EditarProducto(a)
      PROVE  InvVenta'
  BY <1>4, InvAjena DEF LeerAjuste, InsertarAjuste, EscribirAjuste, EditarProducto
<1>5. ASSUME NEW p \in Productos, NEW d \in DeltasCompra, AplicarCompra(p, d)
      PROVE  InvVenta'
  BY <1>5, InvAjena DEF AplicarCompra
<1>6. QED
  BY <1>2, <1>3, <1>4, <1>5 DEF Next

(* Where each unit of a sale is, which rows it has, that its copy of the   *)
(* stock covers its lines, and how far its rollback went, at every step.   *)
THEOREM InvarianteDeVentas == Spec => [](TypeOK /\ InvVenta)
<1>1. QED
  BY TipoInicial, TipoPaso, InvInicial, InvPaso, PTL DEF Spec

-----------------------------------------------------------------------------
(* A sale answered with success is whole: row, items, and an exit movement *)
(* for every unit its lines and its services took.                         *)
THEOREM VentaEsCompleta == Spec => []VentaCompleta
<1>1. TypeOK /\ InvVenta => VentaCompleta
  <2> SUFFICES ASSUME TypeOK, InvVenta, NEW v \in Ventas, pc[v] = "ok"
               PROVE  /\ {"venta", "items"} \subseteq filas[v]
                      /\ \A p \in Productos : mov[v][p] = Vendido(v, p)
    BY DEF VentaCompleta
  <2>1. {"venta", "items"} \subseteq filas[v]
    BY DEF InvVenta, FilasDeVenta
  <2>2. \A p \in Productos : mov[v][p] = Vendido(v, p)
    BY DEF InvVenta, CuentaDeUnidades, TypeOK
  <2>3. QED
    BY <2>1, <2>2
<1>2. QED
  BY <1>1, InvarianteDeVentas, PTL

(* A request that starts after another was answered gets a larger number,  *)
(* as long as the other's fits in the padding of the column.               *)
THEOREM NumerosCrecen == Spec => []NumeroCreceEnElTiempo
<1>1. InvVenta => NumeroCreceEnElTiempo
  BY DEF InvVenta, NumeroTrasAnteriores, NumeroCreceEnElTiempo
<1>2. QED
  BY <1>1, InvarianteDeVentas, PTL

(* A sale that failed and could delete what it wrote leaves no row behind. *)
THEOREM FallidaSinFilas == Spec => []ErrorLimpio
<1>1. TypeOK /\ InvVenta => ErrorLimpio
  <2> SUFFICES ASSUME TypeOK, InvVenta, NEW v \in Ventas \ borradoFallido, pc[v] = "error"
               PROVE  filas[v] = {} /\ mov[v] = Cero
    BY DEF ErrorLimpio
  <2>1. filas[v] = {} /\ \A p \in Productos : mov[v][p] = 0
    BY DEF InvVenta, RollbackAvanza
  <2>2. mov[v] \in [Productos -> Nat]
    BY DEF TypeOK
  <2>3. mov[v] = Cero
    BY <2>1, <2>2 DEF Cero
  <2>4. QED
    BY <2>1, <2>3
<1>2. QED
  BY <1>1, InvarianteDeVentas, PTL

(* No step but a purchase's or the product form's leaves a negative stock  *)
(* on a product that is only sold over the counter.                        *)
LEMMA NoNegativoPaso ==
    ASSUME TypeOK, InvVenta, [Next]_vars, NEW q \in Directos,
           stock'[q] # stock[q], compras' = compras, ~EnFormulario(q)
    PROVE  stock'[q] >= 0
<1> q \in Productos /\ q \in Controla /\ q \notin Insumos
  BY VentasAssumption DEF Directos
<1>1. ASSUME NEW v \in Ventas, NEW p \in Productos, DescontarInsumo(v, p)
      PROVE  FALSE
  <2>1. p \in Insumos
    BY <1>1 DEF DescontarInsumo, InvVenta, CopiaAlcanza
  <2>2. QED
    BY <1>1, <2>1 DEF DescontarInsumo, Escribir, TypeOK
<1>2. ASSUME NEW v \in Ventas, NEW p \in Productos, DescontarLinea(v, p)
      PROVE  stock'[q] >= 0
  <2>1. PICK n \in 1..resta[v][p] : Escribir(p, leido[v][p] - n, leido[v][p])
    BY <1>2 DEF DescontarLinea, Trozos
  <2>2. p = q
    BY <2>1 DEF Escribir, TypeOK
  <2>3. resta[v][p] \in Nat /\ resta[v][p] > 0
    BY <2>1 DEF TypeOK
  <2>4. pc[v] = "descuento"
    BY <1>2 DEF DescontarLinea
  <2>5. leido[v][p] >= resta[v][p]
    BY <2>3, <2>4 DEF InvVenta, CopiaAlcanza
  <2>6. QED
    BY <2>1, <2>2, <2>5 DEF Escribir, TypeOK
<1>3. ASSUME NEW a \in Ajustes, EscribirAjuste(a)
      PROVE  stock'[q] >= 0
  BY <1>3 DEF EscribirAjuste, TypeOK
<1>4. ASSUME NEW a \in Ajustes, EditarProducto(a)
      PROVE  FALSE
  <2>1. ajuste[a].p = q
    BY <1>4 DEF EditarProducto, TypeOK
  <2>2. ajuste[a].paso = "leido" /\ ajuste'[a].paso = "fin"
    BY <1>4 DEF EditarProducto, AjusteEn, TypeOK
  <2>3. QED
    BY <2>1, <2>2 DEF EnFormulario
<1>5. ASSUME NEW p \in Productos, NEW d \in DeltasCompra, AplicarCompra(p, d)
      PROVE  FALSE
  BY <1>5 DEF AplicarCompra, TypeOK
<1>6. QED
  BY <1>1, <1>2, <1>3, <1>4, <1>5 DEF Next, Paso, vars, Recibir, LeerProductos,
     LeerNumero, InsertarVenta, InsertarDetalle, Explotar, InsertarSalida, Terminar,
     Fallar, Caer, BorrarMovimientos, BorrarDetalle, BorrarVenta, LeerAjuste,
     InsertarAjuste

(* Of the products only sold over the counter, no sale and no manual       *)
(* movement ever writes a negative stock, however stale what it read: each *)
(* sale writes from a copy that covered all of its lines.  What is left is *)
(* the edition of a purchase and the figure typed in the product form.     *)
THEOREM SinStockNegativo == Spec => VentaNoDejaNegativo
<1>1. TypeOK /\ InvVenta /\ [Next]_vars =>
          [\A p \in Directos :
              stock'[p] # stock[p] /\ stock'[p] < 0 =>
                  compras' # compras \/ EnFormulario(p)]_vars
  <2> SUFFICES ASSUME TypeOK, InvVenta, [Next]_vars, NEW p \in Directos,
                      stock'[p] # stock[p], compras' = compras, ~EnFormulario(p)
               PROVE  ~(stock'[p] < 0)
    OBVIOUS
  <2>1. stock'[p] >= 0
    BY NoNegativoPaso
  <2>2. stock'[p] \in Int
    BY TipoPaso, VentasAssumption DEF TypeOK, Directos
  <2>3. QED
    BY <2>1, <2>2
<1>2. QED
  BY <1>1, InvarianteDeVentas, PTL DEF Spec, VentaNoDejaNegativo

-----------------------------------------------------------------------------
(* Stock and ledger.  EnCamino(p) is a sum over the requests: the lemmas   *)
(* say by how much a step of one of them moves it.                         *)

LEMMA CaminoEntero ==
    ASSUME TypeOK, NEW p \in Productos
    PROVE  EnCamino(p) \in Int
<1>1. Tomado(p) \in [Ventas -> Int] /\ Anotado(p) \in [Ajustes -> Int]
  BY DEF TypeOK, Tomado, Anotado
<1>2. SumFunction(Tomado(p)) \in Int /\ SumFunction(Anotado(p)) \in Int
  BY <1>1, VentasAssumption, SumaTipo
<1>3. QED
  BY <1>2 DEF EnCamino

(* A step of sale v moves the sum by what v takes or notes down.            *)
LEMMA VentaMueve ==
    ASSUME TypeOK, TypeOK', NEW v \in Ventas, NEW p \in Productos, ajuste' = ajuste,
           \A w \in Ventas \ {v} : porAsentar'[w][p] = porAsentar[w][p]
    PROVE  EnCamino(p)' = EnCamino(p) + (porAsentar'[v][p] - porAsentar[v][p])
<1> DEFINE f == [w \in Ventas |-> porAsentar[w][p]]
           g == [w \in Ventas |-> porAsentar'[w][p]]
<1>1. /\ f \in [Ventas -> Int] /\ g \in [Ventas -> Int]
      /\ \A w \in Ventas \ {v} : g[w] = f[w]
      /\ f[v] = porAsentar[v][p] /\ g[v] = porAsentar'[v][p]
  BY DEF TypeOK
<1>2. Tomado(p) = f /\ Tomado(p)' = g /\ Anotado(p)' = Anotado(p)
  BY DEF Tomado, Anotado
<1>3. Anotado(p) \in [Ajustes -> Int]
  BY DEF TypeOK, Anotado
<1> HIDE DEF f, g
<1>4. SumFunction(g) = SumFunction(f) + (g[v] - f[v])
  BY <1>1, VentasAssumption, SumaCambia
<1>5. SumFunction(f) \in Int /\ SumFunction(Anotado(p)) \in Int
  BY <1>1, <1>3, VentasAssumption, SumaTipo
<1>6. /\ EnCamino(p) = SumFunction(f) + SumFunction(Anotado(p))
      /\ EnCamino(p)' = SumFunction(g) + SumFunction(Anotado(p))
  BY <1>2 DEF EnCamino
<1>7. f[v] \in Int /\ g[v] \in Int
  BY <1>1
<1>8. QED
  BY <1>1, <1>4, <1>5, <1>6, <1>7

(* A step of movement a moves it by what a has in the ledger and not yet   *)
(* in the stock.                                                           *)
LEMMA AjusteMueve ==
    ASSUME TypeOK, TypeOK', NEW a \in Ajustes, NEW p \in Productos,
           porAsentar' = porAsentar, \A b \in Ajustes \ {a} : ajuste'[b] = ajuste[b]
    PROVE  EnCamino(p)' = EnCamino(p) + (Anotado(p)'[a] - Anotado(p)[a])
<1> DEFINE f == Anotado(p)
           g == Anotado(p)'
<1>1. /\ f \in [Ajustes -> Int] /\ g \in [Ajustes -> Int]
      /\ \A b \in Ajustes \ {a} : g[b] = f[b]
  BY DEF TypeOK, Anotado
<1>2. Tomado(p)' = Tomado(p)
  BY DEF Tomado
<1>3. Tomado(p) \in [Ventas -> Int]
  BY DEF TypeOK, Tomado
<1>4. /\ EnCamino(p) = SumFunction(Tomado(p)) + SumFunction(f)
      /\ EnCamino(p)' = SumFunction(Tomado(p)) + SumFunction(g)
  BY <1>2 DEF EnCamino
<1> HIDE DEF f, g
<1>5. SumFunction(g) = SumFunction(f) + (g[a] - f[a])
  BY <1>1, VentasAssumption, SumaCambia
<1>6. SumFunction(f) \in Int /\ SumFunction(Tomado(p)) \in Int
  BY <1>1, <1>3, VentasAssumption, SumaTipo
<1>7. f[a] \in Int /\ g[a] \in Int
  BY <1>1
<1>8. EnCamino(p)' = EnCamino(p) + (g[a] - f[a])
  BY <1>4, <1>5, <1>6, <1>7
<1>9. QED
  BY <1>8 DEF f, g

(* A step that touches neither what is under way nor the two columns.      *)
LEMMA CaminoIgual ==
    ASSUME NEW p \in Productos, porAsentar' = porAsentar, ajuste' = ajuste
    PROVE  EnCamino(p)' = EnCamino(p)
<1>1. Tomado(p)' = Tomado(p) /\ Anotado(p)' = Anotado(p)
  BY DEF Tomado, Anotado
<1>2. QED
  BY <1>1 DEF EnCamino

(* A discount: the units leave the stock and are under way, in one write.  *)
LEMMA CuadreDescuento ==
    ASSUME TypeOK, TypeOK', CuadreSalvoPerturbacion,
           NEW v \in Ventas, NEW p \in Productos,
           DescontarInsumo(v, p) \/ DescontarLinea(v, p) \/ InsertarSalida(v, p)
    PROVE  CuadreSalvoPerturbacion'
<1> SUFFICES ASSUME NEW q \in Productos, q \notin perturbado'
             PROVE  stock'[q] + EnCamino(q)' = Stock0[q] + libro'[q]
  BY DEF CuadreSalvoPerturbacion
<1>1. PICK n \in Int :
          /\ \/ /\ n \in Nat /\ porAsentar[v][p] = 0
                /\ libro' = libro
                /\ \E base \in Int :
                      /\ stock' = [stock EXCEPT ![p] = base - n]
                      /\ perturbado' = IF stock[p] = base THEN perturbado
                                       ELSE perturbado \cup {p}
             \/ /\ n = -porAsentar[v][p]
                /\ stock' = stock /\ perturbado' = perturbado
                /\ libro' = [libro EXCEPT ![p] = @ + n]
          /\ porAsentar' = [porAsentar EXCEPT ![v][p] = @ + n]
          /\ ajuste' = ajuste
  <2>1. CASE DescontarInsumo(v, p)
    <3>0. /\ pendInsumo[v][p] \in Nat /\ nuevo[v][p] \in Int
          /\ porAsentar[v][p] = 0
      BY <2>1 DEF DescontarInsumo, TypeOK, Cero
    <3>a. porAsentar[v][p] + pendInsumo[v][p] = pendInsumo[v][p]
      BY <3>0
    <3>1. /\ pendInsumo[v][p] \in Nat /\ nuevo[v][p] \in Int /\ porAsentar[v][p] = 0
          /\ porAsentar' = [porAsentar EXCEPT ![v][p] = @ + pendInsumo[v][p]]
      BY <2>1, <3>0, <3>a DEF DescontarInsumo
    <3>2. nuevo[v][p] = (nuevo[v][p] + pendInsumo[v][p]) - pendInsumo[v][p]
      BY <3>1
    <3>3. /\ stock' = [stock EXCEPT ![p] =
                          (nuevo[v][p] + pendInsumo[v][p]) - pendInsumo[v][p]]
          /\ perturbado' = IF stock[p] = nuevo[v][p] + pendInsumo[v][p] THEN perturbado
                           ELSE perturbado \cup {p}
      BY <2>1, <3>2 DEF DescontarInsumo, Escribir
    <3>4. libro' = libro /\ ajuste' = ajuste
      BY <2>1 DEF DescontarInsumo
    <3>5. nuevo[v][p] + pendInsumo[v][p] \in Int /\ pendInsumo[v][p] \in Int
      BY <3>1
    <3>6. QED
      BY <3>1, <3>3, <3>4, <3>5
  <2>2. CASE DescontarLinea(v, p)
    <3>1. PICK n \in Trozos(v, p) :
              /\ Escribir(p, leido[v][p] - n, leido[v][p])
              /\ porAsentar' = [porAsentar EXCEPT ![v][p] = n]
      BY <2>2 DEF DescontarLinea
    <3>2. n \in Nat /\ leido[v][p] \in Int /\ porAsentar[v][p] = 0
      BY <2>2 DEF DescontarLinea, TypeOK, Cero, Trozos
    <3>3. porAsentar' = [porAsentar EXCEPT ![v][p] = @ + n]
      <4>1. porAsentar[v][p] + n = n
        BY <3>2
      <4>2. QED
        BY <3>1, <4>1
    <3>4. libro' = libro /\ ajuste' = ajuste
      BY <2>2 DEF DescontarLinea
    <3>5. /\ stock' = [stock EXCEPT ![p] = leido[v][p] - n]
          /\ perturbado' = IF stock[p] = leido[v][p] THEN perturbado
                           ELSE perturbado \cup {p}
      BY <3>1 DEF Escribir
    <3>6. n \in Int
      BY <3>2
    <3>7. QED
      BY <3>2, <3>3, <3>4, <3>5, <3>6
  <2>3. CASE InsertarSalida(v, p)
    <3>1. porAsentar[v][p] \in Int /\ libro[p] \in Int
      BY DEF TypeOK
    <3>2. /\ libro' = [libro EXCEPT ![p] = @ + (-porAsentar[v][p])]
          /\ porAsentar' = [porAsentar EXCEPT ![v][p] = @ + (-porAsentar[v][p])]
      <4>1. /\ libro[p] + (-porAsentar[v][p]) = libro[p] - porAsentar[v][p]
            /\ porAsentar[v][p] + (-porAsentar[v][p]) = 0
        BY <3>1
      <4>2. QED
        BY <2>3, <4>1 DEF InsertarSalida
    <3>3. stock' = stock /\ perturbado' = perturbado /\ ajuste' = ajuste
      BY <2>3 DEF InsertarSalida
    <3>4. -porAsentar[v][p] \in Int
      BY <3>1
    <3>5. QED
      BY <3>2, <3>3, <3>4
  <2>4. QED
    BY <2>1, <2>2, <2>3
<1>2. q \notin perturbado
  BY <1>1
<1>3. stock[q] + EnCamino(q) = Stock0[q] + libro[q]
  BY <1>2 DEF CuadreSalvoPerturbacion
<1>4. EnCamino(q) \in Int /\ stock[q] \in Int /\ libro[q] \in Int /\ Stock0[q] \in Int
  <2>1. EnCamino(q) \in Int
    BY CaminoEntero
  <2>2. stock[q] \in Int /\ libro[q] \in Int /\ Stock0[q] \in Int
    BY VentasAssumption DEF TypeOK
  <2>3. QED
    BY <2>1, <2>2
<1>5. EnCamino(q)' = EnCamino(q) + (porAsentar'[v][q] - porAsentar[v][q])
  <2>1. \A w \in Ventas \ {v} : porAsentar'[w][q] = porAsentar[w][q]
    BY <1>1 DEF TypeOK
  <2>2. QED
    BY <1>1, <2>1, VentaMueve
<1>6. CASE q = p
  <2>1. EnCamino(q)' = EnCamino(q) + n
    BY <1>1, <1>4, <1>5, <1>6 DEF TypeOK
  <2>2. stock'[q] + n = stock[q] + (libro'[q] - libro[q])
    BY <1>1, <1>4, <1>6 DEF TypeOK
  <2>3. stock'[q] \in Int /\ libro'[q] \in Int
    BY DEF TypeOK
  <2>4. QED
    BY <1>3, <1>4, <2>1, <2>2, <2>3
<1>7. CASE q # p
  <2>1. EnCamino(q)' = EnCamino(q)
    BY <1>1, <1>4, <1>5, <1>7 DEF TypeOK
  <2>2. stock'[q] = stock[q] /\ libro'[q] = libro[q]
    BY <1>1, <1>7 DEF TypeOK
  <2>3. QED
    BY <1>3, <2>1, <2>2
<1>8. QED
  BY <1>6, <1>7

(* A step that moves neither stock, ledger nor what is under way.          *)
LEMMA CuadreQuieto ==
    ASSUME CuadreSalvoPerturbacion, perturbado \subseteq perturbado', stock' = stock,
           libro' = libro, porAsentar' = porAsentar, ajuste' = ajuste
    PROVE  CuadreSalvoPerturbacion'
BY CaminoIgual DEF CuadreSalvoPerturbacion

(* The rollback gives the ledger back only what was already out of balance. *)
LEMMA CuadreBorrar ==
    ASSUME TypeOK, TypeOK', InvCuadre, NEW v \in Ventas, BorrarMovimientos(v)
    PROVE  CuadreSalvoPerturbacion'
<1> SUFFICES ASSUME NEW q \in Productos, q \notin perturbado'
             PROVE  stock'[q] + EnCamino(q)' = Stock0[q] + libro'[q]
  BY DEF CuadreSalvoPerturbacion
<1>1. /\ pc[v] = "movimientos" /\ perturbado' = perturbado /\ stock' = stock
      /\ porAsentar' = porAsentar /\ ajuste' = ajuste
  BY DEF BorrarMovimientos, Va
<1>2. mov[v][q] = 0
  BY <1>1 DEF InvCuadre, PorBorrar, TypeOK
<1>3. libro'[q] = libro[q]
  BY <1>2 DEF BorrarMovimientos, TypeOK
<1>4. stock[q] + EnCamino(q) = Stock0[q] + libro[q]
  BY <1>1 DEF InvCuadre, CuadreSalvoPerturbacion
<1>5. QED
  BY <1>1, <1>3, <1>4, CaminoIgual

LEMMA CuadreVenta ==
    ASSUME TypeOK, TypeOK', InvCuadre, NEW v \in Ventas, Paso(v) \/ Fallar(v) \/ Caer(v)
    PROVE  CuadreSalvoPerturbacion'
<1>1. CASE \E p \in Productos :
              DescontarInsumo(v, p) \/ DescontarLinea(v, p) \/ InsertarSalida(v, p)
  BY <1>1, CuadreDescuento DEF InvCuadre
<1>2. CASE BorrarMovimientos(v)
  BY <1>2, CuadreBorrar
<1>3. ASSUME \/ Recibir(v) \/ LeerProductos(v) \/ LeerNumero(v) \/ InsertarVenta(v)
             \/ InsertarDetalle(v) \/ Explotar(v) \/ Terminar(v)
             \/ BorrarDetalle(v) \/ BorrarVenta(v) \/ Fallar(v) \/ Caer(v)
      PROVE  CuadreSalvoPerturbacion'
  <2>1. /\ perturbado \subseteq perturbado' /\ stock' = stock /\ libro' = libro
        /\ porAsentar' = porAsentar /\ ajuste' = ajuste
    BY <1>3 DEF Recibir, LeerProductos, LeerNumero, InsertarVenta, InsertarDetalle,
       Explotar, Terminar, BorrarDetalle, BorrarVenta, Fallar, Caer
  <2>2. QED
    BY <2>1, CuadreQuieto DEF InvCuadre
<1>4. QED
  BY <1>1, <1>2, <1>3 DEF Paso

(* A manual movement: its two statements are the two halves of the balance, *)
(* or the product counts as perturbed.                                     *)
LEMMA CuadreAjuste ==
    ASSUME TypeOK, TypeOK', CuadreSalvoPerturbacion, NEW a \in Ajustes,
           LeerAjuste(a) \/ InsertarAjuste(a) \/ EscribirAjuste(a) \/ EditarProducto(a)
    PROVE  CuadreSalvoPerturbacion'
<1> SUFFICES ASSUME NEW q \in Productos, q \notin perturbado'
             PROVE  stock'[q] + EnCamino(q)' = Stock0[q] + libro'[q]
  BY DEF CuadreSalvoPerturbacion
<1> DEFINE p == ajuste[a].p
           Nota == IF ajuste[a].paso = "movimiento" /\ p = q THEN ajuste[a].d ELSE 0
           NotaNueva == IF ajuste'[a].paso = "movimiento" /\ ajuste'[a].p = q
                        THEN ajuste'[a].d ELSE 0
<1>0. /\ p \in Productos /\ ajuste[a].d \in Int /\ ajuste[a].base \in Int
      /\ Nota \in Int
  BY DEF TypeOK
<1>1. perturbado \subseteq perturbado' /\ porAsentar' = porAsentar
  BY <1>0 DEF LeerAjuste, InsertarAjuste, EscribirAjuste, EditarProducto, datosVenta
<1>2. stock[q] + EnCamino(q) = Stock0[q] + libro[q]
  BY <1>1 DEF CuadreSalvoPerturbacion
<1>3. /\ EnCamino(q) \in Int /\ stock[q] \in Int /\ libro[q] \in Int /\ Stock0[q] \in Int
      /\ stock'[q] \in Int /\ libro'[q] \in Int
  BY CaminoEntero, VentasAssumption DEF TypeOK
<1>4. \A b \in Ajustes \ {a} : ajuste'[b] = ajuste[b]
  BY DEF LeerAjuste, InsertarAjuste, EscribirAjuste, EditarProducto, TypeOK
<1>5. EnCamino(q)' = EnCamino(q) + (NotaNueva - Nota)
  <2>1. EnCamino(q)' = EnCamino(q) + (Anotado(q)'[a] - Anotado(q)[a])
    BY <1>1, <1>4, AjusteMueve
  <2>2. Anotado(q)[a] = Nota /\ Anotado(q)'[a] = NotaNueva
    BY DEF Anotado
  <2>3. QED
    BY <2>1, <2>2
<1>6. CASE LeerAjuste(a)
  <2>1. stock' = stock /\ libro' = libro /\ NotaNueva = 0 /\ Nota = 0
    BY <1>6 DEF LeerAjuste, TypeOK
  <2>2. QED
    BY <1>2, <1>3, <1>5, <2>1
<1>7. CASE InsertarAjuste(a)
  <2>1. stock' = stock /\ Nota = 0
    BY <1>7 DEF InsertarAjuste
  <2>2. CASE libro' = libro /\ ajuste' = [ajuste EXCEPT ![a] = AjusteEn("fin")]
    <3>1. NotaNueva = 0
      BY <2>2 DEF AjusteEn, TypeOK
    <3>2. QED
      BY <1>2, <1>3, <1>5, <2>1, <2>2, <3>1
  <2>3. CASE /\ libro' = [libro EXCEPT ![p] = @ + ajuste[a].d]
             /\ ajuste' = [ajuste EXCEPT ![a].paso = "movimiento"]
    <3>1. libro'[q] = libro[q] + NotaNueva
      BY <1>0, <1>3, <2>3 DEF TypeOK
    <3>2. NotaNueva \in Int
      BY <1>0, <2>3 DEF TypeOK
    <3>3. QED
      BY <1>2, <1>3, <1>5, <2>1, <3>1, <3>2
  <2>4. QED
    BY <1>7, <2>2, <2>3 DEF InsertarAjuste
<1>8. CASE EscribirAjuste(a)
  <2>1. libro' = libro /\ NotaNueva = 0
    BY <1>8 DEF EscribirAjuste, AjusteEn, TypeOK
  <2>2. stock'[q] = stock[q] + Nota
    BY <1>0, <1>3, <1>8 DEF EscribirAjuste, TypeOK
  <2>3. QED
    BY <1>0, <1>2, <1>3, <1>5, <2>1, <2>2
<1>9. CASE EditarProducto(a)
  <2>1. libro' = libro /\ NotaNueva = 0 /\ Nota = 0
    BY <1>9 DEF EditarProducto, AjusteEn, TypeOK
  <2>2. stock'[q] = stock[q]
    BY <1>0, <1>3, <1>9 DEF EditarProducto, TypeOK
  <2>3. QED
    BY <1>2, <1>3, <1>5, <2>1, <2>2
<1>10. QED
  BY <1>6, <1>7, <1>8, <1>9

(* A purchase writes both columns in one transaction.                      *)
LEMMA CuadreCompra ==
    ASSUME TypeOK, CuadreSalvoPerturbacion,
           NEW p \in Productos, NEW d \in DeltasCompra, AplicarCompra(p, d)
    PROVE  CuadreSalvoPerturbacion'
<1> SUFFICES ASSUME NEW q \in Productos, q \notin perturbado'
             PROVE  stock'[q] + EnCamino(q)' = Stock0[q] + libro'[q]
  BY DEF CuadreSalvoPerturbacion
<1>1. EnCamino(q)' = EnCamino(q) /\ perturbado' = perturbado
  BY CaminoIgual DEF AplicarCompra, datosVenta
<1>2. stock[q] + EnCamino(q) = Stock0[q] + libro[q]
  BY <1>1 DEF CuadreSalvoPerturbacion
<1>3. /\ EnCamino(q) \in Int /\ stock[q] \in Int /\ libro[q] \in Int /\ Stock0[q] \in Int
      /\ d \in Int
  BY CaminoEntero, VentasAssumption DEF TypeOK
<1>4. stock'[q] - stock[q] = libro'[q] - libro[q] /\ stock'[q] \in Int /\ libro'[q] \in Int
  BY <1>3 DEF AplicarCompra, TypeOK
<1>5. QED
  BY <1>1, <1>2, <1>3, <1>4

(* Only Fallar takes a sale to its first rollback statement, and it counts *)
(* as perturbed every product the sale has discounted.                     *)
LEMMA PorBorrarPaso ==
    ASSUME TypeOK, PorBorrar, [Next]_vars
    PROVE  PorBorrar'
<1>1. perturbado \subseteq perturbado'
  <2>1. ASSUME NEW v \in Ventas, Paso(v) \/ Fallar(v) \/ Caer(v)
        PROVE  perturbado \subseteq perturbado'
    <3>1. ASSUME NEW p \in Productos, NEW x, NEW base, Escribir(p, x, base)
          PROVE  perturbado \subseteq perturbado'
      BY <3>1 DEF Escribir
    <3>2. CASE \E p \in Productos :
                  DescontarInsumo(v, p) \/ DescontarLinea(v, p) \/ InsertarSalida(v, p)
      BY <3>1, <3>2 DEF DescontarInsumo, DescontarLinea, InsertarSalida
    <3>3. QED
      BY <2>1, <3>2 DEF Paso, Recibir, LeerProductos, LeerNumero, InsertarVenta,
         InsertarDetalle, Explotar, Terminar, Fallar, Caer, BorrarMovimientos,
         BorrarDetalle, BorrarVenta
  <2>2. ASSUME NEW a \in Ajustes,
               LeerAjuste(a) \/ InsertarAjuste(a) \/ EscribirAjuste(a) \/ EditarProducto(a)
        PROVE  perturbado \subseteq perturbado'
    BY <2>2 DEF LeerAjuste, InsertarAjuste, EscribirAjuste, EditarProducto
  <2>3. QED
    BY <2>1, <2>2 DEF Next, vars, AplicarCompra
<1>2. ASSUME NEW v \in Ventas, NEW w \in Ventas, NEW p \in Productos, Paso(v) \/ Caer(v),
             pc'[w] = "movimientos", mov'[w][p] > 0
      PROVE  p \in perturbado
  <2>1. pc[w] = "movimientos" /\ mov'[w] = mov[w]
    BY <1>2 DEF Paso, Va, TypeOK, Recibir, LeerProductos, LeerNumero, InsertarVenta,
       InsertarDetalle, Explotar, DescontarInsumo, DescontarLinea, InsertarSalida,
       Terminar, Caer, BorrarMovimientos, BorrarDetalle, BorrarVenta
  <2>2. QED
    BY <1>2, <2>1 DEF PorBorrar
<1>3. ASSUME NEW v \in Ventas, NEW w \in Ventas, NEW p \in Productos, Fallar(v),
             pc'[w] = "movimientos", mov'[w][p] > 0
      PROVE  p \in perturbado'
  <2>1. mov' = mov
    BY <1>3 DEF Fallar
  <2>2. CASE w = v
    BY <1>3, <2>1, <2>2 DEF Fallar, Tocados, TypeOK
  <2>3. CASE w # v
    <3>1. pc'[w] = pc[w]
      BY <1>3, <2>3 DEF Fallar, Va, TypeOK
    <3>2. QED
      BY <1>1, <1>3, <2>1, <3>1 DEF PorBorrar
  <2>4. QED
    BY <2>2, <2>3
<1>4. ASSUME UNCHANGED datosVenta PROVE PorBorrar'
  BY <1>1, <1>4 DEF datosVenta, PorBorrar
<1>5. CASE UNCHANGED vars
  BY <1>4, <1>5 DEF vars
<1>6. CASE \E v \in Ventas : Paso(v) \/ Fallar(v) \/ Caer(v)
  BY <1>1, <1>2, <1>3, <1>6 DEF PorBorrar
<1>7. CASE \E a \in Ajustes :
              LeerAjuste(a) \/ InsertarAjuste(a) \/ EscribirAjuste(a) \/ EditarProducto(a)
  BY <1>4, <1>7 DEF LeerAjuste, InsertarAjuste, EscribirAjuste, EditarProducto
<1>8. CASE \E p \in Productos, d \in DeltasCompra : AplicarCompra(p, d)
  BY <1>4, <1>8 DEF AplicarCompra
<1>9. QED
  BY <1>5, <1>6, <1>7, <1>8 DEF Next

LEMMA CuadreInicial == Init => InvCuadre
<1> SUFFICES ASSUME Init PROVE InvCuadre
  OBVIOUS
<1>1. PorBorrar
  BY DEF Init, PorBorrar
<1>2. ASSUME NEW p \in Productos PROVE stock[p] + EnCamino(p) = Stock0[p] + libro[p]
  <2>1. /\ Tomado(p) \in [Ventas -> Int] /\ Anotado(p) \in [Ajustes -> Int]
        /\ \A v \in Ventas : Tomado(p)[v] = 0
        /\ \A a \in Ajustes : Anotado(p)[a] = 0
    BY DEF Init, Tomado, Anotado, Cero, AjusteEn
  <2>2. SumFunction(Tomado(p)) = 0 /\ SumFunction(Anotado(p)) = 0
    BY <2>1, VentasAssumption, SumaCero
  <2>3. EnCamino(p) = 0 /\ libro[p] = 0 /\ stock[p] = Stock0[p]
    BY <2>2 DEF EnCamino, Init, Cero
  <2>4. QED
    BY <2>3, VentasAssumption
<1>3. QED
  BY <1>1, <1>2 DEF InvCuadre, CuadreSalvoPerturbacion

LEMMA CuadrePaso == TypeOK /\ InvCuadre /\ [Next]_vars => InvCuadre'
<1> SUFFICES ASSUME TypeOK, InvCuadre, [Next]_vars PROVE InvCuadre'
  OBVIOUS
<1>1. TypeOK'
  BY TipoPaso
<1>2. PorBorrar'
  BY PorBorrarPaso DEF InvCuadre
<1>3. ASSUME UNCHANGED vars PROVE CuadreSalvoPerturbacion'
  BY <1>3, CuadreQuieto DEF vars, datosVenta, InvCuadre
<1>4. ASSUME NEW v \in Ventas, Paso(v) \/ Fallar(v) \/ Caer(v)
      PROVE  CuadreSalvoPerturbacion'
  BY <1>1, <1>4, CuadreVenta
<1>5. ASSUME NEW a \in Ajustes,
             LeerAjuste(a) \/ InsertarAjuste(a) \/ EscribirAjuste(a) \/ EditarProducto(a)
      PROVE  CuadreSalvoPerturbacion'
  BY <1>1, <1>5, CuadreAjuste DEF InvCuadre
<1>6. ASSUME NEW p \in Productos, NEW d \in DeltasCompra, AplicarCompra(p, d)
      PROVE  CuadreSalvoPerturbacion'
  BY <1>6, CuadreCompra DEF InvCuadre
<1>7. CuadreSalvoPerturbacion'
  BY <1>3, <1>4, <1>5, <1>6 DEF Next
<1>8. QED
  BY <1>2, <1>7 DEF InvCuadre

(* However many sales, manual movements, editions and purchases run, and   *)
(* in whatever order, the stock of a product differs from its ledger only  *)
(* by the halves still under way, until a step that perturbs it.           *)
THEOREM StockSegunElLibro == Spec => []CuadreSalvoPerturbacion
<1>1. InvCuadre => CuadreSalvoPerturbacion
  BY DEF InvCuadre
<1>2. QED
  BY <1>1, TipoInicial, TipoPaso, CuadreInicial, CuadrePaso, PTL DEF Spec
=============================================================================
