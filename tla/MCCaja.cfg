\* Two shifts, a sale, a movement and two closing requests.
SPECIFICATION Spec
CONSTANTS
    Turnos = {t1, t2}
    Numeros = {1, 2}
    Ventas = {v1}
    Movimientos = {m1}
    Cierres = {c1, c2}
    Formas <- MCFormas
    Cobro <- MCCobro
    Cabecera <- MCCabecera
    Apertura = 1
    Importes <- MCImportes
    Ingresos <- MCIngresos
SYMMETRY MCSimetria
INVARIANTS
    TypeOK
    UnTurnoPorNumero
    ArqueoExacto
PROPERTIES
    CierreUnico
    CajaQuietaNoCambia
CHECK_DEADLOCK FALSE
