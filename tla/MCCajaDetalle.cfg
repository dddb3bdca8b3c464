\* Do the closing and the report agree?
SPECIFICATION Spec
CONSTANTS
    Turnos = {t1, t2}
    Numeros = {1, 2}
    Ventas = {v1}
    Movimientos = {m1}
    Cierres = {c1}
    Formas <- MCFormas
    Cobro <- MCCobro
    Cabecera <- MCCabecera
    Apertura = 1
    Importes <- MCImportes
    Ingresos <- MCIngresos
INVARIANT CierreSegunDetalle
CHECK_DEADLOCK FALSE
