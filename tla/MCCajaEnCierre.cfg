\* Is a shift being closed out of reach of sales and movements?
SPECIFICATION Spec
CONSTANTS
    Turnos = {t1, t2}
    Numeros = {1, 2}
    Ventas = {v1}
    Movimientos = {m1}
    Cierres = {c1}
    Formas <- MCFormas
    Cobro <- MCCobro
    Cabecera <- MCCabecera
    Apertura = 1
    Importes <- MCImportes
    Ingresos <- MCIngresos
PROPERTY EnCierreNoRecibe
CHECK_DEADLOCK FALSE
