\* Two concurrent sales and nothing else writing the stock.
SPECIFICATION Spec
CONSTANTS
    aceite = aceite
    filtro = filtro
    cambio = cambio
    Productos <- MCProductos
    Controla <- MCControla
    Receta <- MCReceta
    Stock0 <- MCStock0
    Carritos <- MCCarritos
    DeltasAjuste <- MCDeltasAjuste
    DeltasCompra <- MCDeltasCompra
    Ventas = {v1, v2}
    Ajustes = {}
    MaxInsumo = 1
    Previa = 8
    Tope = 10
    MaxCompras = 0
SYMMETRY MCSimetria
INVARIANTS
    TypeOK
    VentaCompleta
    CuadreSalvoPerturbacion
    NumeroCreceEnElTiempo
    ErrorLimpio
PROPERTIES
    VentaNoDejaNegativo
CHECK_DEADLOCK FALSE
