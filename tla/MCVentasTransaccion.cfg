\* One sale that may fail: is it a transaction?
SPECIFICATION Spec
CONSTANTS
    aceite = aceite
    filtro = filtro
    cambio = cambio
    Productos <- MCProductos
    Controla <- MCControla
    Receta <- MCReceta
    Stock0 <- MCStock0
    Carritos <- MCCarritos
    DeltasAjuste <- MCDeltasAjuste
    DeltasCompra <- MCDeltasCompra
    Ventas = {v1}
    Ajustes = {}
    MaxInsumo = 1
    Previa = 8
    Tope = 10
    MaxCompras = 0

INVARIANT FallidaNoDejaRastro
CHECK_DEADLOCK FALSE
