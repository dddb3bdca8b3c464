\* A sale against a manual movement or product edition, and a purchase.
SPECIFICATION Spec
CONSTANTS
    aceite = aceite
    filtro = filtro
    cambio = cambio
    Productos <- MCProductos
    Controla <- MCControla
    Receta <- MCReceta
    Stock0 <- MCStock0
    Carritos <- MCCarritos
    DeltasAjuste <- MCDeltasAjuste
    DeltasCompra <- MCDeltasCompra
    Ventas = {v1}
    Ajustes = {a1}
    MaxInsumo = 1
    Previa = 8
    Tope = 10
    MaxCompras = 1

INVARIANTS
    CuadreSalvoPerturbacion
PROPERTIES
    VentaNoDejaNegativo
CHECK_DEADLOCK FALSE
