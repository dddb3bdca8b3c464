\* Creations, receptions and cancellations that overlap freely.
SPECIFICATION Spec
CONSTANTS
  A = A
  B = B
  a1 = a1
  a2 = a2
  b1 = b1
  b2 = b2
  aceite = aceite
  filtro = filtro
  r1 = r1
  r2 = r2
  r3 = r3
  Ordenes = {A, B}
  Lineas = {a1, a2, b1, b2}
  Productos = {aceite, filtro}
  Recepciones = {r1, r2, r3}
  OrdenDe <- MCOrdenDe
  Producto <- MCProducto
  Pedida <- MCPedida
  Stock0 <- MCStock0
  MaxAhora = 1
SYMMETRY MCSimetria
CHECK_DEADLOCK FALSE
INVARIANTS
  TypeOK
  SinExcesoSinPermiso
  StockCuadra
  EstadoRefleja
PROPERTIES
  TerminadaNoVuelve
