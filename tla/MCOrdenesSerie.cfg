\* Orders created one at a time.
SPECIFICATION SpecEnSerie
CONSTANTS
  A = A
  B = B
  a1 = a1
  a2 = a2
  b1 = b1
  b2 = b2
  aceite = aceite
  filtro = filtro
  r1 = r1
  r2 = r2
  r3 = r3
  Ordenes = {A, B}
  Lineas = {a1, a2, b1, b2}
  Productos = {aceite, filtro}
  Recepciones = {r1, r2}
  OrdenDe <- MCOrdenDe
  Producto <- MCProducto
  Pedida <- MCPedida
  Stock0 <- MCStock0
  MaxAhora = 2
CHECK_DEADLOCK FALSE
PROPERTIES
  ImplementaAtomica
  TodaRecepcionTermina
