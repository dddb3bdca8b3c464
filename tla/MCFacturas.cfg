\* Two sessions, an invoice of 2, payments of 1 or 2, two notes, two lots.
SPECIFICATION Spec
CONSTANTS
    Sesiones = {s1, s2}
    Notas = {n1, n2}
    Ninguna = Ninguna
    Monto = 2
    Importes = {1, 2}
    MaxPagos = 2
    MaxLotes = 2
SYMMETRY MCSimetria
INVARIANTS
    TypeOK
    SaldoCuadra
    EstadoSegunSaldo
    ImpactoPorSet
    ImpactoUnico

    
CONSTRAINT Acotada
ACTION_CONSTRAINT DeAUna
CHECK_DEADLOCK FALSE
