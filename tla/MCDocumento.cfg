\* Two sessions, two rows, two numbers, two lots; one session, three and three.
SPECIFICATION Spec
CONSTANTS
    Sesiones = {s1, s2}
    MaxFilas = 2
    MaxSeq = 2
    MaxLotes = 3
SYMMETRY MCSimetria
INVARIANTS
    TypeOK
    AprobadoPorSet
    DosAprobadosPorReenvio
    FacturaSigueAlDocumento
PROPERTIES
    AprobacionEstable
CONSTRAINT Acotado
ACTION_CONSTRAINTS
    DeAUna
    Despacio
    FacturaAlFinal
CHECK_DEADLOCK FALSE
