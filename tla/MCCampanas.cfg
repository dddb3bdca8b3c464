\* Two recipients in batches of two, one failure, one validation.
SPECIFICATION Spec
CONSTANTS
    Destinos <- MCDestinos
    Sesiones = {s1, s2}
    TamLote = 2
    MaxFallas = 1
    MaxValidaciones = 1
INVARIANTS
    TypeOK
    EnvioUnico
    CompletaSinPendientes
PROPERTIES
    Termina
ACTION_CONSTRAINT EntornoAcotado
CHECK_DEADLOCK FALSE
