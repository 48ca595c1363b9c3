SPECIFICATION Spec
CONSTANTS
    Cots = {c1}
    Peticiones = {p1}
    Crons = {}
    Observadas = {c1}
    Fechas = {1, 2}
    Vigencia = 1
    PlazoAbierto = 1
    MaxTiempo = 2
    MaxEnvios = 2
    MaxSaldo = 2
INVARIANTS
    EnlaceVivo
CHECK_DEADLOCK FALSE
