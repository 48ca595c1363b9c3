SPECIFICATION Spec
CONSTANTS
    Cots = {c1}
    Peticiones = {p1}
    Crons = {}
    Observadas = {}
    Fechas = {1, 2}
    Vigencia = 1
    PlazoAbierto = 1
    MaxTiempo = 2
    MaxEnvios = 2
    MaxSaldo = 2
INVARIANTS
    SinVigenciaSinFecha
CHECK_DEADLOCK FALSE
