SPECIFICATION SpecPartes
CONSTANTS
    Cots = {c1}
    Peticiones = {p1, p2}
    Crons = {}
    Observadas = {}
    Fechas = {1, 2}
    Vigencia = 1
    PlazoAbierto = 1
    MaxTiempo = 2
    MaxEnvios = 2
    MaxSaldo = 2
SYMMETRY Simetria
INVARIANTS
    TypeOK
    RespuestaCoherente
    ProcedenciaCoherente
    AvisoPorApertura
PROPERTIES
    CicloCumplido
    RespuestaNoPisada
    PlazoRespetado
CHECK_DEADLOCK FALSE
