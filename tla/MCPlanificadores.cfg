SPECIFICATION SpecJusta
CONSTANTS
    k1 = k1
    k2 = k2
    r1 = r1
    r2 = r2
    r3 = r3
    Keys = {k1, k2}
    Requests = {r1, r2, r3}
    Legacy <- MCLegacy
    c1 = c1
    c2 = c2
    p1 = p1
    cron = cron
    b1 = b1
    Cots = {c1}
    Avisadas = {c1, c2}
    Peticiones = {p1}
    Crons = {cron}
    Barridos = {b1}
    Fechas = {1, 2}
    Plazos = {1}
    Vigencia = 1
    PlazoAbierto = 1
    MaxTiempo = 2
    MaxEnvios = 1
    MaxSaldo = 2
INVARIANT FolioExclusive
PROPERTIES
    FoliosFollowCreation
    VencidasSeMarcan
    PendientesSeAtienden
CHECK_DEADLOCK FALSE
