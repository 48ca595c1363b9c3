SPECIFICATION Spec
CONSTANTS
    Cots = {c1, c2}
    Peticiones = {p1, p2}
    Barridos = {b1, b2}
    Plazos = {1, 2}
    MaxTiempo = 2
SYMMETRY Simetria
INVARIANTS
    TypeOK
    UnSoloCorreo
PROPERTIES
    CicloCumplido
    DisparoEnFecha
CHECK_DEADLOCK FALSE
