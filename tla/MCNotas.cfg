SPECIFICATION Spec
CONSTANTS
    Usuarios = {u1, u2}
    Textos = {x1, x2}
    Ids = {i1}
    Peticiones = {p1, p2}
    Nada = Nada
INVARIANTS
    NotaEditable
CHECK_DEADLOCK FALSE
