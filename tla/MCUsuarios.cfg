SPECIFICATION Spec
CONSTANTS
    a1 = a1
    b1 = b1
    u1 = u1
    t1 = t1
    Cuentas = {a1, b1, u1}
    Tenants = {t1}
    Peticiones = {p1}
    Ingresos = {i1}
    Ordenes <- MCOrdenes
    Iniciales <- MCIniciales
    SinTenant = SinTenant
    Omitido = Omitido
    MaxVersion = 1
    MaxSesiones = 1
INVARIANTS
    TypeOK
    SesionCortada
    RolYTenant
CHECK_DEADLOCK FALSE
