SPECIFICATION Spec
CONSTANTS
    a1 = a1
    b1 = b1
    u1 = u1
    t1 = t1
    Cuentas = {a1, b1}
    Tenants = {t1}
    Peticiones = {p1, p2}
    Ingresos = {}
    Ordenes <- ParOrdenes
    Iniciales <- ParIniciales
    SinTenant = SinTenant
    Omitido = Omitido
    MaxVersion = 1
    MaxSesiones = 0
SYMMETRY Simetria
INVARIANTS
    HayAdminSinCarrera
PROPERTIES
    TenantConservaAdmin
CHECK_DEADLOCK FALSE
