CONSTANTS
    s1 = s1
    s2 = s2
    c1 = c1
    c2 = c2
    c0 = c0
    p1 = p1
    p2 = p2
    Nada = Nada
    Cots = {c0, c1, c2}
    Original = c0
    MaxAjenos = 2
    Tocadas = {c0}
    Servicios = {s1, s2}
    ServicioDe <- MCServicioDe
    Catalogos <- MCCatalogos
    Cuerpos <- MCCuerpos
    Peticiones = {p1, p2}
    n1 = n1
    n2 = n2
    k1 = k1
    g1 = g1
    m1 = m1
    m2 = m2
    m3 = m3
    Ids = {c1, c2}
    y1 = y1
    Contactos = {y1}
    Ausente = Ausente
    u1 = u1
    u2 = u2
    Usuarios = {u1, u2}
    Hosts = {c1, c2}
    MaxVersion = 2
    MaxCambios = 1
    Nombres = {n1, n2}
    Codigos = {k1}
    Categorias = {g1}
    Archivos <- MCArchivos
    Registros = {m1, m2, m3}
    Precios = {1, 2}
    Pedidos <- MCPedidos
    Filtros <- MCFiltros
    Iniciales <- MCIniciales
    Creaciones = {s1}
    Resumenes = {s2}
    RFCs = {k1}
    Tramites = {p1, p2, s1}
SPECIFICATION SpecPartes
SYMMETRY Simetria
CHECK_DEADLOCK FALSE
INVARIANTS
    TiposOK
    RespuestaVeraz
    OrigenCallado
    ImportacionFiel
    ResumenCoherente
    PuertaFiel
