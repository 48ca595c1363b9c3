CONSTANTS
    Nada = Nada
    e1 = e1
    e2 = e2
    c1 = c1
    t1 = t1
    t2 = t2
    p1 = p1
    p2 = p2
    p3 = p3
    Cuentas = {c1}
    Correos = {e1, e2}
    CuentaDe <- MCCuentaDe
    Tokens = {x1, x2}
    Peticiones = {p1, p2, p3}
    Vida = 1
    Gracia = 0
    MaxReloj = 2
    k1 = k1
    x1 = x1
    x2 = x2
    Propia = Propia
    u1 = u1
    u2 = u2
    Tenants = {t1, t2}
    Claves = {k1}
    Emails = {u1, u2}
    Semillas = {x1, x2}
    Omitido = Omitido
    correo1 = correo1
    correo2 = correo2
    branding = branding
    Banco = Banco
    png = png
    webp = webp
    Buzones = {correo1, correo2}
    Ranuras = {branding, Banco}
    Formatos = {png, webp}
    Plataforma = Plataforma
    v1 = v1
    Envios = {v1}
    Ajustes = {x1, x2}
    ca = ca
    cb = cb
    ka = ka
    kb = kb
    sa = sa
    sb = sb
    Categorias = {ca, cb}
    Codigos = {ka, kb}
    Servicios = {sa, sb}
    Altas <- MCAltas
    Cambios <- MCCambios
    Iniciales <- MCIniciales
SPECIFICATION SpecPartes
SYMMETRY Simetria
CHECK_DEADLOCK FALSE
INVARIANTS
    TiposOK
    EnlaceSirve
    SoloElUltimo
    AltaCompleta
    SinHuerfanos
    EnvioPropio
    LogoServido
    CategoriaEnUso
    ImagenServida
    LoteEntero
PROPERTY UsoUnico
