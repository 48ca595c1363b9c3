------------------------------ MODULE Metricas ------------------------------
(***************************************************************************)
(* The summary of the quotations of a tenant (getTotalsMetrics), made of   *)
(* counts and sums that the database runs one by one, in any order, while  *)
(* quotations are created and move (CicloCotizacion) and the catalogue     *)
(* changes; and the creation of a quotation (createAdminCotizacion), whose *)
(* lines copy the type and the price of services read one after the other. *)
(*                                                                         *)
(* The date of a quotation is the shortest of the periods of the summary   *)
(* that it is in: today is 4, this month 3, this year 2, before that 1.    *)
(* Rankings of customers and of services are left out.                     *)
(***************************************************************************)
EXTENDS Naturals, Sequences, FiniteSetsExt

CONSTANTS
    Cots,
    Servicios,
    Precios,        \* prices of services and of the lines that give their own
    Pedidos,        \* bodies of creations: sequences of [servicio, cantidad, precio]
    Filtros,        \* filters of a summary: [desde, hasta, tipo]
    Iniciales,      \* what there is at the start: [fecha, items] of some quotations
    Creaciones, Resumenes,  \* requests of either kind; each one is made once
    MaxAjenos,      \* bound: moves of quotations and changes of the catalogue
    Nada

Tipos == {"producto", "servicio"}
Cubos == Tipos \cup {"sinTipo"}     \* old lines have no type
Periodos == 1..4

\* A line.  Every line is stored with its subtotal (cotizacion.schema.ts:27): the
\* aggregations recompute one that is missing, which the model leaves out.
Item == [servicio : Servicios, tipo : Cubos, subtotal : Nat]

Pedido == [servicio : Servicios, cantidad : Nat, precio : Precios \cup {Nada}]

ConstantsOK ==
    /\ Precios \subseteq Nat /\ MaxAjenos \in Nat
    /\ Pedidos \subseteq Seq(Pedido)
    /\ Filtros \subseteq [desde : Periodos, hasta : Periodos, tipo : Tipos \cup {Nada}]
    /\ IsFiniteSet(Cots) /\ DOMAIN Iniciales \subseteq Cots
    /\ \A c \in DOMAIN Iniciales : Iniciales[c] \in [fecha : Periodos, items : Seq(Item)]
    /\ Nada \notin Precios /\ Nada \notin Tipos

VARIABLES
    estado, origen, \* of the quotations, see CicloCotizacion
    fecha,          \* fecha[c]: the period of fechaCreacion
    items,          \* items[c]: the lines
    total,          \* total[c]
    catalogo,       \* catalogo[s]: [tipo, precio, activo]
    crea,           \* crea[p]: progress and locals of a creation
    res,            \* res[m]: progress and locals of a summary
    ajenos,
    movidos         \* history: how many quotations were created or moved during a summary

vars == <<estado, origen, fecha, items, total, catalogo, crea, res, ajenos, movidos>>
cotizaciones == <<estado, origen, fecha, items, total>>

Ciclo == INSTANCE CicloCotizacion

SumaDe(s) == SumFunction([i \in DOMAIN s |-> s[i].subtotal])

\* faltan: the lines still to read.
Creacion == [pc : {"libre", "hecha"}]
            \cup [pc : {"lineas"}, faltan : Seq(Pedido), items : Seq(Item), total : Nat]

Consultas == {"hoy", "mes", "anio", "totales", "aceptadas", "rechazadas", "ingresos"} \cup Cubos

\* A summary runs them all.  Which figures it leaves out changes none of the others:
\* each summary is followed through those of one comparison.
Comparadas == {{"hoy", "mes"}, {"mes", "anio"}, {"anio", "totales"},
               {"aceptadas", "rechazadas", "totales"}, {"ingresos"} \cup Cubos}

\* leidas: what has been read; falta: what has not.
Resumen ==
    [pc : {"libre"}]
    \cup [pc : {"lee", "hecho"}, filtro : Filtros, cifras : Comparadas,
          leidas : [Consultas -> Nat], falta : SUBSET Consultas]

TypeOK ==
    /\ fecha \in [Cots -> Periodos]
    /\ items \in [Cots -> Seq(Item)] /\ total \in [Cots -> Nat]
    /\ catalogo \in [Servicios -> [tipo : Tipos, precio : Precios, activo : BOOLEAN]]
    /\ crea \in [Creaciones -> Creacion] /\ res \in [Resumenes -> Resumen]
    /\ ajenos \in Nat /\ movidos \in [Resumenes -> Nat]

Init ==
    /\ origen = [c \in Cots |-> "ninguno"]
    /\ estado \in [Cots -> {"ausente", "vigente", "aceptada", "cancelada"}]
    /\ {c \in Cots : estado[c] # "ausente"} = DOMAIN Iniciales
    /\ fecha = [c \in Cots |-> IF c \in DOMAIN Iniciales THEN Iniciales[c].fecha ELSE 4]
    /\ items = [c \in Cots |-> IF c \in DOMAIN Iniciales THEN Iniciales[c].items ELSE <<>>]
    /\ total = [c \in Cots |-> SumaDe(items[c])]
    /\ catalogo \in [Servicios -> [tipo : Tipos, precio : Precios, activo : BOOLEAN]]
    /\ crea = [p \in Creaciones |-> [pc |-> "libre"]]
    /\ res = [m \in Resumenes |-> [pc |-> "libre"]]
    /\ ajenos = 0 /\ movidos = [m \in Resumenes |-> 0]

Movida == movidos' = [m \in Resumenes |-> IF res[m].pc = "lee" THEN movidos[m] + 1
                                          ELSE movidos[m]]

-----------------------------------------------------------------------------
(* Creation *)

\* The customer is found and is active, or there is none.
Pedir(p, d) ==
    /\ crea[p].pc = "libre"
    /\ crea' = [crea EXCEPT ![p] = [pc |-> "lineas", faltan |-> d, items |-> <<>>, total |-> 0]]
    /\ UNCHANGED <<cotizaciones, catalogo, res, ajenos, movidos>>

\* buildItems: the next line.  A service that is switched off is an error.
LeeLinea(p) ==
    /\ crea[p].pc = "lineas" /\ crea[p].faltan # <<>>
    /\ LET r == crea[p]
           l == Head(r.faltan)
           s == catalogo[l.servicio]
           subtotal == (IF l.precio # Nada THEN l.precio ELSE s.precio) * l.cantidad IN
        crea' = [crea EXCEPT ![p] =
            IF ~s.activo THEN [pc |-> "hecha"]
            ELSE [r EXCEPT !.faltan = Tail(r.faltan),
                           !.total = r.total + subtotal,
                           !.items = Append(r.items, [servicio |-> l.servicio, tipo |-> s.tipo,
                                                      subtotal |-> subtotal])]]
    /\ UNCHANGED <<cotizaciones, catalogo, res, ajenos, movidos>>

\* The folio, the configuration, the date, and the save; or an error.
Guarda(p) ==
    /\ crea[p].pc = "lineas" /\ crea[p].faltan = <<>>
    /\ crea' = [crea EXCEPT ![p] = [pc |-> "hecha"]]
    /\ \/ \E c \in Cots :
            /\ Ciclo!Nacer(c)
            /\ fecha' = [fecha EXCEPT ![c] = 4]
            /\ items' = [items EXCEPT ![c] = crea[p].items]
            /\ total' = [total EXCEPT ![c] = crea[p].total]
            /\ Movida
       \/ UNCHANGED <<cotizaciones, movidos>>
    /\ UNCHANGED <<catalogo, res, ajenos>>

-----------------------------------------------------------------------------
(* The summary *)

\* buildMatch: the period the filter leaves, and the states but cancelled.
EnFiltro(c, f) == estado[c] # "ausente" /\ f.desde <= fecha[c] /\ fecha[c] <= f.hasta
Base(f) == {c \in Cots : EnFiltro(c, f) /\ estado[c] # "cancelada"}

\* Faulty variant: the start of a period replaces that of the filter.
DesdeReemplazado(f, inicio) ==
    {c \in Cots : /\ estado[c] \notin {"ausente", "cancelada"}
                  /\ inicio <= fecha[c] /\ fecha[c] <= f.hasta}

\* withMatch: the start of a period narrows the filter,
Desde(f, inicio) == {c \in Base(f) : inicio <= fecha[c]}

\* and a state replaces the condition on states.
EnEstado(f, e) == {c \in Cots : EnFiltro(c, f) /\ estado[c] = e}

\* What each line adds to the income of a type: only those the filter lets through.
DelTipo(c, t, f) ==
    [i \in DOMAIN items[c] |-> IF items[c][i].tipo = t /\ f.tipo \in {t, Nada}
                               THEN items[c][i].subtotal ELSE 0]

\* What a count counts.
Contadas(q, f) ==
    CASE q = "hoy" -> Desde(f, 4)
      [] q = "mes" -> Desde(f, 3)
      [] q = "anio" -> Desde(f, 2)
      [] q = "totales" -> Base(f)
      [] q = "aceptadas" -> EnEstado(f, "aceptada")
      [] q = "rechazadas" -> EnEstado(f, "rechazada")

\* One of the queries: a sum of the lines of a type, or of the totals, or a count.
Valor(q, f) ==
    IF q \in Cubos THEN SumFunctionOnSet([c \in Cots |-> SumFunction(DelTipo(c, q, f))],
                                        EnEstado(f, "aceptada"))
    ELSE IF q = "ingresos" THEN SumFunctionOnSet(total, EnEstado(f, "aceptada"))
    ELSE Cardinality(Contadas(q, f))

\* The types are sums of one aggregation.
Grupo(q) == IF q \in Cubos THEN Cubos ELSE {q}

Resumir(m, f, Q) ==
    /\ res[m].pc = "libre"
    /\ res' = [res EXCEPT ![m] = [pc |-> "lee", filtro |-> f, cifras |-> Q, falta |-> Q,
                                  leidas |-> [q \in Consultas |-> 0]]]
    /\ UNCHANGED <<cotizaciones, catalogo, crea, ajenos, movidos>>

Consulta(m, q) ==
    /\ res[m].pc = "lee" /\ q \in res[m].falta
    /\ LET r == res[m]
           falta == r.falta \ Grupo(q) IN
        res' = [res EXCEPT ![m] =
            [r EXCEPT !.falta = falta,
                      !.pc = IF falta = {} THEN "hecho" ELSE "lee",
                      !.leidas = [k \in Consultas |-> IF k \in Grupo(q) THEN Valor(k, r.filtro)
                                                      ELSE r.leidas[k]]]]
    /\ UNCHANGED <<cotizaciones, catalogo, crea, ajenos, movidos>>

-----------------------------------------------------------------------------
(* What others do *)

MueveCotizacion(c) ==
    /\ Ciclo!Responder(c) \/ Ciclo!Expirar(c) \/ Ciclo!CambiarManual(c)
    /\ Movida
    /\ UNCHANGED <<fecha, items, total, catalogo, crea, res>>

CambiaServicio(s) ==
    /\ \E d \in [tipo : Tipos, precio : Precios, activo : BOOLEAN] :
        catalogo' = [catalogo EXCEPT ![s] = d]
    /\ UNCHANGED <<cotizaciones, crea, res, movidos>>

Next ==
    \/ \E p \in Creaciones :
        \/ \E d \in Pedidos : Pedir(p, d)
        \/ LeeLinea(p) \/ Guarda(p)
    \/ \E m \in Resumenes :
        \/ \E f \in Filtros, Q \in Comparadas : Resumir(m, f, Q)
        \/ \E q \in Consultas : Consulta(m, q)
    \/ /\ ajenos < MaxAjenos /\ ajenos' = ajenos + 1
       /\ (\E c \in Cots : MueveCotizacion(c)) \/ (\E s \in Servicios : CambiaServicio(s))

Spec == Init /\ [][Next]_vars

-----------------------------------------------------------------------------
(* Properties *)

\* Figures v of the comparison Q agree, but for n quotations that were created or moved
\* between two of the queries: a period is part of a longer one, no more quotations were
\* answered than issued, and if there were none the income is that of the types.
Concuerdan(v, Q, f, n) ==
    LET porTipo == v["producto"] + v["servicio"] + v["sinTipo"] IN
    /\ \A par \in {<<"hoy", "mes">>, <<"mes", "anio">>, <<"anio", "totales">>} :
        {par[1], par[2]} = Q => v[par[1]] <= v[par[2]] + n
    /\ "aceptadas" \in Q => v["aceptadas"] + v["rechazadas"] <= v["totales"] + n
    /\ "ingresos" \in Q /\ n = 0 =>
        IF f.tipo = Nada THEN porTipo = v["ingresos"] ELSE porTipo <= v["ingresos"]

\* The figures of a summary agree with each other, whatever the filter and whatever
\* happens to the catalogue (metrics.service.ts:348, :436).
ResumenCoherente ==
    \A m \in Resumenes : res[m].pc = "hecho" =>
        Concuerdan(res[m].leidas, res[m].cifras, res[m].filtro, movidos[m])
=============================================================================
